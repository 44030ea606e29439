---------------------------- MODULE OrdersTheorems ----------------------------
(***************************************************************************)
(* The laws of Total, the stock a set of orders asks for.                  *)
(***************************************************************************)
EXTENDS Orders, FiniteSetTheorems, TLAPS

(* The units of any set of orders are finitely many.                        *)
LEMMA UnitsFinite ==
    ASSUME NEW S \in SUBSET OrderIDs
    PROVE  IsFiniteSet(Units(S))
<1>1. IsFiniteSet(S)
  BY OrderIDsAssumption, FS_Subset
<1>2. IsFiniteSet(1..MaxQuantity)
  <2>1. 1 \in Int /\ MaxQuantity \in Int
    BY DEF MaxQuantity
  <2> QED
    BY <2>1, FS_Interval, Zenon
<1>3. IsFiniteSet(S \X (1..MaxQuantity))
  BY <1>1, <1>2, FS_Product
<1> QED
  BY <1>3, FS_Subset DEF Units

(* Total is a natural number.                                               *)
LEMMA TotalType ==
    ASSUME NEW S \in SUBSET OrderIDs
    PROVE  Total(S) \in Nat
BY UnitsFinite, FS_CardinalityType DEF Total

(* No order asks for nothing.                                               *)
LEMMA TotalEmpty == Total({}) = 0
<1>1. Units({}) = {}
  BY DEF Units
<1> QED
  BY <1>1, FS_EmptySet DEF Total

(* A larger set of orders asks for at least as much.                        *)
LEMMA TotalMonotone ==
    ASSUME NEW T \in SUBSET OrderIDs, NEW S \in SUBSET T
    PROVE  Total(S) <= Total(T)
<1>1. Units(S) \subseteq Units(T)
  BY DEF Units
<1> QED
  BY <1>1, UnitsFinite, FS_Subset DEF Total

(* One order asks for its quantity.                                         *)
LEMMA TotalSingleton ==
    ASSUME NEW o \in OrderIDs, ValidQuantity(o)
    PROVE  Total({o}) = Quantity[o]
<1> DEFINE I == 1..Quantity[o]
<1>1. Quantity[o] \in Int /\ Quantity[o] >= 1 /\ Quantity[o] <= MaxQuantity
  BY QuantityAssumption DEF ValidQuantity, MaxQuantity
<1>2. Units({o}) = {o} \X I
  <2>1. ASSUME NEW u \in Units({o})
        PROVE  u \in {o} \X I
    BY <1>1 DEF Units, MaxQuantity
  <2>2. ASSUME NEW u \in {o} \X I
        PROVE  u \in Units({o})
    BY <1>1 DEF Units, MaxQuantity
  <2> QED
    BY <2>1, <2>2
<1>3. IsFiniteSet({o}) /\ Cardinality({o}) = 1
  BY FS_Singleton
<1>4. IsFiniteSet(I) /\ Cardinality(I) = Quantity[o]
  BY <1>1, FS_Interval
<1>5. Cardinality({o} \X I) = 1 * Quantity[o]
  BY <1>3, <1>4, FS_Product
<1>6. 1 * Quantity[o] = Quantity[o]
  BY <1>1
<1> QED
  BY <1>2, <1>5, <1>6, Zenon DEF Total

(* A new order adds its quantity.                                           *)
LEMMA TotalAdd ==
    ASSUME NEW S \in SUBSET OrderIDs, NEW o \in OrderIDs,
           o \notin S, ValidQuantity(o)
    PROVE  Total(S \cup {o}) = Total(S) + Quantity[o]
<1>1. Units(S \cup {o}) = Units(S) \cup Units({o})
  BY DEF Units
<1>2. Units(S) \cap Units({o}) = {}
  BY DEF Units
<1>3. IsFiniteSet(Units(S)) /\ IsFiniteSet(Units({o}))
  BY UnitsFinite
<1>4. Cardinality(Units(S) \cup Units({o}))
        = Cardinality(Units(S)) + Cardinality(Units({o})) - Cardinality({})
  BY <1>2, <1>3, FS_Union
<1>5. Cardinality({}) = 0
  BY FS_EmptySet
<1>6. Total(S) \in Nat /\ Total({o}) \in Nat
  BY TotalType
<1>7. Total(S \cup {o}) = Total(S) + Total({o}) - 0
  BY <1>1, <1>4, <1>5, Zenon DEF Total
<1> QED
  BY <1>6, <1>7, TotalSingleton

(* An order that leaves takes its quantity along.                           *)
LEMMA TotalRemove ==
    ASSUME NEW S \in SUBSET OrderIDs, NEW o \in S, ValidQuantity(o)
    PROVE  Total(S \ {o}) = Total(S) - Quantity[o]
<1>1. (S \ {o}) \cup {o} = S
  OBVIOUS
<1>2. Total(S) = Total(S \ {o}) + Quantity[o]
  BY <1>1, TotalAdd
<1>3. Quantity[o] \in Int /\ Total(S \ {o}) \in Nat
  BY QuantityAssumption, TotalType
<1> QED
  BY <1>2, <1>3
=============================================================================
