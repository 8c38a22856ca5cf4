---------------------------- MODULE OrderProofs ----------------------------
(***************************************************************************)
(* Proofs about the two servers that take orders, hw3 (Delivery) and hw2   *)
(* (FoodOrder), for any clients, orders and bounds.  Both compute with     *)
(* sums over sets, and the lemmas about these come first.                  *)
(***************************************************************************)
EXTENDS Delivery, FoodOrder, WellFoundedInduction, FiniteSetTheorems, TLAPS

(* Induction over the natural numbers, for a set of them. *)
LEMMA SetInduction ==
  ASSUME NEW E, 0 \in E, \A n \in Nat : n \in E => n + 1 \in E
  PROVE  Nat \subseteq E
<1> DEFINE T == Nat \ E
<1> SUFFICES ASSUME T # {} PROVE FALSE
  OBVIOUS
<1>1. PICK x \in T : \A y \in T : ~ (<<y, x>> \in OpToRel(<, Nat))
  BY WFMin, NatLessThanWellFounded
<1>2. x # 0 /\ x \in Nat /\ x - 1 \in Nat /\ x - 1 < x
  OBVIOUS
<1>3. x - 1 \in T
  BY <1>2
<1>4. <<x - 1, x>> \in OpToRel(<, Nat)
  BY <1>2 DEF OpToRel
<1> QED
  BY <1>1, <1>3, <1>4

Pick(s) == CHOOSE x \in s : TRUE

Step(f, g, s) == IF s = {} THEN 0 ELSE f[Pick(s)] + g[s \ {Pick(s)}]

Partial(f, S) == CHOOSE g : g = [s \in SUBSET S |-> Step(f, g, s)]

(* A sum is found by the recursive function that the fold uses. *)
LEMMA SumIs == ASSUME NEW f, NEW S PROVE Sum(f, S) = Partial(f, S)[S]
  BY Zenon DEF Sum, FoldFunctionOnSet, MapThenFoldSet, Partial, Pick, Step

(* What CHOOSE takes of a set is in it.                                    *)
LEMMA PickIn == \A s : s # {} => Pick(s) \in s
  BY DEF Pick

(* Subsets of at most n elements. *)
UpTo(S, n) == {s \in SUBSET S : Cardinality(s) <= n}

(* Without one element there is one less. *)
LEMMA UpToStep ==
  ASSUME NEW S, IsFiniteSet(S), NEW n \in Nat, NEW s \in UpTo(S, n + 1), s # {}
  PROVE  s \ {Pick(s)} \in UpTo(S, n)
<1>1. IsFiniteSet(s) /\ Pick(s) \in s
  BY FS_Subset, PickIn DEF UpTo
<1>2. Cardinality(s \ {Pick(s)}) = Cardinality(s) - 1 /\ Cardinality(s) \in Nat
  BY <1>1, FS_RemoveElement, FS_CardinalityType
<1> QED
  BY <1>2 DEF UpTo

(* The recursive function exists, so that it obeys its equation. *)
LEMMA PartialStep ==
  ASSUME NEW f, NEW S, IsFiniteSet(S), NEW r \in SUBSET S
  PROVE  Partial(f, S)[r] = Step(f, Partial(f, S), r)
<1> DEFINE E == {n \in Nat : \E g : g = [s \in UpTo(S, n) |-> Step(f, g, s)]}
<1>1. 0 \in E
  <2> DEFINE g == [s \in UpTo(S, 0) |-> 0]
  <2>1. \A s \in UpTo(S, 0) : s = {}
    <3> SUFFICES ASSUME NEW s \in UpTo(S, 0) PROVE s = {}
      OBVIOUS
    <3>1. IsFiniteSet(s)
      BY FS_Subset DEF UpTo
    <3>2. Cardinality(s) \in Nat /\ Cardinality(s) <= 0
      BY <3>1, FS_CardinalityType DEF UpTo
    <3>3. Cardinality(s) = 0
      BY <3>2
    <3> QED
      BY <3>1, <3>3, FS_EmptySet
  <2>2. \A s \in UpTo(S, 0) : Step(f, g, s) = 0
    BY <2>1 DEF Step
  <2>3. g = [s \in UpTo(S, 0) |-> Step(f, g, s)]
    BY <2>2
  <2> QED
    BY <2>3
<1>2. ASSUME NEW n \in Nat, n \in E
      PROVE  n + 1 \in E
  <2>1. PICK g : g = [s \in UpTo(S, n) |-> Step(f, g, s)]
    BY <1>2
  <2> DEFINE h == [s \in UpTo(S, n + 1) |-> Step(f, g, s)]
  <2>2. UpTo(S, n) \subseteq UpTo(S, n + 1)
    <3> SUFFICES ASSUME NEW s \in UpTo(S, n) PROVE s \in UpTo(S, n + 1)
      OBVIOUS
    <3>1. Cardinality(s) \in Nat
      BY FS_Subset, FS_CardinalityType DEF UpTo
    <3> QED
      BY <3>1 DEF UpTo
  <2>3. \A s \in UpTo(S, n) : h[s] = g[s]
    <3> HIDE DEF E
    <3> SUFFICES ASSUME NEW s \in UpTo(S, n) PROVE h[s] = g[s]
      OBVIOUS
    <3>1. h[s] = Step(f, g, s)
      BY <2>2
    <3>2. g[s] = Step(f, g, s)
      BY <2>1, Zenon
    <3> QED
      BY <3>1, <3>2
  <2>4. \A s \in UpTo(S, n + 1) : Step(f, g, s) = Step(f, h, s)
    <3> SUFFICES ASSUME NEW s \in UpTo(S, n + 1)
                 PROVE  Step(f, g, s) = Step(f, h, s)
      OBVIOUS
    <3>1. CASE s = {}
      BY <3>1 DEF Step
    <3>2. CASE s # {}
      <4>1. h[s \ {Pick(s)}] = g[s \ {Pick(s)}]
        BY <2>3, <3>2, UpToStep
      <4> HIDE DEF h
      <4> QED
        BY <4>1 DEF Step
    <3> QED
      BY <3>1, <3>2
  <2>5. h = [s \in UpTo(S, n + 1) |-> Step(f, h, s)]
    BY <2>4
  <2>6. \E k : k = [s \in UpTo(S, n + 1) |-> Step(f, k, s)]
    <3> HIDE DEF h
    <3> QED
      BY <2>5
  <2> QED
    BY <2>6
<1>3. Nat \subseteq E
  <2> HIDE DEF E
  <2> QED
    BY <1>1, <1>2, SetInduction
<1>4. UpTo(S, Cardinality(S)) = SUBSET S
  BY FS_Subset DEF UpTo
<1>5. Cardinality(S) \in Nat
  BY FS_CardinalityType
<1>6. \E g : g = [s \in SUBSET S |-> Step(f, g, s)]
  BY <1>3, <1>4, <1>5
<1> DEFINE p == Partial(f, S)
<1>7. p = [s \in SUBSET S |-> Step(f, p, s)]
  BY <1>6 DEF Partial
<1> HIDE DEF p
<1>8. p[r] = Step(f, p, r)
  BY <1>7, Zenon
<1> QED
  BY <1>8 DEF p

(* Induction over the subsets of a finite set, for a set of them. *)
LEMMA SubsetInduction ==
  ASSUME NEW S, IsFiniteSet(S), NEW F,
         \A T \in SUBSET S :
           (\A R \in SUBSET T : R # T => R \in F) => T \in F
  PROVE  S \in F
<1> DEFINE E == {n \in Nat : UpTo(S, n) \subseteq F}
<1>1. ASSUME NEW T \in SUBSET S, NEW R \in SUBSET T, R # T
      PROVE  R \in SUBSET S /\ Cardinality(R) < Cardinality(T)
             /\ Cardinality(R) \in Nat /\ Cardinality(T) \in Nat
  <2>1. IsFiniteSet(T)
    BY FS_Subset
  <2>2. IsFiniteSet(R) /\ Cardinality(R) <= Cardinality(T) /\ Cardinality(R) # Cardinality(T)
    BY <1>1, <2>1, FS_Subset
  <2> QED
    BY <2>1, <2>2, FS_CardinalityType
<1>2. 0 \in E
  <2> SUFFICES ASSUME NEW T \in UpTo(S, 0) PROVE T \in F
    OBVIOUS
  <2>1. ASSUME NEW R \in SUBSET T, R # T PROVE FALSE
    BY <1>1, <2>1 DEF UpTo
  <2> QED
    BY <2>1 DEF UpTo
<1>3. ASSUME NEW n \in Nat, n \in E PROVE n + 1 \in E
  <2> SUFFICES ASSUME NEW T \in UpTo(S, n + 1) PROVE T \in F
    OBVIOUS
  <2>1. ASSUME NEW R \in SUBSET T, R # T PROVE R \in F
    <3>1. R \in UpTo(S, n)
      BY <1>1, <2>1 DEF UpTo
    <3> QED
      BY <1>3, <3>1
  <2> QED
    BY <2>1 DEF UpTo
<1>4. Nat \subseteq E
  <2> HIDE DEF E
  <2> QED
    BY <1>2, <1>3, SetInduction
<1>5. S \in UpTo(S, Cardinality(S)) /\ Cardinality(S) \in Nat
  BY FS_Subset, FS_CardinalityType DEF UpTo
<1> QED
  BY <1>4, <1>5

(* What is summed up of a set depends on the set and on f there. *)
LEMMA PartialAgrees ==
  ASSUME NEW S, IsFiniteSet(S), NEW T \in SUBSET S, NEW f, NEW h,
         \A x \in T : f[x] = h[x]
  PROVE  Sum(f, T) = Partial(h, S)[T]
<1>0. IsFiniteSet(T)
  BY FS_Subset
<1> DEFINE F == {R \in SUBSET T : Partial(f, T)[R] = Partial(h, S)[R]}
<1>1. ASSUME NEW R \in SUBSET T, \A Q \in SUBSET R : Q # R => Q \in F
      PROVE  R \in F
  <2>1. Partial(f, T)[R] = Step(f, Partial(f, T), R)
    BY <1>0, PartialStep
  <2>2. Partial(h, S)[R] = Step(h, Partial(h, S), R)
    <3>1. R \in SUBSET S
      OBVIOUS
    <3> QED
      BY <3>1, PartialStep
  <2>3. CASE R = {}
    BY <2>1, <2>2, <2>3 DEF Step
  <2>4. CASE R # {}
    <3>1. Pick(R) \in R
      BY <2>4, PickIn
    <3>2. R \ {Pick(R)} \in F
      BY <1>1, <3>1
    <3>3. f[Pick(R)] = h[Pick(R)]
      BY <3>1
    <3> QED
      BY <2>1, <2>2, <2>4, <3>2, <3>3 DEF Step
  <2> QED
    BY <2>3, <2>4
<1>2. T \in F
  <2> HIDE DEF F
  <2> QED
    BY <1>0, <1>1, SubsetInduction
<1> QED
  BY <1>2, SumIs

(* Nothing sums up to 0. *)
LEMMA SumEmpty == \A f : Sum(f, {}) = 0
<1> SUFFICES ASSUME NEW f PROVE Sum(f, {}) = 0
  OBVIOUS
<1>1. Partial(f, {})[{}] = Step(f, Partial(f, {}), {})
  BY PartialStep, FS_EmptySet
<1> QED
  BY <1>1, SumIs DEF Step

(* Only the values in the set count. *)
LEMMA SumAgrees ==
  ASSUME NEW S, IsFiniteSet(S), NEW f, NEW h, \A x \in S : f[x] = h[x]
  PROVE  Sum(f, S) = Sum(h, S)
  BY PartialAgrees, SumIs

(* One element is taken out after the other. *)
LEMMA SumPick ==
  ASSUME NEW S, IsFiniteSet(S), NEW f, S # {}
  PROVE  Sum(f, S) = f[Pick(S)] + Sum(f, S \ {Pick(S)})
<1>1. Partial(f, S)[S] = Step(f, Partial(f, S), S)
  BY PartialStep
<1>2. Sum(f, S \ {Pick(S)}) = Partial(f, S)[S \ {Pick(S)}]
  BY PartialAgrees
<1> QED
  BY <1>1, <1>2, SumIs DEF Step

(* A sum of integers is an integer. *)
LEMMA SumType ==
  ASSUME NEW S, IsFiniteSet(S), NEW f, \A x \in S : f[x] \in Int
  PROVE  Sum(f, S) \in Int
<1> DEFINE F == {T \in SUBSET S : Sum(f, T) \in Int}
<1>1. ASSUME NEW T \in SUBSET S, \A R \in SUBSET T : R # T => R \in F
      PROVE  T \in F
  <2>1. CASE T = {}
    BY <2>1, SumEmpty
  <2>2. CASE T # {}
    <3>1. Pick(T) \in T /\ IsFiniteSet(T)
      BY <2>2, PickIn, FS_Subset
    <3>2. T \ {Pick(T)} \in F
      BY <1>1, <3>1
    <3>3. Sum(f, T) = f[Pick(T)] + Sum(f, T \ {Pick(T)})
      BY <2>2, <3>1, SumPick
    <3> QED
      BY <3>1, <3>2, <3>3
  <2> QED
    BY <2>1, <2>2
<1>2. S \in F
  <2> HIDE DEF F
  <2> QED
    BY <1>1, SubsetInduction
<1> QED
  BY <1>2

(* Whichever element is taken out. *)
LEMMA SumTake ==
  ASSUME NEW S, IsFiniteSet(S), NEW f, \A x \in S : f[x] \in Int, NEW y \in S
  PROVE  Sum(f, S) = f[y] + Sum(f, S \ {y})
<1> DEFINE F == {T \in SUBSET S : \A z \in T : Sum(f, T) = f[z] + Sum(f, T \ {z})}
<1>1. ASSUME NEW T \in SUBSET S, \A R \in SUBSET T : R # T => R \in F
      PROVE  T \in F
  <2> SUFFICES ASSUME NEW z \in T PROVE Sum(f, T) = f[z] + Sum(f, T \ {z})
    OBVIOUS
  <2> DEFINE p == Pick(T)
             Rest == T \ {p, z}
  <2>1. IsFiniteSet(T) /\ p \in T /\ T # {}
    BY FS_Subset, PickIn
  <2>2. Sum(f, T) = f[p] + Sum(f, T \ {p})
    BY <2>1, SumPick
  <2>3. CASE p = z
    BY <2>2, <2>3
  <2>4. CASE p # z
    <3>1. T \ {p} \in F /\ z \in T \ {p} /\ (T \ {p}) \ {z} = Rest
      BY <1>1, <2>1, <2>4
    <3>2. T \ {z} \in F /\ p \in T \ {z} /\ (T \ {z}) \ {p} = Rest
      BY <1>1, <2>1, <2>4
    <3> HIDE DEF p, Rest
    <3>3. Sum(f, T \ {p}) = f[z] + Sum(f, Rest)
      BY <3>1
    <3>4. Sum(f, T \ {z}) = f[p] + Sum(f, Rest)
      BY <3>2
    <3>5. Sum(f, Rest) \in Int
      <4>1. IsFiniteSet(Rest) /\ Rest \subseteq S
        BY FS_Subset DEF Rest
      <4> QED
        BY <4>1, SumType
    <3>6. f[p] \in Int /\ f[z] \in Int
      BY <2>1
    <3> QED
      BY <2>2, <3>3, <3>4, <3>5, <3>6
  <2> QED
    BY <2>3, <2>4
<1>2. S \in F
  <2> HIDE DEF F
  <2> QED
    BY <1>1, SubsetInduction
<1> QED
  BY <1>2

(* Zeros do not count. *)
LEMMA SumOfPart ==
  ASSUME NEW S, IsFiniteSet(S), NEW f, NEW T \in SUBSET S,
         \A x \in S : f[x] \in Int, \A x \in S \ T : f[x] = 0
  PROVE  Sum(f, S) = Sum(f, T)
<1> DEFINE F == {R \in SUBSET S : Sum(f, R) = Sum(f, R \cap T)}
<1>1. ASSUME NEW R \in SUBSET S, \A Q \in SUBSET R : Q # R => Q \in F
      PROVE  R \in F
  <2>1. CASE R \subseteq T
    <3>1. R \cap T = R
      BY <2>1
    <3> QED
      BY <3>1
  <2>2. ASSUME NEW x \in R, x \notin T PROVE R \in F
    <3>1. Sum(f, R \ {x}) = Sum(f, R \cap T)
      <4>1. R \ {x} \in F /\ (R \ {x}) \cap T = R \cap T
        BY <1>1, <2>2
      <4> QED
        BY <4>1
    <3>2. IsFiniteSet(R) /\ f[x] = 0
      BY <2>2, FS_Subset
    <3>3. Sum(f, R) = 0 + Sum(f, R \ {x})
      BY <3>2, SumTake
    <3>4. Sum(f, R \ {x}) \in Int
      <4>1. IsFiniteSet(R \ {x})
        BY <3>2, FS_RemoveElement
      <4> QED
        BY <4>1, SumType
    <3> QED
      BY <3>1, <3>3, <3>4
  <2> QED
    BY <2>1, <2>2
<1>2. S \in F
  <2> HIDE DEF F
  <2> QED
    BY <1>1, SubsetInduction
<1>3. S \cap T = T
  OBVIOUS
<1> QED
  BY <1>2, <1>3
-----------------------------------------------------------------------------
(* An order is kept as one number for each dish and one shop. *)
OrderTypes ==
  /\ shop_flag \in [Clients -> Shops \cup {"unset"}]
  /\ amount \in [Clients -> [Menu -> Int]]

OrderInv == OrderTypes /\ OneShop

(* Every dish is of a shop. *)
LEMMA ShopOfDish == \A dish \in Menu : Shop(dish) \in Shops
  BY DEF Menu, Shop, Shops

(* An order that has its shop gets dishes of this shop only (169-215).     *)
LEMMA OrderStep ==
  ASSUME OrderInv, NEW c \in Clients, NEW dish \in Menu, NEW n \in Int,
         Order(c, dish, n)
  PROVE  OrderInv'
<1> USE ShopOfDish DEF OrderInv, OrderTypes
<1>1. CASE UNCHANGED <<shop_flag, amount>>
  BY <1>1 DEF OneShop
<1>2. CASE /\ shop_flag[c] \in {"unset", Shop(dish)}
           /\ shop_flag' = [shop_flag EXCEPT ![c] = Shop(dish)]
           /\ amount' = [amount EXCEPT ![c][dish] = @ + n]
  <2>1. OrderTypes'
    BY <1>2
  <2>2. ASSUME NEW b \in Clients, NEW d \in Menu, amount'[b][d] # 0
        PROVE  shop_flag'[b] = Shop(d)
    <3>1. CASE b # c
      BY <1>2, <2>2, <3>1 DEF OneShop
    <3>2. CASE b = c /\ d = dish
      BY <1>2, <3>2
    <3>3. CASE b = c /\ d # dish
      <4>1. amount[c][d] # 0
        BY <1>2, <2>2, <3>3
      <4>2. shop_flag[c] = Shop(d) /\ Shop(d) # "unset"
        BY <4>1 DEF OneShop, Shops
      <4> QED
        BY <1>2, <3>3, <4>2
    <3> QED
      BY <3>1, <3>2, <3>3
  <2> QED
    BY <2>1, <2>2 DEF OneShop
<1> QED
  BY <1>1, <1>2 DEF Order

(* Only orders change what is ordered.                                     *)
LEMMA OrderInvNext ==
  ASSUME OrderInv, [Next]_vars
  PROVE  OrderInv'
<1>1. ASSUME NEW c \in Clients, NEW dish \in Dishes, NEW n \in Quantities,
             Order(c, dish, n)
      PROVE  OrderInv'
  BY <1>1, OrderStep, MenuAssumption
<1>2. ASSUME NEW c \in Clients, NEW dish \in Dishes,
             OrderUnknown(c, Shop(dish))
      PROVE  OrderInv'
  <2>1. Shop(dish) \in Shops
    BY ShopOfDish, MenuAssumption
  <2>2. ASSUME NEW d \in Menu PROVE amount[c][d] = 0
    BY <1>2, ShopOfDish DEF OrderInv, OrderTypes, OneShop, OrderUnknown, Shops
  <2> QED
    BY <1>2, <2>1, <2>2 DEF OrderInv, OrderTypes, OneShop, OrderUnknown
<1>3. CASE UNCHANGED <<shop_flag, amount>>
  BY <1>3 DEF OrderInv, OrderTypes, OneShop
<1> QED
  BY <1>1, <1>2, <1>3
     DEF Next, vars, orderVars, Talk, Thread, Connect, Cancel, HangUp, Leave,
         ConfirmNothing, Confirm, Assign, Look, Answer, Refuse, Accept, Arrive

(* No client ever has dishes of two shops in its order.                    *)
THEOREM DeliveryOneShop == Spec => []OneShop
<1>1. Init => OrderInv
  BY DEF Init, OrderInv, OrderTypes, OneShop
<1>2. OrderInv => OneShop
  BY DEF OrderInv
<1> QED
  BY <1>1, <1>2, OrderInvNext, PTL DEF Spec
-----------------------------------------------------------------------------
(* A delivery that a driver has, or is about to get, has a shop.           *)
HasShop ==
  \A c \in Clients :
    pc[c] \in {"assign", "look", "ask", "refused", "again", "deliver"} =>
      shop_flag[c] \in Shops

DeliveryInv == TypeOK /\ HasShop

(* The way to a shop is a number, so that the loads stay numbers.          *)
LEMMA DistanceOfShop == \A shop \in Shops : Distance[shop] \in Nat
  BY DEF Shops, Distance

(* The dishes of a shop are finitely many numbers, and so is the bill.      *)
LEMMA MenuFinite == IsFiniteSet(Menu)
<1>1. IsFiniteSet({"cookie"} \cup {"cake"})
  BY FS_Singleton, FS_AddElement
<1>2. IsFiniteSet({"cookie"} \cup {"cake"} \cup {"tea"} \cup {"boba"})
  BY <1>1, FS_AddElement
<1>3. IsFiniteSet({"cookie"} \cup {"cake"} \cup {"tea"} \cup {"boba"}
                  \cup {"fried-rice"} \cup {"Egg-drop-soup"})
  BY <1>2, FS_AddElement
<1>4. Menu = {"cookie"} \cup {"cake"} \cup {"tea"} \cup {"boba"}
             \cup {"fried-rice"} \cup {"Egg-drop-soup"}
  BY DEF Menu
<1> QED
  BY <1>3, <1>4

LEMMA ValueType ==
  ASSUME NEW order \in [Menu -> Int]
  PROVE  \A d \in Menu : /\ Value(order)[d] = order[d] * Price(d)
                         /\ Value(order)[d] \in Int
<1>1. \A d \in Menu : Price(d) \in Nat
  BY DEF Menu, Price
<1>2. \A d \in Menu : order[d] * Price(d) \in Int
  BY <1>1
<1> QED
  BY <1>2 DEF Value

LEMMA CostType ==
  ASSUME TypeOK, NEW c \in Clients
  PROVE  Cost(c) \in Int
<1> DEFINE D == {d \in Menu : Shop(d) = shop_flag[c]}
<1>1. amount[c] \in [Menu -> Int]
  BY DEF TypeOK
<1>2. IsFiniteSet(D) /\ D \subseteq Menu
  BY MenuFinite, FS_Subset
<1>3. Sum(Value(amount[c]), D) \in Int
  BY <1>1, <1>2, ValueType, SumType
<1> QED
  BY <1>3 DEF Cost

(* What a client sends leaves the loads alone; only a client with a shop   *)
(* gets past confirm().                                                    *)
LEMMA TalkTypes ==
  ASSUME DeliveryInv, NEW c \in Clients, Talk(c)
  PROVE  DeliveryInv'
<1> USE DEF DeliveryInv, TypeOK, HasShop, Goto, orderVars
<1>1. CASE Connect(c) \/ Cancel(c) \/ HangUp(c) \/ Leave(c)
  BY <1>1 DEF Connect, Cancel, HangUp, Leave
<1>2. ASSUME NEW dish \in Dishes, NEW n \in Quantities, Order(c, dish, n)
      PROVE  DeliveryInv'
  <2>1. dish \in Menu /\ n \in Int /\ Shop(dish) \in Shops
    BY MenuAssumption, ShopOfDish
  <2>2. /\ orders' \in [Clients -> 0 .. MaxOrders]
        /\ pc' = [pc EXCEPT ![c] = "loop"]
    BY <1>2, MenuAssumption DEF Order
  <2>3. /\ shop_flag' \in [Clients -> Shops \cup {"unset"}]
        /\ \A b \in Clients \ {c} : shop_flag'[b] = shop_flag[b]
    BY <1>2, <2>1 DEF Order
  <2>4. amount' \in [Clients -> [Menu -> Int]]
    <3>1. CASE UNCHANGED amount
      BY <3>1
    <3>2. CASE amount' = [amount EXCEPT ![c][dish] = @ + n]
      BY <2>1, <3>2
    <3> QED
      BY <1>2, <3>1, <3>2 DEF Order
  <2> QED
    BY <1>2, <2>2, <2>3, <2>4 DEF Order
<1>3. ASSUME NEW dish \in Dishes, OrderUnknown(c, Shop(dish))
      PROVE  DeliveryInv'
  <2>1. Shop(dish) \in Shops
    BY MenuAssumption, ShopOfDish
  <2> QED
    BY <1>3, <2>1, MenuAssumption DEF OrderUnknown
<1>4. CASE ConfirmNothing(c) \/ Confirm(c)
  BY <1>4 DEF ConfirmNothing, Confirm
<1> QED
  BY <1>1, <1>2, <1>3, <1>4 DEF Talk

(* What the thread does with a driver's load is done with a number.        *)
LEMMA ThreadTypes ==
  ASSUME DeliveryInv, NEW c \in Clients, Thread(c)
  PROVE  DeliveryInv'
<1> USE DEF DeliveryInv, TypeOK, HasShop, Goto, orderVars
<1>1. Idler \in Drivers
  BY DEF Idler, Drivers
<1>2. CASE pc[c] \in {"assign", "refused", "again", "deliver"}
  <2>1. delivery_distance(c) \in Nat
    BY <1>2, DistanceOfShop DEF delivery_distance
  <2>2. CASE Assign(c)
    BY <1>1, <2>1, <2>2 DEF Assign, Take
  <2>3. CASE Refuse(c)
    BY <2>1, <2>3 DEF Refuse, Drop
  <2>4. CASE Accept(c)
    BY <1>1, <2>1, <2>4 DEF Accept, Take, Send
  <2>5. CASE Arrive(c)
    <3>1. Cost(c) \in Int
      BY CostType
    <3> QED
      BY <2>1, <2>5, <3>1 DEF Arrive, Drop, Send
  <2> QED
    BY <1>2, <2>2, <2>3, <2>4, <2>5 DEF Thread, Look, Answer
<1>3. CASE Look(c) \/ Answer(c)
  BY <1>3 DEF Look, Answer, Send
<1> QED
  BY <1>2, <1>3 DEF Thread, Assign, Refuse, Accept, Arrive

(* Whatever the clients do, no load is ever computed from a shop that is   *)
(* not there: distance[] is read for an order of one of the three shops.   *)
THEOREM DeliveryTypes == Spec => [](TypeOK /\ HasShop)
<1>1. Init => DeliveryInv
  BY DeliveryAssumption, MenuAssumption
     DEF Init, DeliveryInv, TypeOK, HasShop, Drivers
<1>2. DeliveryInv /\ [Next]_vars => DeliveryInv'
  <2>1. CASE UNCHANGED vars
    BY <2>1 DEF DeliveryInv, TypeOK, HasShop, vars, orderVars
  <2> QED
    BY <2>1, TalkTypes, ThreadTypes DEF Next
<1> QED
  BY <1>1, <1>2, PTL DEF Spec, DeliveryInv
-----------------------------------------------------------------------------
(* A bill is made out once, when the delivery has come, and nothing is     *)
(* ordered any more.                                                       *)
Paid ==
  \A c \in Clients :
    bill[c] # -1 => pc[c] = "closed" /\ bill[c] = Sum(Value(amount[c]), Menu)

BillInv == TypeOK /\ OneShop /\ Paid

(* In an order of one shop the dishes of the others do not count.          *)
LEMMA CostIsAll ==
  ASSUME TypeOK, OneShop, NEW c \in Clients
  PROVE  Cost(c) = Sum(Value(amount[c]), Menu)
<1> DEFINE D == {d \in Menu : Shop(d) = shop_flag[c]}
           v == Value(amount[c])
<1>1. amount[c] \in [Menu -> Int]
  BY DEF TypeOK
<1>2. \A d \in Menu : v[d] \in Int
  BY <1>1, ValueType
<1>3. \A d \in Menu \ D : v[d] = 0
  <2> SUFFICES ASSUME NEW d \in Menu, d \notin D PROVE v[d] = 0
    OBVIOUS
  <2>1. amount[c][d] = 0
    BY DEF OneShop
  <2>2. Price(d) \in Nat
    BY DEF Price, Menu
  <2> QED
    BY <1>1, <2>1, <2>2, ValueType
<1> HIDE DEF v
<1>4. Sum(v, Menu) = Sum(v, D)
  BY <1>2, <1>3, MenuFinite, SumOfPart
<1> QED
  BY <1>4 DEF Cost, v

(* Only Arrive makes out a bill, and its thread is then done.              *)
LEMMA PaidNext ==
  ASSUME TypeOK, HasShop, OneShop, Paid, [Next]_vars
  PROVE  Paid'
<1> USE DEF TypeOK, Goto, orderVars
<1>1. ASSUME NEW c \in Clients, Arrive(c)
      PROVE  Paid'
  <2>1. Cost(c) = Sum(Value(amount[c]), Menu)
    BY CostIsAll
  <2> QED
    BY <1>1, <2>1 DEF Paid, Arrive
<1>2. ASSUME NEW c \in Clients, UNCHANGED bill, pc[c] # "closed",
             \A b \in Clients \ {c} : pc'[b] = pc[b] /\ amount'[b] = amount[b]
      PROVE  Paid'
  BY <1>2 DEF Paid
<1>3. CASE UNCHANGED vars
  BY <1>3 DEF Paid, vars
<1>4. ASSUME NEW c \in Clients, NEW dish \in Dishes, NEW n \in Quantities,
             Order(c, dish, n)
      PROVE  Paid'
  <2>1. \A b \in Clients \ {c} : pc'[b] = pc[b] /\ amount'[b] = amount[b]
    BY <1>4 DEF Order
  <2> QED
    BY <1>2, <1>4, <2>1 DEF Order
<1>5. ASSUME NEW c \in Clients, Leave(c)
      PROVE  Paid'
  BY <1>5 DEF Paid, Leave
<1>6. ASSUME NEW c \in Clients, NEW dish \in Dishes, OrderUnknown(c, Shop(dish))
      PROVE  Paid'
  BY <1>2, <1>6 DEF OrderUnknown
<1>7. ASSUME NEW c \in Clients,
             \/ Connect(c) \/ Cancel(c) \/ HangUp(c) \/ ConfirmNothing(c)
             \/ Confirm(c) \/ Assign(c) \/ Look(c) \/ Answer(c) \/ Refuse(c)
             \/ Accept(c)
      PROVE  Paid'
  <2>1. /\ UNCHANGED <<bill, amount>> /\ pc[c] # "closed"
        /\ \A b \in Clients \ {c} : pc'[b] = pc[b]
    BY <1>7
    DEF Connect, Cancel, HangUp, ConfirmNothing, Confirm, Assign, Look, Answer,
        Refuse, Accept
  <2> QED
    BY <1>2, <2>1
<1> QED
  BY <1>1, <1>3, <1>4, <1>5, <1>6, <1>7 DEF Next, Talk, Thread

(* Every bill is the price of all the client was shown as its order: what  *)
(* confirm() leaves out of the sum, the other shops, is not ordered.       *)
THEOREM DeliveryPaysForOrder == Spec => []PaysForOrder
<1>1. Init => Paid
  BY DEF Init, Paid
<1>2. Paid => PaysForOrder
  BY DEF Paid, PaysForOrder
<1> QED
  BY <1>1, <1>2, PaidNext, DeliveryTypes, DeliveryOneShop, PTL DEF Spec
-----------------------------------------------------------------------------
(* The deliveries that a driver has are finitely many, of known distance.   *)
LEMMA WithFinite ==
  ASSUME DeliveryInv, NEW d
  PROVE  /\ IsFiniteSet(With(d))
         /\ \A c \in With(d) : c \in Clients /\ delivery_distance(c) \in Nat
<1>1. With(d) \subseteq Clients
  BY DEF With
<1>2. \A c \in With(d) : shop_flag[c] \in Shops
  BY DEF With, DeliveryInv, HasShop
<1> QED
  BY <1>1, <1>2, FS_Subset, DistanceOfShop, DeliveryAssumption
  DEF delivery_distance

(* What the driver has is a number.                                         *)
LEMMA OutstandingType ==
  ASSUME DeliveryInv, NEW d
  PROVE  Outstanding(d) \in Int
<1> DEFINE far == [c \in With(d) |-> delivery_distance(c)]
<1>1. \A c \in With(d) : far[c] \in Int
  BY WithFinite
<1> HIDE DEF far
<1>2. Sum(far, With(d)) \in Int
  BY <1>1, WithFinite, SumType
<1> QED
  BY <1>2 DEF far, Outstanding

(* What a step leaves to a driver is still as far.                          *)
LEMMA LoadStays ==
  ASSUME DeliveryInv, NEW d, With(d)' = With(d),
         \A c \in With(d) : delivery_distance(c)' = delivery_distance(c)
  PROVE  Outstanding(d)' = Outstanding(d)
<1> DEFINE f == [c \in With(d) |-> delivery_distance(c)]
           g == [c \in With(d)' |-> delivery_distance(c)']
<1>1. \A c \in With(d) : f[c] = g[c]
  OBVIOUS
<1> HIDE DEF f, g
<1>2. Sum(f, With(d)) = Sum(g, With(d))
  BY <1>1, WithFinite, SumAgrees
<1>3. Outstanding(d) = Sum(f, With(d))
  BY DEF f, Outstanding
<1>4. Outstanding(d)' = Sum(g, With(d)')
  BY DEF g, Outstanding
<1> QED
  BY <1>2, <1>3, <1>4

LEMMA LoadGrows ==
  ASSUME DeliveryInv, NEW d, NEW c, c \notin With(d), With(d)' = With(d) \cup {c},
         delivery_distance(c)' \in Nat,
         \A b \in With(d) : delivery_distance(b)' = delivery_distance(b)
  PROVE  Outstanding(d)' = Outstanding(d) + delivery_distance(c)'
<1> DEFINE f == [b \in With(d) |-> delivery_distance(b)]
           g == [b \in With(d)' |-> delivery_distance(b)']
<1>1. /\ \A b \in With(d) : f[b] = g[b]
      /\ g[c] = delivery_distance(c)'
      /\ \A b \in With(d)' : g[b] \in Int
  BY WithFinite
<1>2. Outstanding(d) = Sum(f, With(d))
  BY DEF f, Outstanding
<1>3. Outstanding(d)' = Sum(g, With(d)')
  BY DEF g, Outstanding
<1> HIDE DEF f, g
<1>4. IsFiniteSet(With(d)') /\ c \in With(d)' /\ With(d) = With(d)' \ {c}
  BY WithFinite, FS_AddElement
<1>5. Sum(g, With(d)') = g[c] + Sum(g, With(d))
  <2> DEFINE T == With(d)'
  <2>1. IsFiniteSet(T) /\ c \in T /\ With(d) = T \ {c} /\ \A b \in T : g[b] \in Int
    BY <1>1, <1>4
  <2> HIDE DEF T
  <2>2. Sum(g, T) = g[c] + Sum(g, T \ {c})
    BY <2>1, SumTake
  <2> QED
    BY <2>1, <2>2 DEF T
<1>6. Sum(f, With(d)) = Sum(g, With(d))
  BY <1>1, WithFinite, SumAgrees
<1> QED
  BY <1>1, <1>2, <1>3, <1>5, <1>6, OutstandingType

LEMMA LoadShrinks ==
  ASSUME DeliveryInv, NEW d, NEW c \in With(d), With(d)' = With(d) \ {c},
         \A b \in With(d)' : delivery_distance(b)' = delivery_distance(b)
  PROVE  Outstanding(d)' = Outstanding(d) - delivery_distance(c)
<1> DEFINE f == [b \in With(d) |-> delivery_distance(b)]
           g == [b \in With(d)' |-> delivery_distance(b)']
<1>1. /\ \A b \in With(d)' : f[b] = g[b]
      /\ f[c] = delivery_distance(c)
      /\ \A b \in With(d) : f[b] \in Int
  BY WithFinite
<1>2. Outstanding(d) = Sum(f, With(d))
  BY DEF f, Outstanding
<1>3. Outstanding(d)' = Sum(g, With(d)')
  BY DEF g, Outstanding
<1> HIDE DEF f, g
<1>4. Sum(f, With(d)) = f[c] + Sum(g, With(d)')
  <2> DEFINE S == With(d)
             T == With(d)'
  <2>1. IsFiniteSet(S) /\ T = S \ {c} /\ c \in S /\ \A b \in S : f[b] \in Int
    BY <1>1, WithFinite
  <2>2. \A b \in T : f[b] = g[b]
    BY <1>1
  <2> HIDE DEF S, T
  <2>3. Sum(f, S) = f[c] + Sum(f, S \ {c})
    BY <2>1, SumTake
  <2>4. IsFiniteSet(T)
    BY <2>1, FS_Subset
  <2>5. Sum(f, T) = Sum(g, T)
    BY <2>2, <2>4, SumAgrees
  <2> QED
    BY <2>1, <2>3, <2>5 DEF S, T
<1>5. Sum(g, With(d)') \in Int
  <2>1. IsFiniteSet(With(d)')
    BY WithFinite, FS_Subset
  <2>2. \A b \in With(d)' : g[b] \in Int
    BY <1>1
  <2> QED
    BY <2>1, <2>2, SumType
<1> QED
  BY <1>1, <1>2, <1>3, <1>4, <1>5, WithFinite

Accounted(d) == delivery_time[d] = Outstanding(d) + phantom[d]

(* The thread of c charges and relieves the right driver.                  *)
LEMMA ThreadAccounts ==
  ASSUME DeliveryInv, NEW c \in Clients, Thread(c), NEW d \in Drivers, Accounted(d)
  PROVE  Accounted(d)'
<1> DEFINE far == delivery_distance(c)
           Place == {"away", "loop", "spinning", "assign", "look", "ask",
                     "refused", "again", "deliver", "closed"}
<1> USE DEF Goto, orderVars
<1>1. /\ Idler \in Drivers
      /\ driver_flag \in [Clients -> Drivers] /\ pc \in [Clients -> Place]
      /\ delivery_time \in [Drivers -> Int] /\ phantom \in [Drivers -> Nat]
  BY DEF Idler, Drivers, DeliveryInv, TypeOK
<1>2. UNCHANGED shop_flag /\ \A b : delivery_distance(b)' = delivery_distance(b)
  BY DEF Thread, Assign, Look, Answer, Refuse, Accept, Arrive, delivery_distance
<1>3. Outstanding(d) \in Int /\ \A b \in With(d) : delivery_distance(b) \in Nat
  BY OutstandingType, WithFinite
<1>4. pc[c] \in {"assign", "again"} => far \in Nat
  BY DistanceOfShop DEF DeliveryInv, HasShop, delivery_distance
<1> HIDE DEF far
<1>5. CASE Assign(c)
  <2>1. c \notin With(d)
    BY <1>5 DEF Assign, With
  <2>2. CASE d = Idler
    <3>1. With(d)' = With(d) \cup {c}
      BY <1>1, <1>5, <2>2 DEF Assign, Take, With
    <3>2. Outstanding(d)' = Outstanding(d) + far
      BY <1>2, <1>4, <1>5, <2>1, <3>1, LoadGrows DEF Assign, far
    <3>3. delivery_time'[d] = delivery_time[d] + far /\ phantom' = phantom /\ far \in Nat
      BY <1>1, <1>4, <1>5, <2>2 DEF Assign, Take, far
    <3> QED
      BY <1>1, <1>3, <3>2, <3>3 DEF Accounted
  <2>3. CASE d # Idler
    <3>1. With(d)' = With(d)
      BY <1>1, <1>5, <2>1, <2>3 DEF Assign, Take, With
    <3>2. Outstanding(d)' = Outstanding(d)
      BY <1>2, <3>1, LoadStays
    <3> QED
      BY <1>1, <1>5, <2>3, <3>2 DEF Assign, Take, Accounted
  <2> QED
    BY <2>2, <2>3
<1>6. CASE Look(c) \/ Answer(c)
  <2>1. With(d)' = With(d)
    BY <1>1, <1>6 DEF Look, Answer, With
  <2>2. Outstanding(d)' = Outstanding(d)
    BY <1>2, <2>1, LoadStays
  <2> QED
    BY <1>6, <2>2 DEF Look, Answer, Accounted
<1>7. CASE Refuse(c) \/ Arrive(c)
  <2>1. /\ Drop(c) /\ UNCHANGED <<driver_flag, phantom>>
        /\ pc[c] \in {"refused", "deliver"} /\ pc' = [pc EXCEPT ![c] = "closed"]
    BY <1>7 DEF Refuse, Arrive
  <2>2. CASE d = driver_flag[c]
    <3>1. c \in With(d) /\ With(d)' = With(d) \ {c}
      BY <1>1, <2>1, <2>2 DEF With
    <3>2. Outstanding(d)' = Outstanding(d) - far
      BY <1>2, <3>1, LoadShrinks DEF far
    <3>3. delivery_time'[d] = delivery_time[d] - far /\ far \in Nat
      BY <1>1, <1>3, <2>1, <2>2, <3>1 DEF Drop, far
    <3> QED
      BY <1>1, <1>3, <2>1, <3>2, <3>3 DEF Accounted
  <2>3. CASE d # driver_flag[c]
    <3>1. With(d)' = With(d)
      BY <1>1, <2>1, <2>3 DEF With
    <3>2. Outstanding(d)' = Outstanding(d)
      BY <1>2, <3>1, LoadStays
    <3> QED
      BY <1>1, <2>1, <2>3, <3>2 DEF Drop, Accounted
  <2> QED
    BY <2>2, <2>3
<1>8. CASE Accept(c)
  <2>1. /\ pc[c] = "again" /\ pc' = [pc EXCEPT ![c] = "deliver"] /\ Take(c)
        /\ phantom' = [phantom EXCEPT ![driver_flag[c]] = @ + far] /\ far \in Nat
    BY <1>4, <1>8 DEF Accept, far
  <2>2. /\ delivery_time'[d] = delivery_time[d] + (IF d = Idler THEN far ELSE 0)
        /\ phantom'[d] = phantom[d] + (IF d = driver_flag[c] THEN far ELSE 0)
    BY <1>1, <2>1 DEF Take, far
  <2>3. Outstanding(d)' = Outstanding(d) + (IF d = Idler THEN far ELSE 0)
                                         - (IF d = driver_flag[c] THEN far ELSE 0)
    <3>1. CASE (d = Idler) <=> (d = driver_flag[c])
      <4>1. With(d)' = With(d)
        BY <1>1, <2>1, <3>1 DEF Take, With
      <4> QED
        BY <1>2, <1>3, <2>1, <3>1, <4>1, LoadStays
    <3>2. CASE d = Idler /\ d # driver_flag[c]
      <4>1. c \notin With(d) /\ With(d)' = With(d) \cup {c}
        BY <1>1, <2>1, <3>2 DEF Take, With
      <4>2. Outstanding(d)' = Outstanding(d) + far
        BY <1>2, <2>1, <4>1, LoadGrows DEF far
      <4> QED
        BY <1>3, <2>1, <3>2, <4>2
    <3>3. CASE d # Idler /\ d = driver_flag[c]
      <4>1. c \in With(d) /\ With(d)' = With(d) \ {c}
        BY <1>1, <2>1, <3>3 DEF Take, With
      <4>2. Outstanding(d)' = Outstanding(d) - far
        BY <1>2, <4>1, LoadShrinks DEF far
      <4> QED
        BY <1>3, <2>1, <3>3, <4>2
    <3> QED
      BY <3>1, <3>2, <3>3
  <2> QED
    BY <1>1, <1>3, <2>1, <2>2, <2>3 DEF Accounted
<1> QED
  BY <1>5, <1>6, <1>7, <1>8 DEF Thread

(* What clients send changes no delivery that is under way.                *)
LEMMA TalkAccounts ==
  ASSUME DeliveryInv, NEW c \in Clients, Talk(c), NEW d, Accounted(d)
  PROVE  Accounted(d)'
<1> USE DEF Goto, orderVars
<1>1. ASSUME UNCHANGED <<driver_flag, delivery_time, phantom>>, With(d)' = With(d),
             \A b \in With(d) : shop_flag'[b] = shop_flag[b]
      PROVE  Accounted(d)'
  <2>1. Outstanding(d)' = Outstanding(d)
    BY <1>1, LoadStays DEF delivery_distance
  <2> QED
    BY <1>1, <2>1 DEF Accounted
<1>2. ASSUME UNCHANGED <<driver_flag, delivery_time, phantom>>,
             pc[c] \in {"away", "loop"},
             NEW to \in {"loop", "closed", "spinning", "assign"},
             pc' = [pc EXCEPT ![c] = to],
             \A b \in Clients \ {c} : shop_flag'[b] = shop_flag[b]
      PROVE  Accounted(d)'
  <2>1. c \notin With(d) /\ With(d) \subseteq Clients
    BY <1>2 DEF With
  <2>2. With(d)' = With(d)
    BY <1>2, <2>1 DEF With, DeliveryInv, TypeOK
  <2> QED
    BY <1>1, <1>2, <2>1, <2>2
<1>3. CASE Leave(c)
  BY <1>1, <1>3 DEF Leave, With
<1>4. CASE \/ Connect(c) \/ Cancel(c) \/ HangUp(c)
           \/ ConfirmNothing(c) \/ Confirm(c)
  BY <1>2, <1>4 DEF Connect, Cancel, HangUp, ConfirmNothing, Confirm
<1>5. ASSUME NEW dish \in Dishes, NEW n \in Quantities, Order(c, dish, n)
      PROVE  Accounted(d)'
  <2>1. \A b \in Clients \ {c} : shop_flag'[b] = shop_flag[b]
    BY <1>5 DEF Order, DeliveryInv, TypeOK
  <2> QED
    BY <1>2, <1>5, <2>1 DEF Order
<1>6. ASSUME NEW shop, OrderUnknown(c, shop)
      PROVE  Accounted(d)'
  <2>1. \A b \in Clients \ {c} : shop_flag'[b] = shop_flag[b]
    BY <1>6 DEF OrderUnknown, DeliveryInv, TypeOK
  <2> QED
    BY <1>2, <1>6, <2>1 DEF OrderUnknown
<1> QED
  BY <1>3, <1>4, <1>5, <1>6 DEF Talk

(* However the threads interleave, a driver is charged with exactly the    *)
(* deliveries that it has, and with those of line 93 that line 122 has     *)
(* given away once more.                                                   *)
THEOREM DeliveryLoadAccounted == Spec => []LoadAccounted
<1> DEFINE Loads == \A d \in Drivers : Accounted(d)
<1>1. Init => Loads
  <2> SUFFICES ASSUME Init, NEW d \in Drivers PROVE Accounted(d)
    OBVIOUS
  <2>1. With(d) = {}
    BY DEF Init, With
  <2>2. Outstanding(d) = 0
    BY <2>1, SumEmpty DEF Outstanding
  <2> QED
    BY <2>2 DEF Init, Accounted
<1>2. ASSUME DeliveryInv, Loads, [Next]_vars
      PROVE  Loads'
  <2> SUFFICES ASSUME NEW d \in Drivers PROVE Accounted(d)'
    OBVIOUS
  <2>1. CASE UNCHANGED vars
    <3>1. /\ With(d)' = With(d) /\ UNCHANGED <<delivery_time, phantom>>
          /\ \A c : delivery_distance(c)' = delivery_distance(c)
      BY <2>1 DEF vars, orderVars, With, delivery_distance
    <3>2. Outstanding(d)' = Outstanding(d)
      BY <1>2, <3>1, LoadStays
    <3> QED
      BY <1>2, <3>1, <3>2 DEF Accounted
  <2> QED
    BY <1>2, <2>1, TalkAccounts, ThreadAccounts DEF Next
<1>3. Loads => LoadAccounted
  BY DEF LoadAccounted, Accounted
<1> QED
  BY <1>1, <1>2, <1>3, DeliveryTypes, PTL DEF Spec, DeliveryInv
-----------------------------------------------------------------------------
(* Proofs about FoodOrder. *)
(* What the server adds up, and what this client has asked for.            *)
Counts ==
  /\ amounts \in [Menu -> Int] /\ asked \in [Menu -> Int]
  /\ current_shop \in Shops \cup {"unset"}
  /\ main_pc = "accept" => current_shop = "unset"

(* Until an order is confirmed nothing is left of the clients before, and  *)
(* only the cakes are in the wrong variable.                               *)
OwnOrder ==
  ~carried =>
    /\ main_pc = "accept" => amounts = Nothing /\ response = NoResponse
    /\ main_pc = "serving" =>
         /\ \A d \in Menu \ {"tea", "cake"} : amounts[d] = asked[d]
         /\ amounts["tea"] = asked["tea"] + asked["cake"] /\ amounts["cake"] = 0
         /\ Shown(amounts, current_shop) \in {NoResponse, response}
         /\ \A d \in DOMAIN response : Shop(d) = current_shop

(* What was asked for is of one shop. *)
AskedOfOne ==
  main_pc = "serving" =>
    \A d \in Menu : asked[d] # 0 => current_shop = Shop(d)

FoodInv == Counts /\ OwnOrder /\ AskedOfOne

(* Nothing is shown of no order, and of no shop.                           *)
LEMMA NothingShown ==
  \A order : /\ order = Nothing => \A shop : Shown(order, shop) = NoResponse
             /\ Shown(order, "unset") = NoResponse
<1> SUFFICES ASSUME NEW order, NEW shop, order = Nothing \/ shop = "unset"
             PROVE  Shown(order, shop) = NoResponse
  OBVIOUS
<1>1. {d \in Menu : Shop(d) = shop /\ order[d] > 0} = {}
  <2>1. \A d \in Menu : Shop(d) # "unset"
    BY ShopOfDish DEF Shops
  <2>2. order = Nothing => \A d \in Menu : order[d] = 0
    BY DEF Nothing
  <2> QED
    BY <2>1, <2>2
<1> QED
  BY <1>1 DEF Shown, NoResponse

LEMMA ShownOfShop ==
  \A order, shop : \A d \in DOMAIN Shown(order, shop) : Shop(d) = shop
  BY DEF Shown

LEMMA FoodStarts == FoodInit => FoodInv
<1> SUFFICES ASSUME FoodInit PROVE FoodInv
  OBVIOUS
<1>1. amounts = [d \in Menu |-> 0] /\ asked = [d \in Menu |-> 0]
  BY DEF FoodInit, Nothing
<1>2. main_pc = "accept" /\ current_shop = "unset" /\ response = NoResponse
      /\ amounts = Nothing
  BY DEF FoodInit
<1> QED
  BY <1>1, <1>2 DEF FoodInv, Counts, OwnOrder, AskedOfOne

(* An order adds to one variable, and is shown from there.                 *)
LEMMA FoodOrders ==
  ASSUME FoodInv, NEW dish \in Menu, NEW n \in Int, OrderDish(dish, n)
  PROVE  FoodInv'
<1> DEFINE counted == IF dish = "cake" THEN "tea" ELSE dish
<1>1. /\ main_pc = "serving" /\ main_pc' = "serving" /\ carried' = carried
      /\ current_shop \in {"unset", Shop(dish)} /\ current_shop' = Shop(dish)
      /\ amounts' = [amounts EXCEPT ![counted] = @ + n]
      /\ asked' = [asked EXCEPT ![dish] = @ + n]
      /\ response' = Written(amounts', Shop(dish))
  BY DEF OrderDish, Request, Counted
<1>2. amounts \in [Menu -> Int] /\ asked \in [Menu -> Int] /\ counted \in Menu
  BY DEF FoodInv, Counts, Menu
<1>3. Shop(dish) \in Shops
  BY ShopOfDish
<1>4. Counts'
  BY <1>1, <1>2, <1>3 DEF Counts
<1>5. ASSUME ~carried'
      PROVE  /\ Shown(amounts', current_shop') \in {NoResponse, response'}
             /\ \A d \in DOMAIN response' : Shop(d) = current_shop'
  <2>1. CASE Shown(amounts', Shop(dish)) # NoResponse
    <3>1. response' = Shown(amounts', Shop(dish))
      BY <1>1, <2>1 DEF Written
    <3> QED
      BY <1>1, <3>1, ShownOfShop
  <2>2. CASE Shown(amounts', Shop(dish)) = NoResponse
    <3>1. response' = response
      BY <1>1, <2>2 DEF Written
    <3>2. \A d \in DOMAIN response : Shop(d) = current_shop
      BY <1>1, <1>5 DEF FoodInv, OwnOrder
    <3>3. CASE current_shop = "unset"
      <4>1. \A d : Shop(d) # "unset"
        BY DEF Shop
      <4> QED
        BY <1>1, <2>2, <3>1, <3>2, <3>3, <4>1
    <3> QED
      BY <1>1, <2>2, <3>1, <3>2, <3>3
  <2> QED
    BY <2>1, <2>2
<1>6. ASSUME ~carried'
      PROVE  /\ \A d \in Menu \ {"tea", "cake"} : amounts'[d] = asked'[d]
             /\ amounts'["tea"] = asked'["tea"] + asked'["cake"]
             /\ amounts'["cake"] = 0
  <2>1. /\ \A d \in Menu \ {"tea", "cake"} : amounts[d] = asked[d]
        /\ amounts["tea"] = asked["tea"] + asked["cake"] /\ amounts["cake"] = 0
    BY <1>1, <1>6 DEF FoodInv, OwnOrder
  <2>2. {"tea", "cake"} \subseteq Menu
    BY DEF Menu
  <2> QED
    BY <1>1, <1>2, <2>1, <2>2
<1>7. OwnOrder'
  BY <1>1, <1>5, <1>6 DEF OwnOrder
<1>8. AskedOfOne'
  <2> SUFFICES ASSUME NEW d \in Menu, asked'[d] # 0
               PROVE  current_shop' = Shop(d)
    BY DEF AskedOfOne
  <2>1. asked[d] # 0 => current_shop = Shop(d) /\ Shop(d) # "unset"
    BY <1>1, ShopOfDish DEF FoodInv, AskedOfOne, Shops
  <2> QED
    BY <1>1, <1>2, <2>1
<1> QED
  BY <1>4, <1>7, <1>8 DEF FoodInv

LEMMA FoodStep ==
  ASSUME FoodInv, [FoodNext]_foodVars
  PROVE  FoodInv'
<1> USE MenuAssumption DEF FoodInv, Counts, OwnOrder, AskedOfOne
<1>1. CASE AcceptClient
  <2>1. asked' = [d \in Menu |-> 0]
        /\ UNCHANGED <<current_shop, amounts, response, carried>>
        /\ main_pc' = "serving" /\ current_shop = "unset"
    BY <1>1 DEF AcceptClient, Nothing
  <2>2. Counts' /\ AskedOfOne'
    BY <2>1
  <2>3. ASSUME ~carried
        PROVE  amounts = Nothing /\ response = NoResponse
    BY <1>1, <2>3 DEF AcceptClient
  <2>4. OwnOrder'
    <3>1. ~carried => /\ Shown(amounts, "unset") = NoResponse
                      /\ DOMAIN response = {}
      BY <2>3, NothingShown DEF NoResponse
    <3>2. ~carried => amounts = [d \in Menu |-> 0]
      BY <2>3 DEF Nothing
    <3>3. {"tea", "cake"} \subseteq Menu
      BY DEF Menu
    <3> QED
      BY <2>1, <3>1, <3>2, <3>3
  <2> QED
    BY <2>2, <2>4
<1>2. ASSUME NEW dish \in Dishes, NEW n \in Quantities, OrderDish(dish, n)
      PROVE  FoodInv'
  BY <1>2, FoodOrders
<1>3. ASSUME NEW dish \in Dishes, OrderElsewhere(dish)
      PROVE  FoodInv'
  <2>1. /\ UNCHANGED <<main_pc, current_shop, amounts, asked, carried>>
        /\ main_pc = "serving"
        /\ response' = Written(amounts, current_shop)
    BY <1>3 DEF OrderElsewhere, Request
  <2>2. ~carried => response' = response
    BY <2>1 DEF Written
  <2> QED
    BY <2>1, <2>2
<1>4. CASE ConfirmOrder
  BY <1>4 DEF ConfirmOrder
<1>5. CASE CancelOrder
  <2>1. Nothing = [d \in Menu |-> 0]
    BY DEF Nothing
  <2> QED
    BY <1>5, <2>1 DEF CancelOrder
<1>6. CASE ClientHangsUp
  BY <1>6 DEF ClientHangsUp
<1>7. CASE ConfirmNoShop \/ UNCHANGED foodVars
  BY <1>7 DEF ConfirmNoShop, foodVars
<1> QED
  BY <1>1, <1>2, <1>3, <1>4, <1>5, <1>6, <1>7 DEF FoodNext

(* Until an order is confirmed the variables are what was asked for.       *)
LEMMA NothingLost ==
  ASSUME FoodInv, main_pc = "serving", ~carried, asked["cake"] = 0
  PROVE  amounts = asked
<1>1. amounts \in [Menu -> Int] /\ asked \in [Menu -> Int]
  BY DEF FoodInv, Counts
<1>2. \A d \in Menu : amounts[d] = asked[d]
  <2>1. "tea" \in Menu
    BY DEF Menu
  <2> QED
    BY <1>1, <2>1 DEF FoodInv, OwnOrder
<1> QED
  BY <1>1, <1>2

(* Until an order is confirmed every client of hw2 sees what it has asked  *)
(* for, in whatever amounts, whoever was there before and cancelled.       *)
THEOREM FoodOrderAsAsked == FoodSpec => []OrderAsAsked
<1>1. FoodInv /\ [FoodNext]_foodVars => FoodInv'
  BY FoodStep
<1>2. FoodInv => OrderAsAsked
  BY NothingLost DEF OrderAsAsked, FoodInv, OwnOrder
<1> QED
  BY <1>1, <1>2, FoodStarts, PTL DEF FoodSpec

(* The bill of an order, against the price of what was asked for.          *)
LEMMA BillIsPrice ==
  ASSUME FoodInv, ConfirmOrder, ~carried, asked["cake"] = 0
  PROVE  charged' = Sum(Value(asked), Menu)
<1> DEFINE D == {d \in Menu : Shop(d) = current_shop}
           a == Value(asked)
<1>1. asked \in [Menu -> Int] /\ amounts = asked
  BY NothingLost DEF ConfirmOrder, FoodInv, Counts
<1>2. charged' = Sum(a, D)
  BY <1>1 DEF ConfirmOrder, OrderCost
<1>3. \A d \in Menu : a[d] \in Int
  BY <1>1, ValueType
<1>4. \A d \in Menu \ D : a[d] = 0
  <2> SUFFICES ASSUME NEW d \in Menu \ D PROVE a[d] = 0
    OBVIOUS
  <2>1. asked[d] = 0
    BY DEF ConfirmOrder, FoodInv, AskedOfOne
  <2>2. Price(d) \in Nat
    BY DEF Price, Menu
  <2> QED
    BY <1>1, <2>1, <2>2, ValueType
<1>5. IsFiniteSet(D) /\ D \subseteq Menu
  BY MenuFinite, FS_Subset
<1> HIDE DEF a, D
<1>6. Sum(a, Menu) = Sum(a, D)
  BY <1>3, <1>4, <1>5, MenuFinite, SumOfPart
<1> QED
  BY <1>2, <1>6 DEF a

(* Whoever orders after a "cancel", or first, pays for exactly what it has *)
(* ordered.                                                                *)
THEOREM FoodBillAsAsked == FoodSpec => BillAsAsked
<1>1. FoodInv /\ [FoodNext]_foodVars => FoodInv'
  BY FoodStep
<1>2. FoodInv => [ConfirmOrder /\ ~carried /\ asked["cake"] = 0 =>
                   charged' = Sum(Value(asked), Menu)]_foodVars
  BY BillIsPrice
<1> QED
  BY <1>1, <1>2, FoodStarts, PTL DEF FoodSpec, BillAsAsked
=============================================================================
