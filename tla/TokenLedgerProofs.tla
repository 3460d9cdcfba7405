-------------------------- MODULE TokenLedgerProofs --------------------------
(***************************************************************************)
(* Theorems about TokenLedger, for every finite set of operations, any     *)
(* number of requests in flight, every budget, price and term.             *)
(*                                                                         *)
(* The invariant joins the types, that an open row holds tokens, the       *)
(* budgets, the answers and the books.  WithinBudget needs that settling   *)
(* gives back no less than it charges, because a part of a cost is at most *)
(* the cost (ShareOfCost); the books need that a cost is open exactly      *)
(* while its row is, that nothing is drawn on a trial before there is one, *)
(* and that one request at most starts it, because its commit opens the    *)
(* account anew.  The refinement of TokenBudget needs the books: a row     *)
(* that is settled is part of what is held.                                *)
(***************************************************************************)
EXTENDS TokenLedger, FiniteSetTheorems, TLAPS

\* A reservation holds a positive number of tokens, and so does one whose cost is open.
RowsHaveTokens ==
  \A o \in Operations :
    reservation[o].state # "NONE" \/ costRow[o] = "RESERVED" => reservation[o].tokens > 0

USE DEF entitlementVars, reservationVars, requestVars, lockVars

-----------------------------------------------------------------------------
(* Sums over finite sets.  What a fold computes is a matter of induction; the  *)
(* induction used is that a set of subsets of a finite set has a minimal one.  *)

\* The element a fold takes out of a set first.
Pick(S) == CHOOSE x \in S : TRUE

\* g is the running sum of f over the subsets of D.
Summing(g, f, D) ==
  /\ DOMAIN g = SUBSET D
  /\ \A S \in SUBSET D :
       g[S] = IF S = {} THEN 0 ELSE f[Pick(S)] + g[S \ {Pick(S)}]

\* Of some subsets of a finite set, one contains no other.
LEMMA MinimalSet ==
  ASSUME NEW D, IsFiniteSet(D), NEW B \in SUBSET SUBSET D, B # {}
  PROVE  \E S \in B : \A T \in B : T \subseteq S => T = S
<1>1. IsWellFoundedOn(StrictSubsetOrdering(D), SUBSET D)
  BY FS_StrictSubsetOrderingWellFounded, FS_FiniteSubsetsOfFinite
<1>2. PICK S \in B : \A T \in B : <<T, S>> \notin StrictSubsetOrdering(D)
  BY <1>1, WFMin
<1>3. ASSUME NEW T \in B, T \subseteq S PROVE T = S
  BY <1>2, <1>3 DEF StrictSubsetOrdering
<1> QED BY <1>3

\* Sums over two sets agree on what is a subset of both.
LEMMA SumUnique ==
  ASSUME NEW D, IsFiniteSet(D), NEW f, NEW g, NEW E, NEW h,
         Summing(g, f, D), Summing(h, f, E)
  PROVE  \A S \in (SUBSET D) \cap SUBSET E : g[S] = h[S]
<1> DEFINE Bad == {S \in (SUBSET D) \cap SUBSET E : g[S] # h[S]}
<1>1. SUFFICES ASSUME Bad # {} PROVE FALSE
  OBVIOUS
<1>2. PICK S \in Bad : \A T \in Bad : T \subseteq S => T = S
  <2>1. Bad \in SUBSET SUBSET D
    OBVIOUS
  <2> HIDE DEF Bad
  <2> QED BY <1>1, <2>1, MinimalSet
<1>3. S \in SUBSET D /\ S \in SUBSET E /\ g[S] # h[S]
  BY <1>2
<1>4. S # {}
  BY <1>3 DEF Summing
<1>5. Pick(S) \in S
  BY <1>4 DEF Pick
<1> DEFINE R == S \ {Pick(S)}
<1>6. g[R] = h[R]
  <2>1. R \subseteq S /\ R # S /\ R \in (SUBSET D) \cap SUBSET E
    BY <1>3, <1>5
  <2>2. R \notin Bad
    BY <1>2, <2>1
  <2> QED BY <2>1, <2>2
<1>7. g[S] = f[Pick(S)] + g[R] /\ h[S] = f[Pick(S)] + h[R]
  BY <1>3, <1>4 DEF Summing
<1> QED BY <1>3, <1>6, <1>7

\* A running sum exists.
LEMMA SumExists ==
  ASSUME NEW D, IsFiniteSet(D), NEW f \in [D -> Int]
  PROVE  \E g \in [SUBSET D -> Int] : Summing(g, f, D)
<1> DEFINE Good(S) == \E g \in [SUBSET S -> Int] : Summing(g, f, S)
           Bad == {S \in SUBSET D : ~Good(S)}
<1>1. SUFFICES ASSUME Bad # {} PROVE FALSE
  OBVIOUS
<1>2. PICK S \in Bad : \A T \in Bad : T \subseteq S => T = S
  <2>1. Bad \in SUBSET SUBSET D
    OBVIOUS
  <2> HIDE DEF Bad
  <2> QED BY <1>1, <2>1, MinimalSet
<1>3. S \in SUBSET D /\ ~Good(S)
  BY <1>2
<1> DEFINE of(T) == CHOOSE g \in [SUBSET T -> Int] : Summing(g, f, T)
<1>4. ASSUME NEW T \in SUBSET S, T # S
      PROVE  of(T) \in [SUBSET T -> Int] /\ Summing(of(T), f, T)
  <2>1. Good(T)
    <3>1. T \in SUBSET D /\ T \notin Bad
      BY <1>2, <1>3, <1>4
    <3> QED BY <3>1
  <2> QED BY <2>1
<1> DEFINE total == IF S = {} THEN 0 ELSE f[Pick(S)] + of(S \ {Pick(S)})[S \ {Pick(S)}]
           g == [T \in SUBSET S |-> IF T = S THEN total ELSE of(T)[T]]
<1>5. ASSUME S # {}
      PROVE  /\ Pick(S) \in S /\ f[Pick(S)] \in Int
             /\ S \ {Pick(S)} \in SUBSET S /\ S \ {Pick(S)} # S
  BY <1>3, <1>5 DEF Pick
<1>6. total \in Int
  <2>1. CASE S = {}
    BY <2>1
  <2>2. CASE S # {}
    <3>1. of(S \ {Pick(S)})[S \ {Pick(S)}] \in Int
      BY <2>2, <1>5, <1>4
    <3> QED BY <3>1, <1>5, <2>2
  <2> QED BY <2>1, <2>2
<1>7. \A T \in SUBSET S : T # S => of(T)[T] \in Int
  BY <1>4
<1>8. g \in [SUBSET S -> Int]
  BY <1>6, <1>7
<1>9. ASSUME NEW T \in SUBSET S
      PROVE  g[T] = IF T = {} THEN 0 ELSE f[Pick(T)] + g[T \ {Pick(T)}]
  <2> DEFINE R == T \ {Pick(T)}
  <2>1. T # {} => R \in SUBSET S /\ R # S /\ R \in SUBSET T /\ R \in SUBSET R
    BY DEF Pick
  <2>2. T # {} => g[R] = of(R)[R]
    BY <2>1
  <2>3. CASE T = S
    BY <2>2, <2>3
  <2>4. CASE T # S
    <3>1. g[T] = of(T)[T] /\ Summing(of(T), f, T)
      BY <2>4, <1>4
    <3>2. CASE T = {}
      BY <3>1, <3>2 DEF Summing
    <3>3. CASE T # {}
      <4>1. Summing(of(R), f, R)
        BY <3>3, <2>1, <1>4
      <4>2. IsFiniteSet(T)
        BY <1>3, FS_Subset
      <4> HIDE DEF of, R, g
      <4>3. of(T)[R] = of(R)[R]
        BY <3>1, <4>1, <4>2, <2>1, <3>3, SumUnique
      <4>4. of(T)[T] = f[Pick(T)] + of(T)[R]
        BY <3>1, <3>3 DEF Summing, R
      <4> QED BY <3>1, <3>3, <4>3, <4>4, <2>2 DEF R
    <3> QED BY <3>2, <3>3
  <2> QED BY <2>3, <2>4
<1>10. Summing(g, f, S)
  <2>1. DOMAIN g = SUBSET S
    OBVIOUS
  <2> HIDE DEF g
  <2> QED BY <2>1, <1>9 DEF Summing
<1> QED BY <1>3, <1>8, <1>10

\* SumFunctionOnSet computes the running sum.
LEMMA SumIsRunning ==
  ASSUME NEW D, IsFiniteSet(D), NEW f, NEW g, Summing(g, f, D), NEW S \in SUBSET D
  PROVE  SumFunctionOnSet(f, S) = g[S]
<1> DEFINE Body(h) == [T \in SUBSET S |->
             IF T = {} THEN 0 ELSE f[CHOOSE x \in T : TRUE] + h[T \ {CHOOSE x \in T : TRUE}]]
           iter == CHOOSE h : h = Body(h)
           h0 == [T \in SUBSET S |-> g[T]]
<1>1. h0 = Body(h0)
  <2>1. ASSUME NEW T \in SUBSET S PROVE h0[T] = Body(h0)[T]
    <3>1. T \in SUBSET D /\ T \ {Pick(T)} \in SUBSET S
      OBVIOUS
    <3>2. g[T] = IF T = {} THEN 0 ELSE f[Pick(T)] + g[T \ {Pick(T)}]
      BY <3>1 DEF Summing
    <3> QED BY <3>1, <3>2 DEF Pick
  <2> QED BY <2>1
<1>2. iter = Body(iter)
  <2> HIDE DEF Body
  <2> QED BY <1>1
<1>3. Summing(iter, f, S)
  <2> HIDE DEF iter
  <2> QED BY <1>2 DEF Summing, Pick
<1>4. iter[S] = g[S]
  <2>1. IsFiniteSet(S)
    BY FS_Subset
  <2> HIDE DEF iter
  <2> QED BY <1>3, <2>1, SumUnique
<1>5. SumFunctionOnSet(f, S) = iter[S]
  BY DEF SumFunctionOnSet, FoldFunctionOnSet, MapThenFoldSet
<1> QED BY <1>4, <1>5

\* A sum is a number, that of nothing is zero, and an element may be taken out of it.
LEMMA SumRemove ==
  ASSUME NEW D, IsFiniteSet(D), NEW f \in [D -> Int], NEW S \in SUBSET D
  PROVE  /\ SumFunctionOnSet(f, S) \in Int
         /\ SumFunctionOnSet(f, {}) = 0
         /\ \A x \in S : SumFunctionOnSet(f, S) = f[x] + SumFunctionOnSet(f, S \ {x})
<1>1. PICK g \in [SUBSET D -> Int] : Summing(g, f, D)
  BY SumExists
<1>2. \A T \in SUBSET D : SumFunctionOnSet(f, T) = g[T]
  BY <1>1, SumIsRunning
<1> DEFINE Bad == {T \in SUBSET D : \E x \in T : g[T] # f[x] + g[T \ {x}]}
<1>3. ASSUME Bad # {} PROVE FALSE
  <2>1. PICK T \in Bad : \A U \in Bad : U \subseteq T => U = T
    <3>1. Bad \in SUBSET SUBSET D
      OBVIOUS
    <3> HIDE DEF Bad
    <3> QED BY <1>3, <3>1, MinimalSet
  <2>2. PICK x \in T : g[T] # f[x] + g[T \ {x}]
    BY <2>1
  <2> DEFINE c == Pick(T)
  <2>3. T \in SUBSET D /\ c \in T
    BY <2>1, <2>2 DEF Pick
  <2>4. g[T] = f[c] + g[T \ {c}]
    BY <1>1, <2>3 DEF Summing
  <2>5. c # x
    BY <2>2, <2>4
  <2> HIDE DEF c
  <2>6. T \ {c} \notin Bad /\ T \ {x} \notin Bad
    BY <2>1, <2>2, <2>3
  <2>7. g[T \ {c}] = f[x] + g[(T \ {c}) \ {x}]
    BY <2>6, <2>5, <2>3
  <2>8. g[T \ {x}] = f[c] + g[(T \ {x}) \ {c}]
    BY <2>6, <2>5, <2>3
  <2>9. (T \ {x}) \ {c} = (T \ {c}) \ {x}
    OBVIOUS
  <2> DEFINE rest == g[(T \ {c}) \ {x}]
  <2>10. rest \in Int /\ f[c] \in Int /\ f[x] \in Int
    BY <2>3
  <2>11. g[T \ {c}] = f[x] + rest /\ g[T \ {x}] = f[c] + rest
    BY <2>7, <2>8, <2>9
  <2> HIDE DEF rest
  <2>12. f[c] + (f[x] + rest) = f[x] + (f[c] + rest)
    BY <2>10
  <2> QED BY <2>2, <2>4, <2>11, <2>12
<1>4. \A x \in S : g[S] = f[x] + g[S \ {x}]
  BY <1>3
<1>5. g[{}] = 0
  BY <1>1 DEF Summing
<1> QED BY <1>2, <1>4, <1>5

\* An element is added to a sum.
LEMMA SumAdd ==
  ASSUME NEW D, IsFiniteSet(D), NEW f \in [D -> Int], NEW S \in SUBSET D,
         NEW x \in D, x \notin S
  PROVE  SumFunctionOnSet(f, S \cup {x}) = f[x] + SumFunctionOnSet(f, S)
<1>1. S \cup {x} \in SUBSET D /\ (S \cup {x}) \ {x} = S
  OBVIOUS
<1> QED BY <1>1, SumRemove

\* Functions that agree on a set have the same sum over it.
LEMMA SumSame ==
  ASSUME NEW D, IsFiniteSet(D), NEW f \in [D -> Int], NEW h \in [D -> Int],
         NEW S \in SUBSET D, \A x \in S : f[x] = h[x]
  PROVE  SumFunctionOnSet(f, S) = SumFunctionOnSet(h, S)
<1>1. PICK g \in [SUBSET D -> Int] : Summing(g, f, D)
  BY SumExists
<1> DEFINE gS == [T \in SUBSET S |-> g[T]]
<1>2. Summing(gS, h, S)
  <2>1. ASSUME NEW T \in SUBSET S
        PROVE  gS[T] = IF T = {} THEN 0 ELSE h[Pick(T)] + gS[T \ {Pick(T)}]
    <3>1. T # {} => Pick(T) \in T
      BY DEF Pick
    <3>2. T \in SUBSET D /\ T \ {Pick(T)} \in SUBSET S
      OBVIOUS
    <3>3. g[T] = IF T = {} THEN 0 ELSE f[Pick(T)] + g[T \ {Pick(T)}]
      BY <1>1, <3>2 DEF Summing
    <3> QED BY <3>1, <3>2, <3>3
  <2> HIDE DEF gS
  <2>2. DOMAIN gS = SUBSET S
    BY DEF gS
  <2> QED BY <2>1, <2>2 DEF Summing
<1>3. IsFiniteSet(S)
  BY FS_Subset
<1>4. SumFunctionOnSet(h, S) = gS[S]
  <2> HIDE DEF gS
  <2> QED BY <1>2, <1>3, SumIsRunning
<1>5. SumFunctionOnSet(f, S) = g[S]
  BY <1>1, SumIsRunning
<1> QED BY <1>4, <1>5

\* The sum of natural numbers is one, and its parts add up to it.
LEMMA SumParts ==
  ASSUME NEW D, IsFiniteSet(D), NEW f \in [D -> Nat], NEW S \in SUBSET D
  PROVE  /\ SumFunctionOnSet(f, S) \in Nat
         /\ \A T \in SUBSET S :
              SumFunctionOnSet(f, S) = SumFunctionOnSet(f, T) + SumFunctionOnSet(f, S \ T)
<1>0. f \in [D -> Int]
  OBVIOUS
<1> DEFINE Good(T) ==
             /\ SumFunctionOnSet(f, T) \in Nat
             /\ \A U \in SUBSET T :
                  SumFunctionOnSet(f, T) = SumFunctionOnSet(f, U) + SumFunctionOnSet(f, T \ U)
           Bad == {T \in SUBSET D : ~Good(T)}
<1>1. SUFFICES ASSUME Bad # {} PROVE FALSE
  OBVIOUS
<1>2. PICK T \in Bad : \A U \in Bad : U \subseteq T => U = T
  <2>1. Bad \in SUBSET SUBSET D
    OBVIOUS
  <2> HIDE DEF Bad
  <2> QED BY <1>1, <2>1, MinimalSet
<1>3. T \in SUBSET D /\ ~Good(T)
  BY <1>2
<1>4. T # {}
  <2>1. ASSUME T = {} PROVE Good(T)
    <3>1. SumFunctionOnSet(f, T) = 0
      BY <1>0, <2>1, SumRemove
    <3>2. ASSUME NEW U \in SUBSET T
          PROVE  SumFunctionOnSet(f, T) = SumFunctionOnSet(f, U) + SumFunctionOnSet(f, T \ U)
      <4>1. U = T /\ T \ U = T
        BY <2>1
      <4>2. 0 = 0 + 0
        OBVIOUS
      <4> QED BY <4>1, <4>2, <3>1, Zenon
    <3> QED BY <3>1, <3>2
  <2> QED BY <2>1, <1>3
<1>5. PICK x \in T : TRUE
  BY <1>4
<1>6. Good(T \ {x})
  BY <1>2, <1>3
<1>7. SumFunctionOnSet(f, T) = f[x] + SumFunctionOnSet(f, T \ {x})
  BY <1>0, <1>3, SumRemove
<1>8. f[x] \in Nat /\ f[x] \in Int
  BY <1>3
<1>9. ASSUME NEW U \in SUBSET T
      PROVE  SumFunctionOnSet(f, T) = SumFunctionOnSet(f, U) + SumFunctionOnSet(f, T \ U)
  <2>0. /\ SumFunctionOnSet(f, U) \in Int /\ SumFunctionOnSet(f, T \ U) \in Int
        /\ U \in SUBSET D /\ T \ U \in SUBSET D
    BY <1>0, <1>3, SumRemove
  <2>1. CASE x \in U
    <3>1. SumFunctionOnSet(f, U) = f[x] + SumFunctionOnSet(f, U \ {x})
      BY <1>0, <2>0, <2>1, SumRemove
    <3>2. U \ {x} \in SUBSET (T \ {x}) /\ (T \ {x}) \ (U \ {x}) = T \ U
      BY <2>1
    <3>3. SumFunctionOnSet(f, T \ {x})
            = SumFunctionOnSet(f, U \ {x}) + SumFunctionOnSet(f, T \ U)
      BY <1>6, <3>2
    <3>4. SumFunctionOnSet(f, U \ {x}) \in Int
      <4>1. U \ {x} \in SUBSET D
        BY <2>0
      <4> QED BY <4>1, <1>0, SumRemove
    <3> DEFINE whole == SumFunctionOnSet(f, T)
               without == SumFunctionOnSet(f, T \ {x})
               left == SumFunctionOnSet(f, U)
               leftWithout == SumFunctionOnSet(f, U \ {x})
               right == SumFunctionOnSet(f, T \ U)
    <3>5. /\ whole = f[x] + without /\ left = f[x] + leftWithout
          /\ without = leftWithout + right
          /\ leftWithout \in Int /\ right \in Int /\ f[x] \in Int
      BY <1>7, <1>8, <3>1, <3>3, <3>4, <2>0, Zenon
    <3> HIDE DEF whole, without, left, leftWithout, right
    <3>6. whole = left + right
      BY <3>5
    <3> QED BY <3>6 DEF whole, left, right
  <2>2. CASE x \notin U
    <3>1. SumFunctionOnSet(f, T \ U) = f[x] + SumFunctionOnSet(f, (T \ U) \ {x})
      <4>1. x \in T \ U
        BY <2>2
      <4> QED BY <1>0, <2>0, <4>1, SumRemove
    <3>2. U \in SUBSET (T \ {x}) /\ (T \ {x}) \ U = (T \ U) \ {x}
      BY <2>2
    <3>3. SumFunctionOnSet(f, T \ {x})
            = SumFunctionOnSet(f, U) + SumFunctionOnSet(f, (T \ U) \ {x})
      BY <1>6, <3>2
    <3>4. SumFunctionOnSet(f, (T \ U) \ {x}) \in Int
      <4>1. (T \ U) \ {x} \in SUBSET D
        BY <2>0
      <4> QED BY <4>1, <1>0, SumRemove
    <3> DEFINE whole == SumFunctionOnSet(f, T)
               without == SumFunctionOnSet(f, T \ {x})
               left == SumFunctionOnSet(f, U)
               right == SumFunctionOnSet(f, T \ U)
               rightWithout == SumFunctionOnSet(f, (T \ U) \ {x})
    <3>5. /\ whole = f[x] + without /\ right = f[x] + rightWithout
          /\ without = left + rightWithout
          /\ rightWithout \in Int /\ left \in Int /\ f[x] \in Int
      BY <1>7, <1>8, <3>1, <3>3, <3>4, <2>0, Zenon
    <3> HIDE DEF whole, without, left, right, rightWithout
    <3>6. whole = left + right
      BY <3>5
    <3> QED BY <3>6 DEF whole, left, right
  <2> QED BY <2>1, <2>2
<1>10. SumFunctionOnSet(f, T) \in Nat
  BY <1>6, <1>7, <1>8
<1> QED BY <1>3, <1>9, <1>10

-----------------------------------------------------------------------------
(* Arithmetic and types *)

\* What is charged for some of the tokens of a reservation, in whole microunits, is
\* no more than what was held for all of them.
LEMMA ShareOfCost ==
  ASSUME NEW cost \in Nat, NEW n \in Nat, n > 0, NEW used \in 0..n
  PROVE  /\ (cost * used) \div n \in Nat
         /\ (cost * used) \div n <= cost
<1> DEFINE q == (cost * used) \div n
<1>1. cost * used \in Nat
  OBVIOUS
<1>2. cost * used <= cost * n
  OBVIOUS
<1>3. q \in Int /\ n * q <= cost * used /\ cost * used < n * (q + 1)
  BY <1>1
<1>4. q >= 0
  BY <1>1, <1>3
<1>5. q <= cost
  <2>1. SUFFICES ASSUME q >= cost + 1 PROVE FALSE
    BY <1>3
  <2>2. n * q >= n * (cost + 1)
    BY <2>1, <1>3
  <2> QED BY <2>2, <1>2, <1>3
<1> QED BY <1>3, <1>4, <1>5

\* The budgets, the price, the terms and the amounts are numbers; an amount is positive.
LEMMA ConstantTypes ==
  /\ TrialBudget \in Nat /\ GrantTokens \in Nat /\ GrantCost \in Nat
  /\ Rate \in Nat /\ TrialTerm \in Nat /\ TokenTTL \in Nat /\ MaxTime \in Nat
  /\ \A n \in Amounts : n \in Nat /\ n > 0
BY LedgerAssumption

\* A request that is under way has the fields of one.
LEMMA InFlight ==
  ASSUME TypeOK, NEW c \in Callers, call[c].pc # "idle"
  PROVE  /\ call[c] \in Request
         /\ call[c].op \in Operations /\ call[c].tokens \in Amounts
         /\ call[c].at \in 0..MaxTime
<1>1. call[c] \in {Idle} \cup Request
  BY DEF TypeOK
<1>2. call[c] # Idle
  BY DEF Idle
<1>3. call[c] \in Request
  BY <1>1, <1>2
<1> QED BY <1>3 DEF Request

\* Going on to the next transaction, or answering, keeps the requests well formed.
LEMMA CallTypes ==
  ASSUME TypeOK, NEW c \in Callers, call[c].pc # "idle",
         NEW pc \in {"start", "sweep", "lookup", "lock", "read"}
  PROVE  /\ GoOn(c, pc) => call' \in [Callers -> {Idle} \cup Request]
         /\ Answer(c) => call' \in [Callers -> {Idle} \cup Request]
<1>1. call[c] \in Request
  BY InFlight
<1>2. [call[c] EXCEPT !.pc = pc] \in Request
  BY <1>1 DEF Request
<1>3. call \in [Callers -> {Idle} \cup Request]
  BY DEF TypeOK
<1>4. ASSUME GoOn(c, pc) PROVE call' \in [Callers -> {Idle} \cup Request]
  BY <1>2, <1>3, <1>4 DEF GoOn
<1>5. ASSUME Answer(c) PROVE call' \in [Callers -> {Idle} \cup Request]
  BY <1>3, <1>5 DEF Answer
<1> QED BY <1>4, <1>5

\* The trigger leaves the workspace in one of its states.
LEMMA SyncedTypes ==
  ASSUME NEW w \in WorkspaceStates, NEW state \in {"ACTIVE", "READ_ONLY", "SUSPENDED", "CANCELLED"}
  PROVE  Synced(w, state) \in WorkspaceStates
BY DEF Synced, WorkspaceStates, BeingDeleted

\* Expiring a trial keeps the types of the entitlements and of the workspace.
LEMMA ExpireTypes ==
  ASSUME TypeOK, Expire
  PROVE  /\ entitlement' \in [Kinds -> EntitlementStates]
         /\ workspace' \in WorkspaceStates
<1>1. entitlement' \in [Kinds -> EntitlementStates]
  BY DEF Expire, TypeOK, Kinds, EntitlementStates
<1>2. workspace' \in WorkspaceStates
  BY SyncedTypes DEF Expire, TypeOK
<1> QED BY <1>1, <1>2

\* What the trigger's UPDATE makes of an account.
LEMMA AccountUpdate ==
  ASSUME NEW a \in [open : BOOLEAN, reserved : Int, consumed : Nat,
                    costReserved : Int, costConsumed : Nat],
         NEW n \in Nat, NEW used \in Nat, NEW cost \in Nat, NEW charge \in Nat,
         NEW b, b = [a EXCEPT !.reserved = @ - n, !.consumed = @ + used,
                       !.costReserved = @ - cost, !.costConsumed = @ + charge]
  PROVE  /\ b.reserved = a.reserved - n
         /\ b.consumed = a.consumed + used
         /\ b.costReserved = a.costReserved - cost
         /\ b.costConsumed = a.costConsumed + charge
         /\ b \in [open : BOOLEAN, reserved : Int, consumed : Nat,
                   costReserved : Int, costConsumed : Nat]
<1>1. /\ a.reserved - n \in Int /\ a.consumed + used \in Nat
      /\ a.costReserved - cost \in Int /\ a.costConsumed + charge \in Nat
  OBVIOUS
<1> QED BY <1>1, Zenon

\* Settling a row keeps the types of the row and of the account, and what the account
\* has reserved and consumed together does not grow, in tokens or in cost.
LEMMA SettleAccount ==
  ASSUME TypeOK, RowsHaveTokens, NEW o \in Operations,
         NEW state \in {"RECONCILED", "RELEASED"}, NEW used \in 0..reservation[o].tokens,
         Settle(o, state, used)
  PROVE  /\ reservation' \in [Operations -> [state : ReservationStates, kind : Kinds,
                                             tokens : Nat, actual : Nat]]
         /\ costRow' \in [Operations -> ReservationStates]
         /\ account' \in [open : BOOLEAN, reserved : Int, consumed : Nat,
                            costReserved : Int, costConsumed : Nat]
         /\ account'.reserved + account'.consumed <= account.reserved + account.consumed
         /\ account'.costReserved + account'.costConsumed
              <= account.costReserved + account.costConsumed
         /\ \A p \in Operations : reservation'[p].tokens = reservation[p].tokens
         /\ \A p \in Operations : costRow'[p] = "RESERVED" => costRow[p] = "RESERVED"
         /\ \A p \in Operations : reservation'[p].state = "NONE" => reservation[p].state = "NONE"
<1> DEFINE n == reservation[o].tokens
           cost == n * Rate
           charge == (cost * used) \div n
<1>1. /\ reservation \in [Operations -> [state : ReservationStates, kind : Kinds,
                                        tokens : Nat, actual : Nat]]
      /\ costRow \in [Operations -> ReservationStates]
      /\ account \in [open : BOOLEAN, reserved : Int, consumed : Nat,
                       costReserved : Int, costConsumed : Nat]
  BY DEF TypeOK
<1>2. n \in Nat /\ used \in Nat /\ used <= n /\ cost \in Nat
  BY <1>1, ConstantTypes
<1>3. state \in ReservationStates
  BY DEF ReservationStates
<1>4. reservation' = [reservation EXCEPT ![o].state = state, ![o].actual = used]
  BY DEF Settle
<1>5. /\ reservation' \in [Operations -> [state : ReservationStates, kind : Kinds,
                                        tokens : Nat, actual : Nat]]
      /\ \A p \in Operations : reservation'[p].tokens = reservation[p].tokens
      /\ \A p \in Operations : reservation'[p].state = "NONE" => reservation[p].state = "NONE"
  BY <1>1, <1>2, <1>3, <1>4
<1>6. CASE CostOpen(o)
  <2>1. n > 0
    BY <1>6, <1>1 DEF CostOpen, RowsHaveTokens
  <2>2. charge \in Nat /\ charge <= cost
    BY <1>2, <2>1, ShareOfCost
  <2>3. /\ costRow' = [costRow EXCEPT ![o] = state]
        /\ account' = [account EXCEPT !.reserved = @ - n, !.consumed = @ + used,
                          !.costReserved = @ - cost, !.costConsumed = @ + charge]
    BY <1>6 DEF Settle
  <2> HIDE DEF charge, cost, n
  <2>4. account \in [open : BOOLEAN, reserved : Int, consumed : Nat,
                       costReserved : Int, costConsumed : Nat]
    BY <1>1
  <2>5. /\ account'.reserved = account.reserved - n
        /\ account'.consumed = account.consumed + used
        /\ account'.costReserved = account.costReserved - cost
        /\ account'.costConsumed = account.costConsumed + charge
        /\ account' \in [open : BOOLEAN, reserved : Int, consumed : Nat,
                          costReserved : Int, costConsumed : Nat]
    BY <2>3, <2>4, AccountUpdate, <2>2, <1>2, Zenon
  <2>6. /\ account'.reserved + account'.consumed <= account.reserved + account.consumed
        /\ account'.costReserved + account'.costConsumed
             <= account.costReserved + account.costConsumed
    BY <2>5, <2>2, <1>1, <1>2
  <2>7. /\ costRow' \in [Operations -> ReservationStates]
        /\ \A p \in Operations : costRow'[p] = "RESERVED" => costRow[p] = "RESERVED"
    BY <2>3, <1>1, <1>3
  <2> QED BY <1>5, <2>5, <2>6, <2>7
<1>7. CASE ~CostOpen(o)
  <2>1. costRow' = costRow /\ account' = account
    BY <1>7 DEF Settle
  <2> QED BY <2>1, <1>1, <1>5
<1> QED BY <1>6, <1>7

\* A reservation is drawn: the new row, and the counters grown by its tokens.
LEMMA DrawTypes ==
  ASSUME TypeOK, NEW c \in Callers, call[c].pc # "idle", NEW k \in Kinds,
         NEW o \in Operations, NEW n \in Amounts, Draw(c, k, o, n)
  PROVE  /\ reservation' \in [Operations -> [state : ReservationStates, kind : Kinds,
                                             tokens : Nat, actual : Nat]]
         /\ reserved' \in [Kinds -> Int]
         /\ costRow' \in [Operations -> ReservationStates]
         /\ account' \in [open : BOOLEAN, reserved : Int, consumed : Nat,
                            costReserved : Int, costConsumed : Nat]
         /\ call' \in [Callers -> {Idle} \cup Request]
<1>1. n \in Nat /\ n * Rate \in Nat
  BY ConstantTypes
<1>2. [state |-> "RESERVED", kind |-> k, tokens |-> n, actual |-> 0]
        \in [state : ReservationStates, kind : Kinds, tokens : Nat, actual : Nat]
  BY <1>1 DEF ReservationStates
<1>3. reservation' \in [Operations -> [state : ReservationStates, kind : Kinds,
                                             tokens : Nat, actual : Nat]]
  BY <1>2 DEF Draw, TypeOK
<1>4. reserved' \in [Kinds -> Int]
  BY <1>1 DEF Draw, TypeOK
<1>5. /\ costRow' \in [Operations -> ReservationStates]
      /\ account' \in [open : BOOLEAN, reserved : Int, consumed : Nat,
                        costReserved : Int, costConsumed : Nat]
  <2>1. CASE k = "TRIAL"
    <3>1. costRow' = [costRow EXCEPT ![o] = "RESERVED"]
      BY <2>1 DEF Draw
    <3>2. account' = [account EXCEPT !.reserved = @ + n, !.costReserved = @ + n * Rate]
      BY <2>1 DEF Draw
    <3>3. costRow' \in [Operations -> ReservationStates]
      BY <3>1 DEF TypeOK, ReservationStates
    <3> DEFINE cost == n * Rate
    <3> HIDE DEF cost
    <3>4. account' = [account EXCEPT !.reserved = @ + n, !.costReserved = @ + cost]
      BY <3>2 DEF cost
    <3>5. cost \in Nat
      BY <1>1 DEF cost
    <3>6. account' \in [open : BOOLEAN, reserved : Int, consumed : Nat,
                        costReserved : Int, costConsumed : Nat]
      <4>1. account \in [open : BOOLEAN, reserved : Int, consumed : Nat,
                         costReserved : Int, costConsumed : Nat]
        BY DEF TypeOK
      <4>2. account.reserved + n \in Int /\ account.costReserved + cost \in Int
        BY <4>1, <3>5, <1>1
      <4> QED BY <3>4, <4>1, <4>2, Zenon
    <3> QED BY <3>3, <3>6
  <2>2. CASE k # "TRIAL"
    BY <2>2 DEF Draw, TypeOK
  <2> QED BY <2>1, <2>2
<1>6. call' \in [Callers -> {Idle} \cup Request]
  BY CallTypes DEF Draw
<1> QED BY <1>3, <1>4, <1>5, <1>6

\* Every action of the ledger keeps the types.
LEMMA TypeStep ==
  ASSUME TypeOK, RowsHaveTokens, [LedgerNext]_ledgerVars
  PROVE  TypeOK'
<1> USE ConstantTypes
<1>1. ASSUME NEW c \in Callers, NEW o \in Operations, NEW n \in Amounts,
             Authorize(c, o, n) \/ StartTrial(c, o, n)
      PROVE  TypeOK'
  <2>1. PICK p \in {"start", "sweep"} :
          call' = [call EXCEPT ![c] = [pc |-> p, op |-> o, tokens |-> n, at |-> now]]
    BY <1>1 DEF Authorize, StartTrial
  <2>2. [pc |-> p, op |-> o, tokens |-> n, at |-> now] \in Request
    BY DEF Request, TypeOK
  <2>3. call' \in [Callers -> {Idle} \cup Request]
    BY <2>1, <2>2 DEF TypeOK
  <2> QED BY <2>3, <1>1 DEF Authorize, StartTrial, TypeOK
<1>2. ASSUME NEW c \in Callers, CommitTrial(c) PROVE TypeOK'
  <2>1. call[c].pc # "idle"
    BY <1>2 DEF CommitTrial
  <2>2. call' \in [Callers -> {Idle} \cup Request]
    BY <1>2, <2>1, CallTypes DEF CommitTrial
  <2>3. trialEnds' \in Nat
    BY <1>2, <2>1, InFlight DEF CommitTrial
  <2>4. workspace' \in WorkspaceStates
    BY <1>2, SyncedTypes DEF CommitTrial, TypeOK
  <2>5. entitlement' \in [Kinds -> EntitlementStates]
    BY <1>2 DEF CommitTrial, TypeOK, EntitlementStates
  <2>6. account' \in [open : BOOLEAN, reserved : Int, consumed : Nat,
                       costReserved : Int, costConsumed : Nat]
    <3>1. account' = [NoAccount EXCEPT !.open = TRUE]
      BY <1>2 DEF CommitTrial
    <3>2. 0 \in Int /\ 0 \in Nat
      OBVIOUS
    <3> QED BY <3>1, <3>2, Zenon DEF NoAccount
  <2> QED BY <1>2, <2>2, <2>3, <2>4, <2>5, <2>6 DEF CommitTrial, TypeOK
<1>3. ASSUME NEW c \in Callers, Sweep(c) PROVE TypeOK'
  <2>1. call[c].pc # "idle"
    BY <1>3 DEF Sweep
  <2>2. CASE TrialDue(now)
    BY <1>3, <2>1, <2>2, ExpireTypes, CallTypes DEF Sweep, TypeOK
  <2>3. CASE ~TrialDue(now)
    <3>1. call' = [call EXCEPT ![c].pc = "lookup", ![c].at = now]
      BY <1>3, <2>3 DEF Sweep
    <3>2. [call[c] EXCEPT !.pc = "lookup", !.at = now] \in Request
      BY <2>1, InFlight DEF Request, TypeOK
    <3>3. call' \in [Callers -> {Idle} \cup Request]
      BY <3>1, <3>2 DEF TypeOK
    <3> QED BY <1>3, <2>3, <3>3 DEF Sweep, TypeOK
  <2> QED BY <2>2, <2>3
<1>4. ASSUME NEW c \in Callers, Lookup(c) PROVE TypeOK'
  <2>1. call[c].pc # "idle"
    BY <1>4 DEF Lookup
  <2>2. call' \in [Callers -> {Idle} \cup Request]
    BY <1>4, <2>1, CallTypes DEF Lookup, Replay
  <2> QED BY <1>4, <2>2 DEF Lookup, TypeOK
<1>5. ASSUME NEW c \in Callers, Reserve(c) PROVE TypeOK'
  <2>1. call[c].pc # "idle"
    BY <1>5 DEF Reserve
  <2>2. call[c].op \in Operations /\ call[c].tokens \in Amounts
    BY <2>1, InFlight
  <2>3. /\ reserved' \in [Kinds -> Int]
        /\ reservation' \in [Operations -> [state : ReservationStates, kind : Kinds,
                                            tokens : Nat, actual : Nat]]
        /\ costRow' \in [Operations -> ReservationStates]
        /\ account' \in [open : BOOLEAN, reserved : Int, consumed : Nat,
                          costReserved : Int, costConsumed : Nat]
        /\ call' \in [Callers -> {Idle} \cup Request]
    <3>1. CASE \E k \in Kinds : Draw(c, k, call[c].op, call[c].tokens)
      BY <2>1, <2>2, <3>1, DrawTypes
    <3>2. CASE UNCHANGED <<reserved, reservationVars>> /\ (Replay(c) \/ Answer(c))
      BY <2>1, <3>2, CallTypes DEF Replay, TypeOK
    <3> QED BY <1>5, <3>1, <3>2 DEF Reserve
  <2> QED BY <1>5, <2>3 DEF Reserve, TypeOK
<1>6. ASSUME NEW c \in Callers, Read(c) PROVE TypeOK'
  <2>1. call[c].pc # "idle"
    BY <1>6 DEF Read
  <2>2. call' \in [Callers -> {Idle} \cup Request]
    BY <1>6, <2>1, CallTypes DEF Read
  <2>3. entitlement' \in [Kinds -> EntitlementStates] /\ workspace' \in WorkspaceStates
    BY <1>6, ExpireTypes DEF Read, TypeOK
  <2>4. token' \in [Operations -> Nat]
    BY <1>6, <2>1, InFlight DEF Read, TypeOK
  <2> QED BY <1>6, <2>2, <2>3, <2>4 DEF Read, TypeOK
<1>7. ASSUME NEW o \in Operations,
             (\E actual \in 0..reservation[o].tokens : Reconcile(o, actual)) \/ Release(o)
      PROVE  TypeOK'
  <2>1. reservation[o].tokens \in Nat /\ reservation[o].kind \in Kinds
    BY DEF TypeOK
  <2>2. PICK used \in 0..reservation[o].tokens, state \in {"RECONCILED", "RELEASED"} :
          Settle(o, state, used) /\ Charge(reservation[o].kind, reservation[o].tokens, used)
    BY <1>7, <2>1 DEF Reconcile, Release
  <2>3. reserved' \in [Kinds -> Int] /\ consumed' \in [Kinds -> Nat]
    BY <2>1, <2>2 DEF Charge, TypeOK
  <2>4. /\ reservation' \in [Operations -> [state : ReservationStates, kind : Kinds,
                                            tokens : Nat, actual : Nat]]
        /\ costRow' \in [Operations -> ReservationStates]
        /\ account' \in [open : BOOLEAN, reserved : Int, consumed : Nat,
                          costReserved : Int, costConsumed : Nat]
    BY <2>2, SettleAccount
  <2> QED BY <1>7, <2>3, <2>4 DEF Reconcile, Release, TypeOK
<1>8. ASSUME ExpireTrial PROVE TypeOK'
  BY <1>8, ExpireTypes DEF ExpireTrial, TypeOK
<1>9. ASSUME ApproveStepUp PROVE TypeOK'
  BY <1>9 DEF ApproveStepUp, TypeOK
<1>10. ASSUME Tick PROVE TypeOK'
  BY <1>10 DEF Tick, TypeOK
<1>11. ASSUME UNCHANGED ledgerVars PROVE TypeOK'
  BY <1>11 DEF ledgerVars, TypeOK
<1> QED
  BY <1>1, <1>2, <1>3, <1>4, <1>5, <1>6, <1>7, <1>8, <1>9, <1>10, <1>11 DEF LedgerNext

-----------------------------------------------------------------------------
(* The rows and the budgets *)

\* The rows and the counters of the ledger and of the cost account.
booksVars == <<reserved, consumed, reservation, costRow, account>>

\* A step that changes the books draws a reservation that was checked, settles an open
\* one, or opens the account.
LEMMA BooksStep ==
  ASSUME TypeOK, [LedgerNext]_ledgerVars
  PROVE  \/ UNCHANGED booksVars
         \/ \E c \in Callers : CommitTrial(c)
         \/ \E c \in Callers, k \in Kinds :
              /\ call[c].pc = "lock"
              /\ reservation[call[c].op].state = "NONE"
              /\ entitlement[k] = "ACTIVE" /\ Admits(k, call[c].tokens, call[c].at)
              /\ Draw(c, k, call[c].op, call[c].tokens)
              /\ UNCHANGED <<consumed, tombstone>>
         \/ \E o \in Operations, state \in {"RECONCILED", "RELEASED"} :
            \E used \in 0..reservation[o].tokens :
              /\ o \notin locked /\ Open(o) /\ (state = "RELEASED" => used = 0)
              /\ Charge(reservation[o].kind, reservation[o].tokens, used)
              /\ Settle(o, state, used)
              /\ UNCHANGED <<call, tombstone>>
<1>1. CASE UNCHANGED ledgerVars
  BY <1>1 DEF ledgerVars, booksVars
<1>2. ASSUME NEW c \in Callers, NEW o \in Operations, NEW n \in Amounts,
             Authorize(c, o, n) \/ StartTrial(c, o, n)
      PROVE  UNCHANGED booksVars
  BY <1>2 DEF Authorize, StartTrial, booksVars
<1>3. ASSUME NEW c \in Callers, Sweep(c) \/ Lookup(c) \/ Read(c)
      PROVE  UNCHANGED booksVars
  BY <1>3 DEF Sweep, Lookup, Read, booksVars
<1>4. ASSUME NEW c \in Callers, Reserve(c)
      PROVE  \/ UNCHANGED booksVars
             \/ \E k \in Kinds :
                  /\ call[c].pc = "lock"
                  /\ reservation[call[c].op].state = "NONE"
                  /\ entitlement[k] = "ACTIVE" /\ Admits(k, call[c].tokens, call[c].at)
                  /\ Draw(c, k, call[c].op, call[c].tokens)
                  /\ UNCHANGED <<consumed, tombstone>>
  BY <1>4 DEF Reserve, booksVars
<1>5. ASSUME NEW o \in Operations, NEW actual \in 0..reservation[o].tokens,
             Reconcile(o, actual)
      PROVE  /\ o \notin locked /\ Open(o)
             /\ Charge(reservation[o].kind, reservation[o].tokens, actual)
             /\ Settle(o, "RECONCILED", actual)
             /\ UNCHANGED <<call, tombstone>>
  BY <1>5 DEF Reconcile
<1>6. ASSUME NEW o \in Operations, Release(o)
      PROVE  /\ 0 \in 0..reservation[o].tokens
             /\ o \notin locked /\ Open(o)
             /\ Charge(reservation[o].kind, reservation[o].tokens, 0)
             /\ Settle(o, "RELEASED", 0)
             /\ UNCHANGED <<call, tombstone>>
  BY <1>6 DEF Release, TypeOK
<1>7. ASSUME ExpireTrial \/ ApproveStepUp \/ Tick
      PROVE  UNCHANGED booksVars
  BY <1>7 DEF ExpireTrial, ApproveStepUp, Tick, booksVars
<1>8. CASE LedgerNext
  <2>1. CASE \E c \in Callers, o \in Operations, n \in Amounts :
               Authorize(c, o, n) \/ StartTrial(c, o, n)
    BY <2>1, <1>2
  <2>2. CASE \E c \in Callers : CommitTrial(c) \/ Sweep(c) \/ Lookup(c) \/ Reserve(c) \/ Read(c)
    BY <2>2, <1>3, <1>4
  <2>3. CASE \E o \in Operations : \E actual \in 0..reservation[o].tokens : Reconcile(o, actual)
    BY <2>3, <1>5
  <2>4. CASE \E o \in Operations : Release(o)
    BY <2>4, <1>6
  <2> QED BY <1>8, <2>1, <2>2, <2>3, <2>4, <1>7 DEF LedgerNext
<1> QED BY <1>1, <1>8

\* Every action keeps the rows' tokens positive.
LEMMA RowsStep ==
  ASSUME TypeOK, RowsHaveTokens, [LedgerNext]_ledgerVars
  PROVE  RowsHaveTokens'
<1>1. CASE UNCHANGED booksVars
  BY <1>1 DEF booksVars, RowsHaveTokens
<1>2. ASSUME NEW c \in Callers, CommitTrial(c) PROVE RowsHaveTokens'
  BY <1>2 DEF CommitTrial, RowsHaveTokens
<1>3. ASSUME NEW c \in Callers, NEW k \in Kinds, call[c].pc = "lock",
             Draw(c, k, call[c].op, call[c].tokens)
      PROVE  RowsHaveTokens'
  <2>1. call[c].op \in Operations /\ call[c].tokens \in Nat /\ call[c].tokens > 0
    BY <1>3, InFlight, ConstantTypes
  <2>2. reservation' = [reservation EXCEPT ![call[c].op] =
          [state |-> "RESERVED", kind |-> k, tokens |-> call[c].tokens, actual |-> 0]]
    BY <1>3 DEF Draw
  <2>3. costRow' = costRow \/ costRow' = [costRow EXCEPT ![call[c].op] = "RESERVED"]
    BY <1>3 DEF Draw
  <2>4. \A o \in Operations : costRow'[o] = costRow[o] \/ o = call[c].op
    BY <2>1, <2>3 DEF TypeOK
  <2>5. \A o \in Operations : reservation'[o] = reservation[o] \/ o = call[c].op
    BY <2>1, <2>2 DEF TypeOK
  <2>6. reservation'[call[c].op].tokens > 0
    BY <2>1, <2>2 DEF TypeOK
  <2> QED BY <2>4, <2>5, <2>6 DEF RowsHaveTokens
<1>4. ASSUME NEW o \in Operations, NEW state \in {"RECONCILED", "RELEASED"},
             NEW used \in 0..reservation[o].tokens, Settle(o, state, used), Open(o)
      PROVE  RowsHaveTokens'
  <2>1. /\ \A p \in Operations : reservation'[p].tokens = reservation[p].tokens
        /\ \A p \in Operations : costRow'[p] = "RESERVED" => costRow[p] = "RESERVED"
        /\ \A p \in Operations : reservation'[p].state # "NONE" => reservation[p].state # "NONE"
    BY <1>4, SettleAccount DEF Settle, TypeOK, Open
  <2> QED BY <2>1 DEF RowsHaveTokens
<1> QED BY <1>1, <1>2, <1>3, <1>4, BooksStep

\* Every action keeps the trial within its budgets: a draw was admitted under the
\* lock, and a settlement gives back at least what it charges.
LEMMA BudgetStep ==
  ASSUME TypeOK, RowsHaveTokens, WithinBudget, [LedgerNext]_ledgerVars
  PROVE  WithinBudget'
<1> USE ConstantTypes
<1>a. "TRIAL" \in Kinds
  BY DEF Kinds
<1>b. /\ reserved \in [Kinds -> Int] /\ consumed \in [Kinds -> Nat]
      /\ account \in [open : BOOLEAN, reserved : Int, consumed : Nat,
                       costReserved : Int, costConsumed : Nat]
  BY DEF TypeOK
<1>1. CASE UNCHANGED booksVars
  BY <1>1 DEF booksVars, WithinBudget
<1>2. ASSUME NEW c \in Callers, CommitTrial(c) PROVE WithinBudget'
  <2>1. /\ account'.reserved = 0 /\ account'.consumed = 0
        /\ account'.costReserved = 0 /\ account'.costConsumed = 0
        /\ reserved' = reserved /\ consumed' = consumed
    BY <1>2 DEF CommitTrial, NoAccount
  <2> QED BY <2>1 DEF WithinBudget
<1>3. ASSUME NEW c \in Callers, NEW k \in Kinds, call[c].pc = "lock",
             Admits(k, call[c].tokens, call[c].at),
             Draw(c, k, call[c].op, call[c].tokens), consumed' = consumed
      PROVE  WithinBudget'
  <2> DEFINE n == call[c].tokens
             cost == n * Rate
  <2>1. n \in Nat
    BY <1>3, InFlight
  <2>2. reserved' = [reserved EXCEPT ![k] = @ + n]
    BY <1>3 DEF Draw
  <2>3. CASE k = "TRIAL"
    <3>1. /\ reserved["TRIAL"] + consumed["TRIAL"] + n <= TrialBudget
          /\ account.reserved + account.consumed + n <= GrantTokens
          /\ account.costReserved + account.costConsumed + cost <= GrantCost
      BY <1>3, <2>3 DEF Admits, AccountAdmits
    <3>2. account' = [account EXCEPT !.reserved = @ + n, !.costReserved = @ + cost]
      BY <1>3, <2>3 DEF Draw
    <3>3. cost \in Nat
      BY <2>1
    <3> HIDE DEF n, cost
    <3>4. /\ account'.reserved = account.reserved + n
          /\ account'.costReserved = account.costReserved + cost
          /\ account'.consumed = account.consumed
          /\ account'.costConsumed = account.costConsumed
      BY <3>2, <1>b
    <3>5. reserved'["TRIAL"] = reserved["TRIAL"] + n
      BY <2>2, <2>3, <1>a, <1>b
    <3> QED BY <3>1, <3>3, <3>4, <3>5, <2>1, <1>a, <1>b, <1>3 DEF WithinBudget
  <2>4. CASE k # "TRIAL"
    <3>1. account' = account
      BY <1>3, <2>4 DEF Draw
    <3>2. reserved'["TRIAL"] = reserved["TRIAL"]
      BY <2>2, <2>4, <1>a, <1>b
    <3> QED BY <3>1, <3>2, <1>3 DEF WithinBudget
  <2> QED BY <2>3, <2>4
<1>4. ASSUME NEW o \in Operations, NEW state \in {"RECONCILED", "RELEASED"},
             NEW used \in 0..reservation[o].tokens,
             Charge(reservation[o].kind, reservation[o].tokens, used),
             Settle(o, state, used)
      PROVE  WithinBudget'
  <2>1. reservation[o].tokens \in Nat /\ reservation[o].kind \in Kinds
    BY DEF TypeOK
  <2>2. reserved'["TRIAL"] + consumed'["TRIAL"] <= reserved["TRIAL"] + consumed["TRIAL"]
    BY <1>4, <2>1, <1>a, <1>b DEF Charge
  <2>3. reserved' \in [Kinds -> Int] /\ consumed' \in [Kinds -> Nat]
    BY <1>4, <2>1, <1>b DEF Charge
  <2>4. /\ account' \in [open : BOOLEAN, reserved : Int, consumed : Nat,
                          costReserved : Int, costConsumed : Nat]
        /\ account'.reserved + account'.consumed <= account.reserved + account.consumed
        /\ account'.costReserved + account'.costConsumed
             <= account.costReserved + account.costConsumed
    BY <1>4, SettleAccount
  <2> QED BY <2>2, <2>3, <2>4, <1>a, <1>b DEF WithinBudget
<1> QED BY <1>1, <1>2, <1>3, <1>4, BooksStep

-----------------------------------------------------------------------------
(* Answers and settlements *)

\* A row that exists keeps its terms, and one that is settled does not change at all.
LEMMA RowsKeepTerms ==
  ASSUME TypeOK, RowsHaveTokens, [LedgerNext]_ledgerVars, NEW o \in Operations,
         reservation[o].state # "NONE"
  PROVE  /\ reservation'[o].state # "NONE"
         /\ reservation'[o].tokens = reservation[o].tokens
         /\ reservation[o].state # "RESERVED" => reservation'[o] = reservation[o]
<1> DEFINE Kept == /\ reservation'[o].state # "NONE"
                   /\ reservation'[o].tokens = reservation[o].tokens
                   /\ reservation[o].state # "RESERVED" => reservation'[o] = reservation[o]
<1>1. CASE UNCHANGED booksVars
  BY <1>1 DEF booksVars
<1>2. ASSUME NEW c \in Callers, CommitTrial(c) PROVE Kept
  BY <1>2 DEF CommitTrial
<1>3. ASSUME NEW c \in Callers, NEW k \in Kinds,
             reservation[call[c].op].state = "NONE",
             Draw(c, k, call[c].op, call[c].tokens)
      PROVE  Kept
  <2>1. reservation'[o] = reservation[o]
    BY <1>3 DEF Draw, TypeOK
  <2> QED BY <2>1
<1>4. ASSUME NEW p \in Operations, NEW state \in {"RECONCILED", "RELEASED"},
             NEW used \in 0..reservation[p].tokens, Open(p), Settle(p, state, used)
      PROVE  Kept
  <2>1. /\ reservation'[o].tokens = reservation[o].tokens
        /\ reservation'[o].state = "NONE" => reservation[o].state = "NONE"
    BY <1>4, SettleAccount
  <2>2. p # o => reservation'[o] = reservation[o]
    BY <1>4 DEF Settle, TypeOK
  <2>3. p = o => reservation[o].state = "RESERVED"
    BY <1>4 DEF Open
  <2> QED BY <2>1, <2>2, <2>3
<1> QED BY <1>1, <1>2, <1>3, <1>4, BooksStep

\* A request reaches its last transaction by a replay of the same terms, or with the
\* row it has just drawn; and no step gives a tombstone back.
LEMMA ReadStep ==
  ASSUME TypeOK, [LedgerNext]_ledgerVars, NEW c \in Callers, call'[c].pc = "read"
  PROVE  /\ tombstone' = tombstone
         /\ call'[c].op \in Operations
         /\ \/ call'[c] = call[c]
            \/ /\ call'[c].op = call[c].op /\ call'[c].tokens = call[c].tokens
               /\ \/ /\ reservation[call[c].op].state # "NONE"
                     /\ reservation[call[c].op].tokens = call[c].tokens
                  \/ /\ reservation'[call[c].op].state # "NONE"
                     /\ reservation'[call[c].op].tokens = call[c].tokens
<1> DEFINE op == call[c].op
           Goal == /\ tombstone' = tombstone
                   /\ \/ call'[c] = call[c]
                      \/ /\ call'[c].op = op /\ call'[c].tokens = call[c].tokens
                         /\ op \in Operations
                         /\ \/ /\ reservation[op].state # "NONE"
                               /\ reservation[op].tokens = call[c].tokens
                            \/ /\ reservation'[op].state # "NONE"
                               /\ reservation'[op].tokens = call[c].tokens
<1>0. call \in [Callers -> {Idle} \cup Request]
  BY DEF TypeOK
<1>1. ASSUME NEW d \in Callers, NEW o \in Operations, NEW n \in Amounts,
             Authorize(d, o, n) \/ StartTrial(d, o, n)
      PROVE  Goal
  <2>1. d # c
    BY <1>0, <1>1 DEF Authorize, StartTrial
  <2> QED BY <1>0, <1>1, <2>1 DEF Authorize, StartTrial
<1>2. ASSUME NEW d \in Callers, CommitTrial(d) PROVE Goal
  <2>1. d # c
    <3>1. ASSUME d = c PROVE FALSE
      <4>1. call[c] \in Request
        BY <1>2, <3>1, InFlight DEF CommitTrial
      <4>2. call'[c] = [call[c] EXCEPT !.pc = "sweep"]
        BY <1>0, <1>2, <3>1 DEF CommitTrial, GoOn
      <4> QED BY <4>1, <4>2 DEF Request
    <3> QED BY <3>1
  <2> QED BY <1>0, <1>2, <2>1 DEF CommitTrial, GoOn
<1>3. ASSUME NEW d \in Callers, Sweep(d) PROVE Goal
  <2>1. d # c
    <3>1. ASSUME d = c PROVE FALSE
      <4>1. call[c] \in Request
        BY <1>3, <3>1, InFlight DEF Sweep
      <4>2. \/ call'[c] = Idle
            \/ call'[c] = [call[c] EXCEPT !.pc = "lookup", !.at = now]
        BY <1>0, <1>3, <3>1 DEF Sweep, Answer
      <4>3. call'[c] # Idle
        BY DEF Idle
      <4>4. call'[c].pc = "lookup"
        BY <4>1, <4>2, <4>3 DEF Request
      <4> QED BY <4>4
    <3> QED BY <3>1
  <2> QED BY <1>0, <1>3, <2>1 DEF Sweep, Answer
<1>4. ASSUME NEW d \in Callers, Lookup(d) PROVE Goal
  <2>1. CASE d # c
    BY <1>0, <1>4, <2>1 DEF Lookup, Replay, Answer, GoOn
  <2>2. CASE d = c
    <3>1. call[c] \in Request /\ op \in Operations
      BY <1>4, <2>2, InFlight DEF Lookup
    <3>2. ~GoOn(c, "lock") /\ ~Answer(c)
      BY <1>0, <3>1 DEF GoOn, Answer, Idle, Request
    <3>3. /\ reservation[op].state # "NONE" /\ reservation[op].tokens = call[c].tokens
          /\ GoOn(c, "read")
      BY <1>4, <2>2, <3>2 DEF Lookup, Replay
    <3>4. call'[c].op = op /\ call'[c].tokens = call[c].tokens
      BY <1>0, <3>1, <3>3 DEF GoOn, Request
    <3> QED BY <1>4, <3>1, <3>3, <3>4 DEF Lookup
  <2> QED BY <2>1, <2>2
<1>5. ASSUME NEW d \in Callers, Reserve(d) PROVE Goal
  <2>1. CASE d # c
    BY <1>0, <1>5, <2>1 DEF Reserve, Draw, Replay, Answer, GoOn
  <2>2. CASE d = c
    <3>1. call[c] \in Request /\ op \in Operations /\ call[c].tokens \in Amounts
      BY <1>5, <2>2, InFlight DEF Reserve
    <3>2. ~Answer(c)
      BY <1>0 DEF Answer, Idle
    <3>3. GoOn(c, "read")
      BY <1>5, <2>2, <3>2 DEF Reserve, Draw, Replay
    <3>4. call'[c].op = op /\ call'[c].tokens = call[c].tokens
      BY <1>0, <3>1, <3>3 DEF GoOn, Request
    <3>5. CASE reservation[op].state # "NONE" /\ Replay(c)
      BY <1>5, <3>1, <3>2, <3>4, <3>5 DEF Reserve, Replay
    <3>6. CASE \E k \in Kinds : Draw(c, k, op, call[c].tokens)
      <4>1. /\ reservation'[op].state # "NONE"
            /\ reservation'[op].tokens = call[c].tokens
        BY <3>1, <3>6 DEF Draw, TypeOK
      <4> QED BY <1>5, <3>1, <3>4, <4>1 DEF Reserve
    <3> QED BY <1>5, <2>2, <3>2, <3>5, <3>6 DEF Reserve
  <2> QED BY <2>1, <2>2
<1>6. ASSUME NEW d \in Callers, Read(d) PROVE Goal
  BY <1>0, <1>6 DEF Read, Answer, Idle
<1>7. ASSUME NEW o \in Operations,
             (\E actual \in 0..reservation[o].tokens : Reconcile(o, actual)) \/ Release(o)
      PROVE  Goal
  BY <1>7 DEF Reconcile, Release
<1>8. ASSUME ExpireTrial \/ ApproveStepUp \/ Tick \/ UNCHANGED ledgerVars
      PROVE  Goal
  BY <1>8 DEF ExpireTrial, ApproveStepUp, Tick, ledgerVars
<1>9. Goal
  <2> HIDE DEF Goal
  <2> QED BY <1>1, <1>2, <1>3, <1>4, <1>5, <1>6, <1>7, <1>8 DEF LedgerNext
<1>10. call'[c] = call[c] => call'[c].op \in Operations
  BY InFlight
<1> QED BY <1>9, <1>10

\* Every action keeps the answers in agreement with their rows.
LEMMA AnswerStep ==
  ASSUME TypeOK, RowsHaveTokens, AnswerMatchesReservation, [LedgerNext]_ledgerVars
  PROVE  AnswerMatchesReservation'
<1>1. SUFFICES ASSUME NEW c \in Callers, call'[c].pc = "read", ~tombstone'
               PROVE  /\ reservation'[call'[c].op].state # "NONE"
                      /\ reservation'[call'[c].op].tokens = call'[c].tokens
  BY DEF AnswerMatchesReservation
<1>2. tombstone' = tombstone /\ call'[c].op \in Operations
  BY <1>1, ReadStep
<1>3. CASE call'[c] = call[c]
  <2>1. /\ reservation[call[c].op].state # "NONE"
        /\ reservation[call[c].op].tokens = call[c].tokens
    BY <1>1, <1>2, <1>3 DEF AnswerMatchesReservation
  <2> QED BY <2>1, <1>2, <1>3, RowsKeepTerms
<1>4. CASE call'[c] # call[c]
  <2>1. call'[c].op = call[c].op /\ call'[c].tokens = call[c].tokens
    BY <1>1, <1>4, ReadStep
  <2>2. CASE /\ reservation[call[c].op].state # "NONE"
             /\ reservation[call[c].op].tokens = call[c].tokens
    BY <2>1, <2>2, <1>2, RowsKeepTerms
  <2> QED BY <1>1, <1>4, <2>1, <2>2, ReadStep
<1> QED BY <1>3, <1>4
-----------------------------------------------------------------------------
(* The books *)

\* A cost is open exactly while its row is, and only on the trial.
CostMatches ==
  \A o \in Operations :
    costRow[o] = "RESERVED" <=>
      reservation[o].state = "RESERVED" /\ reservation[o].kind = "TRIAL"

\* Before there is a trial nothing is drawn on it.
NoTrialRows ==
  entitlement["TRIAL"] = "ABSENT" =>
    \A o \in Operations : reservation[o].state # "NONE" => reservation[o].kind # "TRIAL"

\* One request at most is starting the trial, and there is none until it has.
OneStarter ==
  /\ \A c, d \in Callers : call[c].pc = "start" /\ call[d].pc = "start" => c = d
  /\ Starting => entitlement["TRIAL"] = "ABSENT"

Books == BooksAgree /\ CostMatches /\ NoTrialRows /\ OneStarter

\* What the sums are of.
LEMMA RowFunctions ==
  ASSUME TypeOK
  PROVE  /\ IsFiniteSet(Operations)
         /\ Tokens \in [Operations -> Nat] /\ Actuals \in [Operations -> Nat]
         /\ Tokens \in [Operations -> Int] /\ Actuals \in [Operations -> Int]
         /\ \A k \in Kinds : /\ OpenOn(k) \in SUBSET Operations
                             /\ SpentOn(k) \in SUBSET Operations
BY LedgerAssumption DEF TypeOK, Tokens, Actuals, OpenOn, SpentOn

\* The ledger stays balanced when a row is drawn.
LEMMA DrawBalance ==
  ASSUME TypeOK, TypeOK', LedgerBalanced, NEW c \in Callers, NEW k \in Kinds,
         NEW o \in Operations, NEW n \in Amounts, reservation[o].state = "NONE",
         Draw(c, k, o, n), consumed' = consumed
  PROVE  LedgerBalanced'
<1> USE ConstantTypes
<1>1. /\ reservation'[o] = [state |-> "RESERVED", kind |-> k, tokens |-> n, actual |-> 0]
      /\ \A p \in Operations \ {o} : reservation'[p] = reservation[p]
  BY DEF Draw, TypeOK
<1>2. /\ Tokens' \in [Operations -> Int] /\ Actuals' \in [Operations -> Int]
      /\ Tokens \in [Operations -> Int] /\ Actuals \in [Operations -> Int]
      /\ IsFiniteSet(Operations)
  BY RowFunctions DEF TypeOK, Tokens, Actuals
<1>3. Tokens'[o] = n /\ \A p \in Operations \ {o} : Tokens'[p] = Tokens[p] /\ Actuals'[p] = Actuals[p]
  BY <1>1 DEF Tokens, Actuals
<1>4. SUFFICES ASSUME NEW l \in Kinds
               PROVE  /\ reserved'[l] = TokensOf(OpenOn(l))'
                      /\ consumed'[l] = SumFunctionOnSet(Actuals, SpentOn(l))'
  BY DEF LedgerBalanced
<1>5. OpenOn(l) \in SUBSET Operations /\ SpentOn(l) \in SUBSET Operations
      /\ o \notin OpenOn(l) /\ o \notin SpentOn(l)
  BY DEF OpenOn, SpentOn
<1>6. /\ OpenOn(l)' = IF l = k THEN OpenOn(l) \cup {o} ELSE OpenOn(l)
      /\ SpentOn(l)' = SpentOn(l)
  BY <1>1 DEF OpenOn, SpentOn
<1>7. /\ SumFunctionOnSet(Tokens', OpenOn(l)) = SumFunctionOnSet(Tokens, OpenOn(l))
      /\ SumFunctionOnSet(Actuals', SpentOn(l)) = SumFunctionOnSet(Actuals, SpentOn(l))
  BY <1>2, <1>3, <1>5, SumSame
<1>8. l = k => SumFunctionOnSet(Tokens', OpenOn(l) \cup {o})
                 = n + SumFunctionOnSet(Tokens', OpenOn(l))
  BY <1>2, <1>3, <1>5, SumAdd
<1>9. /\ reserved[l] = SumFunctionOnSet(Tokens, OpenOn(l)) /\ reserved[l] \in Int
      /\ consumed[l] = SumFunctionOnSet(Actuals, SpentOn(l))
  BY DEF LedgerBalanced, TokensOf, TypeOK
<1>10. reserved'[l] = IF l = k THEN reserved[l] + n ELSE reserved[l]
  BY DEF Draw, TypeOK
<1>11. consumed'[l] = SumFunctionOnSet(Actuals', SpentOn(l)')
  BY <1>6, <1>7, <1>9
<1>12. reserved'[l] = SumFunctionOnSet(Tokens', OpenOn(l)')
  <2>1. CASE l = k
    <3>1. SumFunctionOnSet(Tokens', OpenOn(l)') = n + reserved[l]
      BY <1>6, <1>7, <1>8, <1>9, <2>1
    <3> QED BY <3>1, <1>9, <1>10, <2>1
  <2>2. CASE l # k
    BY <1>6, <1>7, <1>9, <1>10, <2>2
  <2> QED BY <2>1, <2>2
<1> QED BY <1>11, <1>12 DEF TokensOf

\* The ledger stays balanced when a row is settled, and it holds what the row held.
LEMMA SettleBalance ==
  ASSUME TypeOK, TypeOK', LedgerBalanced, NEW o \in Operations,
         NEW state \in {"RECONCILED", "RELEASED"}, NEW used \in 0..reservation[o].tokens,
         Open(o), state = "RELEASED" => used = 0,
         Charge(reservation[o].kind, reservation[o].tokens, used), Settle(o, state, used)
  PROVE  /\ LedgerBalanced'
         /\ reservation[o].tokens <= reserved[reservation[o].kind]
<1> DEFINE k == reservation[o].kind
           n == reservation[o].tokens
<1>1. /\ reservation'[o] = [reservation[o] EXCEPT !.state = state, !.actual = used]
      /\ \A p \in Operations \ {o} : reservation'[p] = reservation[p]
      /\ reservation[o].state = "RESERVED" /\ k \in Kinds /\ n \in Nat
  BY DEF Settle, TypeOK, Open
<1>2. /\ reservation'[o].state = state /\ reservation'[o].actual = used
      /\ reservation'[o].kind = k /\ reservation'[o].tokens = n
  BY <1>1 DEF TypeOK
<1>3. /\ Tokens' \in [Operations -> Int] /\ Actuals' \in [Operations -> Int]
      /\ Tokens \in [Operations -> Nat] /\ Actuals \in [Operations -> Int]
      /\ Tokens \in [Operations -> Int]
      /\ IsFiniteSet(Operations)
  BY RowFunctions DEF TypeOK, Tokens, Actuals
<1>4. /\ Actuals'[o] = used /\ Tokens[o] = n
      /\ \A p \in Operations \ {o} : Actuals'[p] = Actuals[p]
      /\ \A p \in Operations : Tokens'[p] = Tokens[p]
  BY <1>1, <1>2 DEF Tokens, Actuals
<1>5. \A l \in Kinds :
        /\ OpenOn(l) \in SUBSET Operations /\ SpentOn(l) \in SUBSET Operations
        /\ o \notin SpentOn(l) /\ (o \in OpenOn(l) <=> l = k)
        /\ OpenOn(l)' = OpenOn(l) \ {o}
        /\ SpentOn(l)' = IF l = k /\ state = "RECONCILED" THEN SpentOn(l) \cup {o}
                         ELSE SpentOn(l)
  <2> HIDE DEF k, n
  <2>1. reservation[o].kind = k
    BY DEF k
  <2>2. SUFFICES ASSUME NEW l \in Kinds
                 PROVE  /\ OpenOn(l)' = OpenOn(l) \ {o}
                        /\ SpentOn(l)' = IF l = k /\ state = "RECONCILED"
                                         THEN SpentOn(l) \cup {o} ELSE SpentOn(l)
    BY <1>1, <2>1 DEF OpenOn, SpentOn
  <2>3. ASSUME NEW p \in Operations
        PROVE  /\ p \in OpenOn(l)' <=> p \in OpenOn(l) /\ p # o
               /\ p \in SpentOn(l)' <=> \/ p \in SpentOn(l)
                                        \/ p = o /\ l = k /\ state = "RECONCILED"
    <3>1. CASE p = o
      <4>1. /\ p \in OpenOn(l)' <=> state = "RESERVED" /\ k = l
            /\ p \in SpentOn(l)' <=> state = "RECONCILED" /\ k = l
            /\ p \notin SpentOn(l)
        BY <1>1, <1>2, <3>1 DEF OpenOn, SpentOn
      <4> QED BY <3>1, <4>1
    <3>2. CASE p # o
      <4>1. reservation'[p] = reservation[p]
        BY <1>1, <3>2
      <4>2. /\ p \in OpenOn(l)' <=> p \in OpenOn(l)
            /\ p \in SpentOn(l)' <=> p \in SpentOn(l)
        BY <4>1 DEF OpenOn, SpentOn
      <4> QED BY ONLY <3>2, <4>2, Zenon
    <3> QED BY <3>1, <3>2
  <2>4. /\ OpenOn(l) \subseteq Operations /\ SpentOn(l) \subseteq Operations
        /\ OpenOn(l)' \subseteq Operations /\ SpentOn(l)' \subseteq Operations
    BY DEF OpenOn, SpentOn
  <2>5. OpenOn(l)' = OpenOn(l) \ {o}
    BY ONLY <2>3, <2>4
  <2>6. CASE l = k /\ state = "RECONCILED"
    <3>1. SpentOn(l)' = SpentOn(l) \cup {o}
      BY ONLY <2>3, <2>4, <2>6, o \in Operations
    <3> QED BY <3>1, <2>5, <2>6
  <2>7. CASE l # k \/ state # "RECONCILED"
    <3>1. \A p \in Operations : p \in SpentOn(l)' <=> p \in SpentOn(l)
      BY ONLY <2>3, <2>7, Zenon
    <3>2. SpentOn(l)' = SpentOn(l)
      BY ONLY <3>1, <2>4
    <3> QED BY <3>2, <2>5, <2>7
  <2> QED BY <2>6, <2>7
<1>6. \A l \in Kinds :
        /\ reserved[l] = SumFunctionOnSet(Tokens, OpenOn(l)) /\ reserved[l] \in Int
        /\ consumed[l] = SumFunctionOnSet(Actuals, SpentOn(l)) /\ consumed[l] \in Int
  BY DEF LedgerBalanced, TokensOf, TypeOK
<1>7. SumFunctionOnSet(Tokens, OpenOn(k)) = n + SumFunctionOnSet(Tokens, OpenOn(k) \ {o})
  BY <1>1, <1>3, <1>4, <1>5, SumRemove
<1>8. SumFunctionOnSet(Tokens, OpenOn(k) \ {o}) \in Nat
  <2>1. OpenOn(k) \ {o} \in SUBSET Operations
    BY <1>1, <1>5
  <2> QED BY <1>3, <2>1, SumParts
<1>9. n <= reserved[k]
  BY <1>1, <1>6, <1>7, <1>8
<1>10. ASSUME NEW l \in Kinds
       PROVE  /\ reserved'[l] = TokensOf(OpenOn(l))'
              /\ consumed'[l] = SumFunctionOnSet(Actuals, SpentOn(l))'
  <2>1. /\ reserved'[l] = IF l = k THEN reserved[l] - n ELSE reserved[l]
        /\ consumed'[l] = IF l = k THEN consumed[l] + used ELSE consumed[l]
    BY <1>1 DEF Charge, TypeOK
  <2>2. OpenOn(l) \ {o} \in SUBSET Operations
    BY <1>5
  <2>3. SumFunctionOnSet(Tokens', OpenOn(l) \ {o}) = SumFunctionOnSet(Tokens, OpenOn(l) \ {o})
    BY <1>3, <1>4, <2>2, SumSame
  <2>4. reserved'[l] = SumFunctionOnSet(Tokens', OpenOn(l)')
    <3>1. CASE l = k
      <4>1. reserved'[l] = SumFunctionOnSet(Tokens, OpenOn(l) \ {o})
        BY <1>1, <1>6, <1>7, <1>8, <2>1, <3>1
      <4> QED BY <4>1, <1>5, <2>3
    <3>2. CASE l # k
      <4>1. OpenOn(l) \ {o} = OpenOn(l)
        BY <1>5, <3>2
      <4> QED BY <4>1, <1>5, <1>6, <2>1, <2>3, <3>2
    <3> QED BY <3>1, <3>2
  <2>5. SumFunctionOnSet(Actuals', SpentOn(l)) = SumFunctionOnSet(Actuals, SpentOn(l))
    BY <1>3, <1>4, <1>5, SumSame
  <2>6. SumFunctionOnSet(Actuals', SpentOn(l) \cup {o})
          = used + SumFunctionOnSet(Actuals', SpentOn(l))
    BY <1>3, <1>4, <1>5, SumAdd
  <2>7. consumed'[l] = SumFunctionOnSet(Actuals', SpentOn(l)')
    <3>1. CASE l = k /\ state = "RECONCILED"
      <4>1. SumFunctionOnSet(Actuals', SpentOn(l)') = used + consumed[l]
        BY <1>5, <1>6, <2>5, <2>6, <3>1
      <4> QED BY <4>1, <1>6, <2>1, <3>1
    <3>2. CASE l # k \/ state # "RECONCILED"
      <4>1. SpentOn(l)' = SpentOn(l)
        BY <1>5, <3>2
      <4>2. consumed'[l] = consumed[l]
        BY <1>6, <2>1, <3>2
      <4> QED BY <4>1, <4>2, <1>6, <2>5
    <3> QED BY <3>1, <3>2
  <2> QED BY <2>4, <2>7 DEF TokensOf
<1> QED BY <1>9, <1>10 DEF LedgerBalanced

\* The ledger stays balanced when open rows are released and an entitlement gives up
\* what its own of them held, which it does hold.
LEMMA ReleaseBalance ==
  ASSUME TypeOK, LedgerBalanced, NEW S \in SUBSET Operations,
         \A o \in S : reservation[o].state = "RESERVED", ReleaseRows(S),
         reserved' = [k \in Kinds |->
           reserved[k] - TokensOf({o \in S : reservation[o].kind = k})],
         consumed' = consumed
  PROVE  LedgerBalanced'
<1>1. /\ \A p \in Operations :
           /\ reservation'[p].kind = reservation[p].kind
           /\ reservation'[p].tokens = reservation[p].tokens
           /\ reservation'[p].actual = reservation[p].actual
           /\ reservation'[p].state = IF p \in S THEN "RELEASED" ELSE reservation[p].state
  BY DEF ReleaseRows, TypeOK
<1>2. Tokens' = Tokens /\ Actuals' = Actuals
  BY <1>1 DEF Tokens, Actuals
<1>3. SUFFICES ASSUME NEW k \in Kinds
               PROVE  /\ reserved'[k] = TokensOf(OpenOn(k))'
                      /\ consumed'[k] = SumFunctionOnSet(Actuals, SpentOn(k))'
  BY DEF LedgerBalanced
<1> DEFINE mine == {o \in S : reservation[o].kind = k}
<1>4. /\ OpenOn(k)' = OpenOn(k) \ mine /\ SpentOn(k)' = SpentOn(k)
      /\ mine \in SUBSET OpenOn(k) /\ OpenOn(k) \in SUBSET Operations
  BY <1>1 DEF OpenOn, SpentOn
<1>5. /\ reserved[k] = SumFunctionOnSet(Tokens, OpenOn(k))
      /\ consumed[k] = SumFunctionOnSet(Actuals, SpentOn(k))
  BY DEF LedgerBalanced, TokensOf
<1> HIDE DEF mine
<1>6. SumFunctionOnSet(Tokens, OpenOn(k))
        = SumFunctionOnSet(Tokens, mine) + SumFunctionOnSet(Tokens, OpenOn(k) \ mine)
  BY <1>4, RowFunctions, SumParts
<1>7. /\ SumFunctionOnSet(Tokens, mine) \in Int
      /\ SumFunctionOnSet(Tokens, OpenOn(k) \ mine) \in Int
  <2>1. mine \in SUBSET Operations /\ OpenOn(k) \ mine \in SUBSET Operations
    BY <1>4
  <2> QED BY <2>1, RowFunctions, SumRemove
<1>8. reserved'[k] = reserved[k] - SumFunctionOnSet(Tokens, mine)
  BY DEF TokensOf, mine
<1>9. reserved'[k] = SumFunctionOnSet(Tokens', OpenOn(k)')
  BY <1>2, <1>4, <1>5, <1>6, <1>7, <1>8
<1>10. consumed'[k] = SumFunctionOnSet(Actuals', SpentOn(k)')
  BY <1>2, <1>4, <1>5
<1> QED BY <1>9, <1>10 DEF TokensOf

\* The cost account shows the same tokens as the trial, and their price.
Agrees ==
  /\ account.reserved = reserved["TRIAL"]
  /\ account.consumed = consumed["TRIAL"]
  /\ account.costReserved = Rate * reserved["TRIAL"]
  /\ account.costConsumed = Rate * consumed["TRIAL"]

\* The numbers the account is compared with.
LEMMA TrialNumbers ==
  ASSUME TypeOK
  PROVE  /\ reserved["TRIAL"] \in Int /\ consumed["TRIAL"] \in Nat
         /\ account.reserved \in Int /\ account.consumed \in Nat
         /\ account.costReserved \in Int /\ account.costConsumed \in Nat
BY DEF TypeOK, Kinds

\* A part of a row's tokens costs their number times the price: nothing is lost in
\* the division.
LEMMA CostOfPart ==
  ASSUME NEW n \in Nat, n > 0, NEW used \in Nat
  PROVE  ((n * Rate) * used) \div n = Rate * used
<1> USE ConstantTypes
<1> DEFINE q == Rate * used
           whole == (n * Rate) * used
<1>1. q \in Nat /\ whole \in Nat /\ whole = n * q
  OBVIOUS
<1> HIDE DEF q, whole
<1>2. \A r \in Int : n * r <= n * q /\ n * q < n * (r + 1) => r = q
  <2>1. SUFFICES ASSUME NEW r \in Int, n * r <= n * q, n * q < n * (r + 1), r # q
                 PROVE  FALSE
    OBVIOUS
  <2>2. CASE r >= q + 1
    <3>1. n * r >= n * (q + 1)
      BY <1>1, <2>2
    <3> QED BY <1>1, <2>1, <3>1
  <2>3. CASE r <= q - 1
    <3>1. n * (r + 1) <= n * q
      BY <1>1, <2>3
    <3> QED BY <1>1, <2>1, <3>1
  <2> QED BY <1>1, <2>1, <2>2, <2>3
<1>3. /\ whole \div n \in Int
      /\ n * (whole \div n) <= whole /\ whole < n * ((whole \div n) + 1)
  BY <1>1
<1>4. whole \div n = q
  BY <1>1, <1>2, <1>3
<1> QED BY <1>4 DEF q, whole

\* Drawing a row keeps the account in agreement.
LEMMA DrawAgrees ==
  ASSUME TypeOK, Agrees, NEW c \in Callers, NEW k \in Kinds, NEW o \in Operations,
         NEW n \in Amounts, Draw(c, k, o, n), consumed' = consumed
  PROVE  Agrees'
<1> USE ConstantTypes
<1>1. CASE k = "TRIAL"
  <2> DEFINE cost == n * Rate
  <2>1. /\ account' = [account EXCEPT !.reserved = @ + n, !.costReserved = @ + cost]
        /\ reserved'["TRIAL"] = reserved["TRIAL"] + n
    BY <1>1 DEF Draw, TypeOK
  <2>2. account'.costReserved = account.costReserved + cost
    BY <2>1 DEF TypeOK
  <2>3. /\ account'.reserved = account.reserved + n
        /\ account'.consumed = account.consumed
        /\ account'.costConsumed = account.costConsumed
    BY <2>1 DEF TypeOK
  <2>4. Rate * (reserved["TRIAL"] + n) = Rate * reserved["TRIAL"] + cost
    BY TrialNumbers
  <2> HIDE DEF cost
  <2> QED BY <2>1, <2>2, <2>3, <2>4 DEF Agrees
<1>2. CASE k # "TRIAL"
  <2>1. account' = account /\ reserved'["TRIAL"] = reserved["TRIAL"]
    BY <1>2 DEF Draw, TypeOK, Kinds
  <2> QED BY <2>1 DEF Agrees
<1> QED BY <1>1, <1>2

\* Settling a row keeps it in agreement.
LEMMA SettleAgrees ==
  ASSUME TypeOK, RowsHaveTokens, CostMatches, Agrees, NEW o \in Operations,
         NEW state \in {"RECONCILED", "RELEASED"}, NEW used \in 0..reservation[o].tokens,
         Open(o), Charge(reservation[o].kind, reservation[o].tokens, used),
         Settle(o, state, used)
  PROVE  Agrees'
<1> USE ConstantTypes
<1> DEFINE k == reservation[o].kind
           n == reservation[o].tokens
           cost == n * Rate
           charge == (cost * used) \div n
<1>1. k \in Kinds /\ n \in Nat /\ used \in Nat /\ n > 0
  BY DEF TypeOK, Open, RowsHaveTokens
<1>2. CostOpen(o) <=> k = "TRIAL"
  BY DEF CostOpen, CostMatches, Open
<1>3. CASE k = "TRIAL"
  <2>1. /\ account' = [account EXCEPT !.reserved = @ - n, !.consumed = @ + used,
                         !.costReserved = @ - cost, !.costConsumed = @ + charge]
    BY <1>2, <1>3 DEF Settle
  <2>2. charge = Rate * used
    BY <1>1, CostOfPart
  <2>3. /\ reserved'["TRIAL"] = reserved["TRIAL"] - n
        /\ consumed'["TRIAL"] = consumed["TRIAL"] + used
    BY <1>1, <1>3 DEF Charge, TypeOK
  <2>4. /\ Rate * (reserved["TRIAL"] - n) = Rate * reserved["TRIAL"] - cost
        /\ Rate * (consumed["TRIAL"] + used) = Rate * consumed["TRIAL"] + Rate * used
    BY <1>1, TrialNumbers
  <2> HIDE DEF cost, charge, n, k
  <2>5. /\ account'.reserved = account.reserved - n
        /\ account'.consumed = account.consumed + used
        /\ account'.costReserved = account.costReserved - cost
        /\ account'.costConsumed = account.costConsumed + charge
    BY <2>1 DEF TypeOK
  <2> QED BY <2>2, <2>3, <2>4, <2>5 DEF Agrees
<1>4. CASE k # "TRIAL"
  <2>1. account' = account
    BY <1>2, <1>4 DEF Settle
  <2>2. reserved'["TRIAL"] = reserved["TRIAL"] /\ consumed'["TRIAL"] = consumed["TRIAL"]
    BY <1>1, <1>4 DEF Charge, TypeOK, Kinds
  <2> QED BY <2>1, <2>2 DEF Agrees
<1> QED BY <1>3, <1>4

\* Releasing open rows gives the account back what those of the trial held.
LEMMA ReleaseAgrees ==
  ASSUME TypeOK, CostMatches, Agrees, NEW S \in SUBSET Operations,
         \A o \in S : reservation[o].state = "RESERVED", ReleaseRows(S),
         reserved'["TRIAL"]
           = reserved["TRIAL"] - TokensOf({o \in S : reservation[o].kind = "TRIAL"}),
         consumed' = consumed
  PROVE  Agrees'
<1> USE ConstantTypes
<1> DEFINE held == TokensOf({o \in S : CostOpen(o)})
           price == held * Rate
<1>1. {o \in S : CostOpen(o)} = {o \in S : reservation[o].kind = "TRIAL"}
  BY DEF CostOpen, CostMatches
<1>2. held \in Nat
  <2>1. {o \in S : CostOpen(o)} \in SUBSET Operations
    OBVIOUS
  <2> QED BY <2>1, RowFunctions, SumParts DEF TokensOf
<1>3. account' = [account EXCEPT !.reserved = @ - held, !.costReserved = @ - price]
  BY DEF ReleaseRows
<1>4. reserved'["TRIAL"] = reserved["TRIAL"] - held
  BY <1>1
<1> HIDE DEF held
<1>5. Rate * (reserved["TRIAL"] - held) = Rate * reserved["TRIAL"] - price
  BY <1>2, TrialNumbers
<1> HIDE DEF price
<1>6. /\ account'.reserved = account.reserved - held
      /\ account'.consumed = account.consumed
      /\ account'.costReserved = account.costReserved - price
      /\ account'.costConsumed = account.costConsumed
  BY <1>3 DEF TypeOK
<1> QED BY <1>4, <1>5, <1>6 DEF Agrees

\* Only the commit of a trial that is being started gives the tenant one, and only one
\* request is starting it.
LEMMA StarterStep ==
  ASSUME TypeOK, OneStarter, [LedgerNext]_ledgerVars
  PROVE  /\ OneStarter'
         /\ \/ entitlement'["TRIAL"] = "ABSENT" <=> entitlement["TRIAL"] = "ABSENT"
            \/ \E c \in Callers : CommitTrial(c) /\ entitlement["TRIAL"] = "ABSENT"
<1> DEFINE SameTrial == entitlement'["TRIAL"] = "ABSENT" <=> entitlement["TRIAL"] = "ABSENT"
           NoNewStart == \A c \in Callers : call'[c].pc = "start" => call[c].pc = "start"
<1>0. /\ "TRIAL" \in Kinds /\ entitlement \in [Kinds -> EntitlementStates]
      /\ call \in [Callers -> {Idle} \cup Request] /\ Idle.pc = "idle"
  BY DEF TypeOK, Kinds, Idle
<1>1. ASSUME SameTrial, NoNewStart PROVE OneStarter'
  BY <1>1 DEF OneStarter, Starting
<1>2. ASSUME Expire, TrialDue(now) PROVE SameTrial
  BY <1>0, <1>2 DEF Expire, TrialDue
<1>3. ASSUME NEW c \in Callers, NEW pc, pc # "start",
             GoOn(c, pc) \/ Answer(c)
      PROVE  NoNewStart
  <2>1. CASE Answer(c)
    BY <1>0, <2>1 DEF Answer
  <2>2. CASE GoOn(c, pc)
    <3>1. \A d \in Callers : d # c => call'[d] = call[d]
      BY <1>0, <2>2 DEF GoOn
    <3>2. call'[c] = [call[c] EXCEPT !.pc = pc]
      BY <1>0, <2>2 DEF GoOn
    <3>3. call'[c].pc = pc
      <4>1. CASE call[c] = Idle
        BY <3>2, <4>1 DEF Idle
      <4>2. CASE call[c] \in Request
        BY <3>2, <4>2 DEF Request
      <4> QED BY <1>0, <4>1, <4>2
    <3> QED BY <1>3, <3>1, <3>3
  <2> QED BY <1>3, <2>1, <2>2
<1>4. ASSUME NEW c \in Callers, NEW o \in Operations, NEW n \in Amounts, Authorize(c, o, n)
      PROVE  SameTrial /\ NoNewStart
  BY <1>0, <1>4 DEF Authorize
<1>5. ASSUME NEW c \in Callers, NEW o \in Operations, NEW n \in Amounts, StartTrial(c, o, n)
      PROVE  SameTrial /\ OneStarter'
  <2>1. /\ entitlement' = entitlement /\ entitlement["TRIAL"] = "ABSENT"
        /\ \A d \in Callers : call[d].pc # "start"
        /\ \A d \in Callers \ {c} : call'[d] = call[d]
    BY <1>0, <1>5 DEF StartTrial, Starting
  <2> QED BY <2>1 DEF OneStarter
<1>6. ASSUME NEW c \in Callers, CommitTrial(c)
      PROVE  OneStarter' /\ entitlement["TRIAL"] = "ABSENT"
  <2>1. entitlement["TRIAL"] = "ABSENT" /\ \A d \in Callers : call[d].pc = "start" => d = c
    BY <1>6 DEF CommitTrial, OneStarter, Starting
  <2>2. NoNewStart
    BY <1>6, <1>3 DEF CommitTrial
  <2>3. call'[c].pc = "sweep"
    <3>1. call[c] \in Request
      BY <1>6, InFlight DEF CommitTrial
    <3> QED BY <1>0, <1>6, <3>1 DEF CommitTrial, GoOn, Request
  <2>4. \A d \in Callers : call'[d].pc # "start"
    BY <2>1, <2>2, <2>3
  <2> QED BY <2>1, <2>4 DEF OneStarter, Starting
<1>7. ASSUME NEW c \in Callers, Sweep(c) PROVE SameTrial /\ NoNewStart
  <2>1. CASE TrialDue(now)
    BY <1>2, <1>3, <1>7, <2>1 DEF Sweep
  <2>2. CASE ~TrialDue(now)
    <3>1. /\ call' = [call EXCEPT ![c].pc = "lookup", ![c].at = now]
          /\ entitlement' = entitlement
      BY <1>7, <2>2 DEF Sweep
    <3>2. call[c] \in Request
      BY <1>7, InFlight DEF Sweep
    <3>3. call'[c].pc = "lookup"
      BY <1>0, <3>1, <3>2 DEF Request
    <3>4. \A d \in Callers : d # c => call'[d] = call[d]
      BY <1>0, <3>1
    <3> QED BY <3>1, <3>3, <3>4
  <2> QED BY <2>1, <2>2
<1>8. ASSUME NEW c \in Callers, Lookup(c) \/ Reserve(c)
      PROVE  SameTrial /\ NoNewStart
  <2>1. entitlement' = entitlement /\ (GoOn(c, "read") \/ GoOn(c, "lock") \/ Answer(c))
    BY <1>8 DEF Lookup, Reserve, Replay, Draw
  <2> QED BY <2>1, <1>3
<1>9. ASSUME NEW c \in Callers, Read(c) PROVE SameTrial /\ NoNewStart
  <2>1. Answer(c) /\ (entitlement' = entitlement \/ (Expire /\ TrialDue(now)))
    BY <1>9 DEF Read
  <2> QED BY <2>1, <1>2, <1>3
<1>10. ASSUME NEW o \in Operations,
              (\E actual \in 0..reservation[o].tokens : Reconcile(o, actual)) \/ Release(o)
       PROVE  SameTrial /\ NoNewStart
  BY <1>10 DEF Reconcile, Release
<1>11. ASSUME ExpireTrial \/ ApproveStepUp \/ Tick \/ UNCHANGED ledgerVars
       PROVE  SameTrial /\ NoNewStart
  BY <1>2, <1>11 DEF ExpireTrial, ApproveStepUp, Tick, ledgerVars
<1> HIDE DEF SameTrial, NoNewStart
<1>12. \/ SameTrial /\ OneStarter'
       \/ OneStarter' /\ \E c \in Callers : CommitTrial(c) /\ entitlement["TRIAL"] = "ABSENT"
  BY <1>1, <1>4, <1>5, <1>6, <1>7, <1>8, <1>9, <1>10, <1>11 DEF LedgerNext
<1> QED BY <1>12 DEF SameTrial

\* A commit of the trial finds it without rows and opens its account empty.
LEMMA CommitKeepsBooks ==
  ASSUME TypeOK, LedgerBalanced, CostMatches, NoTrialRows, NEW c \in Callers, CommitTrial(c),
         entitlement["TRIAL"] = "ABSENT"
  PROVE  BooksAgree' /\ CostMatches' /\ NoTrialRows'
<1>1. /\ reservation' = reservation /\ costRow' = costRow
      /\ reserved' = reserved /\ consumed' = consumed
      /\ entitlement'["TRIAL"] = "ACTIVE"
      /\ account' = [NoAccount EXCEPT !.open = TRUE]
  BY DEF CommitTrial, TypeOK, Kinds
<1>2. /\ Tokens' = Tokens /\ Actuals' = Actuals
      /\ \A k \in Kinds : OpenOn(k)' = OpenOn(k) /\ SpentOn(k)' = SpentOn(k)
  BY <1>1 DEF Tokens, Actuals, OpenOn, SpentOn
<1>3. LedgerBalanced'
  BY <1>1, <1>2 DEF LedgerBalanced, TokensOf
<1>4. OpenOn("TRIAL") = {} /\ SpentOn("TRIAL") = {} /\ "TRIAL" \in Kinds
  BY DEF NoTrialRows, OpenOn, SpentOn, Kinds
<1>5. reserved["TRIAL"] = 0 /\ consumed["TRIAL"] = 0
  <2>1. SumFunctionOnSet(Tokens, {}) = 0 /\ SumFunctionOnSet(Actuals, {}) = 0
    BY RowFunctions, SumRemove, {} \in SUBSET Operations
  <2> QED BY <1>4, <2>1 DEF LedgerBalanced, TokensOf
<1>6. AccountAgrees'
  BY <1>1, <1>5, ConstantTypes DEF AccountAgrees, NoAccount
<1>7. CostMatches' /\ NoTrialRows'
  BY <1>1 DEF CostMatches, NoTrialRows
<1> QED BY <1>3, <1>6, <1>7 DEF BooksAgree

\* Every step of the ledger's own keeps its books.
LEMMA BooksKept ==
  ASSUME TypeOK, RowsHaveTokens, Books, [LedgerNext]_ledgerVars
  PROVE  Books'
<1>0. TypeOK'
  BY TypeStep
<1>1. OneStarter'
  BY StarterStep DEF Books
<1>2. CASE \E c \in Callers : CommitTrial(c) /\ entitlement["TRIAL"] = "ABSENT"
  BY <1>1, <1>2, CommitKeepsBooks DEF Books, BooksAgree
<1>3. CASE entitlement'["TRIAL"] = "ABSENT" <=> entitlement["TRIAL"] = "ABSENT"
  <2>1. ASSUME UNCHANGED booksVars PROVE BooksAgree' /\ CostMatches' /\ NoTrialRows'
    <3>1. /\ reservation' = reservation /\ costRow' = costRow /\ account' = account
          /\ reserved' = reserved /\ consumed' = consumed
      BY <2>1 DEF booksVars
    <3>2. /\ Tokens' = Tokens /\ Actuals' = Actuals
          /\ \A k \in Kinds : OpenOn(k)' = OpenOn(k) /\ SpentOn(k)' = SpentOn(k)
      BY <3>1 DEF Tokens, Actuals, OpenOn, SpentOn
    <3>3. LedgerBalanced'
      BY <3>1, <3>2 DEF LedgerBalanced, TokensOf, Books, BooksAgree
    <3> QED BY <3>1, <3>3, <1>3 DEF BooksAgree, AccountAgrees, CostMatches, NoTrialRows, Books
  <2>2. ASSUME NEW c \in Callers, CommitTrial(c) PROVE FALSE
    BY <1>3, <2>2, StarterStep DEF CommitTrial, TypeOK, Books, OneStarter, Starting, Kinds
  <2>3. ASSUME NEW c \in Callers, NEW k \in Kinds, call[c].pc = "lock",
               reservation[call[c].op].state = "NONE",
               Draw(c, k, call[c].op, call[c].tokens), consumed' = consumed,
               entitlement[k] = "ACTIVE"
        PROVE  BooksAgree' /\ CostMatches' /\ NoTrialRows'
    <3>1. call[c].op \in Operations /\ call[c].tokens \in Amounts
      BY <2>3, InFlight
    <3> DEFINE o == call[c].op
               n == call[c].tokens
    <3>2. LedgerBalanced'
      BY <1>0, <2>3, <3>1, DrawBalance DEF Books, BooksAgree
    <3>3. AccountAgrees'
      <4>1. AccountAgrees <=> (entitlement["TRIAL"] # "ABSENT" => Agrees)
        BY DEF AccountAgrees, Agrees
      <4>2. AccountAgrees' <=> (entitlement'["TRIAL"] # "ABSENT" => Agrees')
        BY DEF AccountAgrees, Agrees
      <4> QED BY <4>1, <4>2, <1>3, <2>3, <3>1, DrawAgrees DEF Books, BooksAgree
    <3>4. /\ reservation'[o] = [state |-> "RESERVED", kind |-> k, tokens |-> n, actual |-> 0]
          /\ \A p \in Operations \ {o} : reservation'[p] = reservation[p]
      BY <2>3, <3>1 DEF Draw, TypeOK
    <3>5. /\ \A p \in Operations \ {o} : costRow'[p] = costRow[p]
          /\ costRow'[o] = IF k = "TRIAL" THEN "RESERVED" ELSE costRow[o]
      BY <2>3, <3>1 DEF Draw, TypeOK
    <3>6. costRow[o] # "RESERVED"
      BY <2>3, <3>1 DEF Books, CostMatches
    <3> HIDE DEF o, n
    <3>7. CostMatches'
      BY <3>4, <3>5, <3>6 DEF Books, CostMatches
    <3>8. NoTrialRows'
      BY <1>3, <2>3, <3>4 DEF Books, NoTrialRows
    <3> QED BY <3>2, <3>3, <3>7, <3>8 DEF BooksAgree
  <2>4. ASSUME NEW o \in Operations, NEW state \in {"RECONCILED", "RELEASED"},
               NEW used \in 0..reservation[o].tokens, Open(o), state = "RELEASED" => used = 0,
               Charge(reservation[o].kind, reservation[o].tokens, used), Settle(o, state, used)
        PROVE  BooksAgree' /\ CostMatches' /\ NoTrialRows'
    <3>1. LedgerBalanced'
      BY <1>0, <2>4, SettleBalance DEF Books, BooksAgree
    <3>2. AccountAgrees'
      <4>1. AccountAgrees <=> (entitlement["TRIAL"] # "ABSENT" => Agrees)
        BY DEF AccountAgrees, Agrees
      <4>2. AccountAgrees' <=> (entitlement'["TRIAL"] # "ABSENT" => Agrees')
        BY DEF AccountAgrees, Agrees
      <4> QED BY <4>1, <4>2, <1>3, <2>4, SettleAgrees DEF Books, BooksAgree
    <3>3. /\ reservation'[o].state = state /\ reservation'[o].kind = reservation[o].kind
          /\ \A p \in Operations \ {o} : reservation'[p] = reservation[p]
      BY <2>4 DEF Settle, TypeOK
    <3>4. /\ \A p \in Operations \ {o} : costRow'[p] = costRow[p]
          /\ costRow'[o] # "RESERVED"
      BY <2>4 DEF Settle, TypeOK, CostOpen
    <3>5. state # "RESERVED" /\ reservation[o].state # "NONE"
      BY <2>4 DEF Open
    <3>6. CostMatches'
      BY <3>3, <3>4, <3>5 DEF Books, CostMatches
    <3>7. NoTrialRows'
      BY <1>3, <3>3, <3>5 DEF Books, NoTrialRows
    <3> QED BY <3>1, <3>2, <3>6, <3>7 DEF BooksAgree
  <2> QED BY <1>1, <2>1, <2>2, <2>3, <2>4, BooksStep DEF Books
<1> QED BY <1>2, <1>3, StarterStep DEF Books

\* What an entitlement holds is never negative.
LEMMA HeldIsNatural ==
  ASSUME TypeOK, LedgerBalanced, NEW k \in Kinds
  PROVE  reserved[k] \in Nat
<1>1. reserved[k] = SumFunctionOnSet(Tokens, OpenOn(k))
  BY DEF LedgerBalanced, TokensOf
<1> QED BY <1>1, RowFunctions, SumParts

\* Every step of the ledger holds or settles on the trial as TokenBudget says, or leaves
\* its two counters alone.
LEMMA BudgetRefined ==
  ASSUME TypeOK, RowsHaveTokens, WithinBudget, Books, [LedgerNext]_ledgerVars
  PROVE  [Budget!Next]_<<reserved["TRIAL"], consumed["TRIAL"]>>
<1> USE ConstantTypes
<1> DEFINE Same == reserved'["TRIAL"] = reserved["TRIAL"] /\ consumed'["TRIAL"] = consumed["TRIAL"]
<1>1. "TRIAL" \in Kinds /\ reserved["TRIAL"] \in Nat /\ consumed["TRIAL"] \in Nat
  BY HeldIsNatural, TrialNumbers DEF Books, BooksAgree, Kinds
<1>2. ASSUME Same PROVE [Budget!Next]_<<reserved["TRIAL"], consumed["TRIAL"]>>
  BY <1>2
<1>3. ASSUME UNCHANGED booksVars \/ \E c \in Callers : CommitTrial(c) PROVE Same
  BY <1>3 DEF booksVars, CommitTrial
<1>4. ASSUME NEW c \in Callers, NEW k \in Kinds, call[c].pc = "lock",
             Admits(k, call[c].tokens, call[c].at),
             Draw(c, k, call[c].op, call[c].tokens), consumed' = consumed
      PROVE  Same \/ \E n \in 1..TrialBudget : Budget!Hold(n)
  <2> DEFINE n == call[c].tokens
  <2>1. n \in Nat /\ n > 0 /\ reserved' = [reserved EXCEPT ![k] = @ + n]
    BY <1>4, InFlight DEF Draw
  <2> HIDE DEF n
  <2>2. CASE k # "TRIAL"
    BY <1>1, <1>4, <2>1, <2>2 DEF TypeOK
  <2>3. CASE k = "TRIAL"
    <3>1. reserved["TRIAL"] + consumed["TRIAL"] + n <= TrialBudget
      BY <1>4, <2>3 DEF Admits, n
    <3>2. reserved'["TRIAL"] = reserved["TRIAL"] + n
      BY <2>1, <2>3 DEF TypeOK
    <3>3. n \in 1..TrialBudget
      BY <1>1, <2>1, <3>1
    <3> QED BY <1>4, <3>1, <3>2, <3>3 DEF Budget!Hold
  <2> QED BY <2>2, <2>3
<1>5. ASSUME NEW o \in Operations, NEW state \in {"RECONCILED", "RELEASED"},
             NEW used \in 0..reservation[o].tokens, Open(o), state = "RELEASED" => used = 0,
             Charge(reservation[o].kind, reservation[o].tokens, used), Settle(o, state, used)
      PROVE  Same \/ \E n \in 1..TrialBudget : \E u \in 0..n : Budget!Settle(n, u)
  <2> DEFINE n == reservation[o].tokens
             k == reservation[o].kind
  <2>1. n \in Nat /\ n > 0 /\ k \in Kinds
    BY <1>5 DEF TypeOK, Open, RowsHaveTokens
  <2>2. n <= reserved[k]
    <3>1. TypeOK'
      BY TypeStep
    <3> QED BY <1>5, <3>1, SettleBalance DEF Books, BooksAgree
  <2>3. /\ reserved' = [reserved EXCEPT ![k] = @ - n]
        /\ consumed' = [consumed EXCEPT ![k] = @ + used]
    BY <1>5 DEF Charge
  <2>4. used \in 0..n
    BY <1>5
  <2> HIDE DEF n, k
  <2>5. CASE k # "TRIAL"
    BY <1>1, <2>1, <2>3, <2>5 DEF TypeOK
  <2>6. CASE k = "TRIAL"
    <3>1. /\ reserved'["TRIAL"] = reserved["TRIAL"] - n
          /\ consumed'["TRIAL"] = consumed["TRIAL"] + used
      BY <2>1, <2>3, <2>6 DEF TypeOK
    <3>2. n \in 1..TrialBudget
      BY <1>1, <2>1, <2>2, <2>6 DEF WithinBudget
    <3> QED BY <2>2, <2>4, <2>6, <3>1, <3>2 DEF Budget!Settle
  <2> QED BY <2>5, <2>6
<1> HIDE DEF Same
<1>6. Same \/ Budget!Next
  BY <1>3, <1>4, <1>5, BooksStep DEF Budget!Next
<1> QED BY <1>2, <1>6

\* Books without rows and without a trial agree.
Empty ==
  /\ TypeOK /\ OneStarter /\ entitlement["TRIAL"] = "ABSENT"
  /\ \A o \in Operations : reservation[o].state = "NONE" /\ costRow[o] = "NONE"
  /\ \A k \in Kinds : reserved[k] = 0 /\ consumed[k] = 0

LEMMA EmptyBooks == Empty => Books
<1> SUFFICES ASSUME Empty PROVE Books
  OBVIOUS
<1>1. \A k \in Kinds : OpenOn(k) = {} /\ SpentOn(k) = {}
  BY DEF Empty, OpenOn, SpentOn
<1>2. SumFunctionOnSet(Tokens, {}) = 0 /\ SumFunctionOnSet(Actuals, {}) = 0
  BY RowFunctions, SumRemove, {} \in SUBSET Operations DEF Empty
<1>3. LedgerBalanced
  BY <1>1, <1>2 DEF Empty, LedgerBalanced, TokensOf
<1> QED BY <1>3 DEF Empty, Books, BooksAgree, AccountAgrees, CostMatches, NoTrialRows

-----------------------------------------------------------------------------
(* Theorems *)

IInv ==
  /\ TypeOK /\ RowsHaveTokens
  /\ WithinBudget /\ AnswerMatchesReservation
  /\ Books

\* The invariant that carries all results holds in the beginning,
LEMMA Beginning == Init => IInv
<1> SUFFICES ASSUME Init PROVE IInv
  OBVIOUS
<1> USE ConstantTypes
<1>1. account \in [open : BOOLEAN, reserved : Int, consumed : Nat,
                     costReserved : Int, costConsumed : Nat]
  <2>1. 0 \in Int /\ 0 \in Nat
    OBVIOUS
  <2> QED BY <2>1, Zenon DEF Init, NoAccount
<1>2. TypeOK
  <2>1. NoReservation \in [state : ReservationStates, kind : Kinds, tokens : Nat, actual : Nat]
    BY DEF NoReservation, ReservationStates, Kinds
  <2>2. /\ reservation \in [Operations -> [state : ReservationStates, kind : Kinds,
                                          tokens : Nat, actual : Nat]]
        /\ call \in [Callers -> {Idle} \cup Request]
    BY <2>1, Zenon DEF Init
  <2>3. /\ entitlement \in [Kinds -> EntitlementStates]
        /\ reserved \in [Kinds -> Int] /\ consumed \in [Kinds -> Nat]
        /\ costRow \in [Operations -> ReservationStates]
        /\ token \in [Operations -> Nat]
    BY DEF Init, EntitlementStates, ReservationStates
  <2>4. /\ trialEnds \in Nat /\ now \in 0..MaxTime /\ locked \subseteq Operations
        /\ grant \in {"ELIGIBILITY_PENDING", "READY", "ACTIVE"}
        /\ workspace \in WorkspaceStates
    BY DEF Init, WorkspaceStates
  <2>5. tombstone \in BOOLEAN /\ deleting \in BOOLEAN
    BY Zenon DEF Init
  <2> QED BY <1>1, <2>2, <2>3, <2>4, <2>5 DEF TypeOK
<1>3. RowsHaveTokens
  BY DEF Init, RowsHaveTokens, NoReservation
<1>4. WithinBudget
  BY DEF Init, WithinBudget, NoAccount, Kinds
<1>5. AnswerMatchesReservation
  BY DEF Init, AnswerMatchesReservation, Idle
<1>6. Books
  <2>1. /\ \A o \in Operations : reservation[o].state = "NONE" /\ costRow[o] = "NONE"
        /\ \A k \in Kinds : reserved[k] = 0 /\ consumed[k] = 0
        /\ entitlement["TRIAL"] = "ABSENT"
    BY DEF Init, NoReservation, Kinds
  <2>2. OneStarter
    BY DEF Init, Idle, OneStarter, Starting
  <2> QED BY <1>2, <2>1, <2>2, EmptyBooks DEF Empty
<1> QED BY <1>2, <1>3, <1>4, <1>5, <1>6 DEF IInv

\* survives every step of the ledger's own,
LEMMA LedgerStep ==
  ASSUME IInv, [LedgerNext]_ledgerVars
  PROVE  IInv'
BY TypeStep, RowsStep, BudgetStep, AnswerStep, BooksKept DEF IInv

\* and so is inductive.
LEMMA Inductive == Spec => []IInv
<1>1. Init => IInv
  BY Beginning
<1>2. IInv /\ [LedgerNext]_ledgerVars => IInv'
  BY LedgerStep
<1> QED BY <1>1, <1>2, PTL DEF Spec

\* Every reachable state of the ledger has the types of its tables.
THEOREM TypeCorrect == Spec => []TypeOK
<1>1. IInv => TypeOK
  BY DEF IInv
<1> QED BY <1>1, Inductive, PTL

\* The trial stays within its token budget, its grant's ceiling and its cost budget,
\* however many requests race and whatever is reported as used: the CHECKs of
\* organisation_entitlements and trial_usage_accounts never fire.
THEOREM BudgetHolds == Spec => []WithinBudget
<1>1. IInv => WithinBudget
  BY DEF IInv
<1> QED BY <1>1, Inductive, PTL

\* reserve_ai_tokens answers with a row of the request's own terms, although it looks
\* the operation up before it has the lock.
THEOREM AnswersMatch == Spec => []AnswerMatchesReservation
<1>1. IInv => AnswerMatchesReservation
  BY DEF IInv
<1> QED BY <1>1, Inductive, PTL

\* The entitlements' counters are the sums of their reservations, and the cost account
\* shows the trial's at the price: whatever races, no reservation is lost or counted twice.
THEOREM BooksBalance == Spec => []BooksAgree
<1>1. IInv => BooksAgree
  BY DEF IInv, Books
<1> QED BY <1>1, Inductive, PTL

\* The ledger implements TokenBudget: the trial's two counters do only what a budget
\* that is held before it is spent may do.
THEOREM Refinement == Spec => ImplementsBudget
<1>1. Init => Budget!Init
  BY DEF Init, Budget!Init, Kinds
<1>2. IInv /\ [LedgerNext]_ledgerVars
        => [Budget!Next]_<<reserved["TRIAL"], consumed["TRIAL"]>>
  BY BudgetRefined DEF IInv
<1> QED BY <1>1, <1>2, Inductive, PTL DEF Spec, ImplementsBudget, Budget!Spec

\* No reconciliation, release or replay changes a settled reservation.
THEOREM SettledForGood == Spec => SettlementIsFinal
<1> DEFINE Final == \A o \in Operations :
                      reservation[o].state \in {"RECONCILED", "RELEASED"} /\ ~tombstone'
                        => reservation'[o] = reservation[o]
<1>1. IInv /\ [LedgerNext]_ledgerVars => [Final]_reservation
  BY RowsKeepTerms DEF IInv
<1> QED BY <1>1, Inductive, PTL DEF Spec, SettlementIsFinal
=============================================================================
