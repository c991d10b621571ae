--------------------------- MODULE LinkSelectProofs ---------------------------
(***************************************************************************)
(* Theorems about LinkSelect, for any number of links, any bonds and any   *)
(* speeds.                                                                 *)
(***************************************************************************)
EXTENDS LinkSelect, FiniteSetTheorems, TLAPS

\* Of what a run of the program needs beyond the types
ProgramInv ==
  /\ wired \subseteq Link
  /\ speed \in [Link \ Bond -> Speeds]
  /\ mode \in {"-A", "-B", "guess", "given"}
  /\ pc \in {"ping", "wipe"} => cur \in Link \ Bond
  /\ tested \subseteq Link \ Bond
  /\ pc = "guess" => tested = {}

\* While links are tested, one that could send a packet for the gateway has the
\* default route, unless it was configured before the program was started, and
\* there is one such route only; where a reset fails, the link that keeps an
\* address keeps the route as well
Testing == pc \in {"visit", "ping", "wipe"}
RouteGuards ==
  Testing =>
    /\ \A l \in Link \ leftover : addr[l] # {} /\ up[l] => l \in route
    /\ pc = "ping" => route = {cur}

\* The chosen interface is a fastest one of those tested
Chosen ==
  pc \in {"reset", "setup"} /\ tested # {} =>
    /\ Head(selected) \in tested
    /\ \A l \in tested : GetDeviceSpeed(l) <= GetDeviceSpeed(Head(selected))
    /\ mode = "-B" => Range(selected) = tested

TypeInv == TypeOK /\ ProgramInv
-----------------------------------------------------------------------------
(* linksByDescendingSpeed *)

\* The order of linksByDescendingSpeed is strict and total
LEMMA PrecedesTotal ==
  ASSUME NEW a \in Link, NEW b \in Link, NEW c \in Link,
         speed \in [Link \ Bond -> Speeds], {a, b, c} \subseteq Link \ Bond
  PROVE  /\ GetDeviceSpeed(a) \in Int
         /\ ~Precedes(a, a)
         /\ Precedes(a, b) /\ Precedes(b, c) => Precedes(a, c)
         /\ a = b \/ Precedes(a, b) \/ Precedes(b, a)
<1>1. ASSUME NEW x \in Link \ Bond
      PROVE  GetDeviceSpeed(x) \in Int
  <2>1. speed[x] = Unreadable \/ speed[x] \in Int
    BY LinkAssumption
  <2> QED BY <2>1 DEF GetDeviceSpeed
<1> HIDE DEF GetDeviceSpeed
<1>2. a \in Int /\ b \in Int /\ c \in Int
  BY DEF Link
<1> QED BY <1>1, <1>2 DEF Precedes

\* There are finitely many links
LEMMA LinksFinite ==
  ASSUME NEW links \in SUBSET Link
  PROVE  IsFiniteSet(links) /\ Cardinality(links) \in Nat
<1>1. IsFiniteSet(Link)
  BY FS_Interval, LinkAssumption DEF Link
<1> QED BY <1>1, FS_Subset, FS_CardinalityType

\* The place of a link is the number of those before it: no two links share one
LEMMA SortedExists ==
  ASSUME NEW links \in SUBSET (Link \ Bond), speed \in [Link \ Bond -> Speeds]
  PROVE  \E order \in [1..Cardinality(links) -> links] :
           \A i, j \in 1..Cardinality(links) : i < j => Precedes(order[i], order[j])
<1> DEFINE n == Cardinality(links)
           Before(l) == {k \in links : Precedes(k, l)}
           rank == [l \in links |-> Cardinality(Before(l)) + 1]
<1>1. IsFiniteSet(links) /\ n \in Nat
  BY LinksFinite
<1>2. ASSUME NEW l \in links
      PROVE  IsFiniteSet(Before(l)) /\ Cardinality(Before(l)) \in 0..(n - 1)
  <2>1. Before(l) \in SUBSET (links \ {l})
    BY PrecedesTotal
  <2>2. IsFiniteSet(links \ {l}) /\ Cardinality(links \ {l}) = n - 1
    BY <1>1, FS_RemoveElement
  <2>3. IsFiniteSet(Before(l)) /\ Cardinality(Before(l)) <= n - 1
    BY <2>1, <2>2, FS_Subset
  <2>4. Cardinality(Before(l)) \in Nat
    BY <2>3, FS_CardinalityType
  <2> QED BY <1>1, <2>3, <2>4
<1>3. ASSUME NEW k \in links, NEW l \in links, Precedes(k, l)
      PROVE  Cardinality(Before(k)) < Cardinality(Before(l))
  <2>1. Before(k) \in SUBSET Before(l) /\ k \in Before(l) /\ k \notin Before(k)
    BY <1>3, PrecedesTotal
  <2>2. /\ Cardinality(Before(k)) <= Cardinality(Before(l))
        /\ Cardinality(Before(k)) # Cardinality(Before(l))
    BY <1>2, <2>1, FS_Subset
  <2> HIDE DEF Before
  <2>3. Cardinality(Before(k)) \in Int /\ Cardinality(Before(l)) \in Int
    BY <1>1, <1>2
  <2> QED BY <2>2, <2>3
<1> HIDE DEF Before
<1>4. \A l \in links : rank[l] = Cardinality(Before(l)) + 1 /\ rank[l] \in 1..n
  BY <1>1, <1>2
<1>5. rank \in [links -> 1..n]
  BY <1>4
<1> HIDE DEF rank, n
<1>6. \A k, l \in links : Precedes(k, l) => rank[k] < rank[l]
  BY <1>1, <1>2, <1>3, <1>4
<1>7. \A k, l \in links : k = l \/ Precedes(k, l) \/ Precedes(l, k)
  BY PrecedesTotal
<1>8. \A k, l \in links : rank[k] = rank[l] => k = l
  BY <1>4, <1>6, <1>7
<1>9. rank \in Surjection(links, 1..n)
  <2>1. rank \in Injection(links, 1..n)
    BY <1>5, <1>8 DEF Injection, IsInjective
  <2>2. IsFiniteSet(1..n) /\ Cardinality(1..n) = n
    BY <1>1, FS_Interval
  <2> QED BY <2>1, <2>2, FS_Injection DEF n
<1>10. \A i \in 1..n : \E l \in links : rank[l] = i
  BY <1>9 DEF Surjection
<1> DEFINE order == [i \in 1..n |-> CHOOSE l \in links : rank[l] = i]
<1>11. \A i \in 1..n : order[i] \in links /\ rank[order[i]] = i
  BY <1>10
<1>12. order \in [1..n -> links]
  BY <1>11
<1> HIDE DEF order
<1>13. ASSUME NEW i \in 1..n, NEW j \in 1..n, i < j
       PROVE  Precedes(order[i], order[j])
  <2>1. order[i] # order[j] /\ ~Precedes(order[j], order[i])
    BY <1>1, <1>6, <1>11, <1>13
  <2> QED BY <1>7, <1>11, <2>1
<1> QED BY <1>12, <1>13 DEF n

\* What linksByDescendingSpeed returns: the links it was given, fastest first
LEMMA Sorted ==
  ASSUME NEW links \in SUBSET (Link \ Bond), links # {}, speed \in [Link \ Bond -> Speeds]
  PROVE  /\ ByDescendingSpeed(links) \in Seq(links) /\ ByDescendingSpeed(links) # <<>>
         /\ Head(ByDescendingSpeed(links)) \in links
         /\ Range(ByDescendingSpeed(links)) = links
         /\ \A l \in links : GetDeviceSpeed(l) <= GetDeviceSpeed(Head(ByDescendingSpeed(links)))
<1> DEFINE n == Cardinality(links)
           order == ByDescendingSpeed(links)
<1>1. IsFiniteSet(links) /\ n \in Nat /\ n # 0
  BY LinksFinite, FS_EmptySet
<1>2. order \in [1..n -> links] /\ \A i, j \in 1..n : i < j => Precedes(order[i], order[j])
  BY SortedExists DEF ByDescendingSpeed
<1> HIDE DEF order, n
<1>3. order \in Seq(links) /\ Len(order) = n /\ order # <<>> /\ Head(order) = order[1]
  BY <1>1, <1>2
<1>4. \A l \in links : ~Precedes(l, l)
  BY PrecedesTotal
<1>5. order \in Surjection(1..n, links)
  <2>1. order \in Injection(1..n, links)
    <3>1. \A i, j \in 1..n : order[i] = order[j] => i = j
      BY <1>1, <1>2, <1>4
    <3> QED BY <1>2, <3>1 DEF Injection, IsInjective
  <2>2. IsFiniteSet(1..n) /\ Cardinality(1..n) = n
    BY <1>1, FS_Interval
  <2> QED BY <1>1, <2>1, <2>2, FS_Injection DEF n
<1>6. Range(order) = links
  BY <1>2, <1>5 DEF Surjection, Range
<1>7. ASSUME NEW l \in links
      PROVE  GetDeviceSpeed(l) <= GetDeviceSpeed(order[1])
  <2>1. PICK i \in 1..n : order[i] = l
    BY <1>5 DEF Surjection
  <2>2. i = 1 \/ Precedes(order[1], l)
    BY <1>1, <1>2, <2>1
  <2>3. GetDeviceSpeed(l) \in Int /\ GetDeviceSpeed(order[1]) \in Int
    BY <1>1, <1>2, PrecedesTotal
  <2> HIDE DEF GetDeviceSpeed
  <2> QED BY <2>1, <2>2, <2>3 DEF Precedes
<1>8. order[1] \in links
  BY <1>1, <1>2
<1> QED BY <1>3, <1>6, <1>7, <1>8 DEF order
-----------------------------------------------------------------------------
(* Types, and what is known at each place of the program *)

\* Before the program is first run nothing is tested and nothing selected
LEMMA InitType == Init => TypeInv
<1> SUFFICES ASSUME Init PROVE TypeInv
  OBVIOUS
<1>1. N \in Nat /\ N >= 1
  BY LinkAssumption
<1>2. addr \in [Link -> SUBSET {"host", "other"}]
  BY DEF Init
<1> QED BY <1>1, <1>2 DEF Init, TypeInv, TypeOK, ProgramInv

\* ResetInterfaces, whether it succeeds or not, leaves addresses, flags and routes
LEMMA ResetType ==
  ASSUME TypeInv, NEW stop \in 1..(N + 1), NEW left, Reset(stop, left),
         stop \in Link => left \in SUBSET addr[stop]
  PROVE  /\ addr' \in [Link -> SUBSET {"host", "other"}]
         /\ up' \in [Link -> BOOLEAN]
         /\ route' \subseteq Link
<1> USE DEF TypeInv, TypeOK
<1>1. ASSUME NEW l \in Link
      PROVE  addr'[l] \in SUBSET {"host", "other"}
  <2>1. addr'[l] = IF l < stop THEN {} ELSE IF l = stop THEN left ELSE addr[l]
    BY DEF Reset
  <2>2. addr[l] \in SUBSET {"host", "other"}
    OBVIOUS
  <2> QED BY <2>1, <2>2
<1>2. addr' \in [Link -> SUBSET {"host", "other"}]
  BY <1>1 DEF Reset
<1>3. up' \in [Link -> BOOLEAN]
  BY DEF Reset, Link
<1>4. route' \subseteq route
  BY DEF Reset
<1> QED BY <1>2, <1>3, <1>4

\* The same of each way in which ResetInterfaces is called
LEMMA AnyResetType ==
  ASSUME TypeInv,
         \/ Reset(N + 1, {})
         \/ \E stop \in Link : \E left \in SUBSET addr[stop] : Reset(stop, left)
  PROVE  /\ addr' \in [Link -> SUBSET {"host", "other"}]
         /\ up' \in [Link -> BOOLEAN]
         /\ route' \subseteq Link
<1>1. N \in Nat /\ N + 1 \in 1..(N + 1) /\ N + 1 \notin Link /\ Link \subseteq 1..(N + 1)
  BY LinkAssumption DEF Link
<1>2. CASE Reset(N + 1, {})
  BY <1>1, <1>2, ResetType
<1>3. CASE \E stop \in Link : \E left \in SUBSET addr[stop] : Reset(stop, left)
  <2>1. PICK stop \in Link : \E left \in SUBSET addr[stop] : Reset(stop, left)
    BY <1>3
  <2>2. PICK left \in SUBSET addr[stop] : Reset(stop, left)
    BY <2>1
  <2> QED BY <1>1, <2>2, ResetType
<1> QED BY <1>2, <1>3

\* Every step keeps the types.  An interface is selected by the time the program
\* is to set one up, and links are guessed only where none passed the test.
LEMMA StepType == TypeInv /\ [Next]_vars => TypeInv'
<1> SUFFICES ASSUME TypeInv, [Next]_vars PROVE TypeInv'
  OBVIOUS
<1> USE DEF TypeInv, TypeOK, ProgramInv
<1>1. N \in Nat /\ N >= 1 /\ 1 \in Link
  BY LinkAssumption DEF Link
<1>2. ASSUME NEW m \in {"-A", "-B", "guess", "given"}, NEW given \in Link, Start(m, given)
      PROVE  TypeInv'
  BY <1>1, <1>2 DEF Start, kernel, world
<1>3. CASE Skip
  BY <1>1, <1>3 DEF Skip, kernel, world, program
<1>4. ASSUME Testable
      PROVE  /\ cur \in Link \ Bond
             /\ [addr EXCEPT ![cur] = @ \cup {"host"}] \in [Link -> SUBSET {"host", "other"}]
             /\ [up EXCEPT ![cur] = TRUE] \in [Link -> BOOLEAN]
  BY <1>1, <1>4 DEF Testable, Link
<1>5. CASE ConfLink
  BY <1>1, <1>4, <1>5 DEF ConfLink, world, program
<1>6. CASE ConfLinkFails
  BY <1>1, <1>4, <1>6 DEF ConfLinkFails, world, program
<1>7. CASE VisitEnds
  BY <1>7 DEF VisitEnds, kernel, world, program
<1>8. CASE TestGateway
  BY <1>8 DEF TestGateway, kernel, world, program
<1>9. CASE Wipe
  <2>1. cur + 1 \in 1..(N + 1)
    BY <1>1, <1>9 DEF Wipe, Link
  <2>2. /\ addr' \in [Link -> SUBSET {"host", "other"}]
        /\ up' \in [Link -> BOOLEAN]
        /\ route' \subseteq Link
    BY <1>9, AnyResetType DEF Wipe
  <2> QED BY <1>9, <2>1, <2>2 DEF Wipe, world, program
<1>10. CASE Choose
  <2> DEFINE order == ByDescendingSpeed(tested)
  <2>1. order \in Seq(tested) /\ order # <<>> /\ Head(order) \in tested
    BY <1>10, Sorted DEF Choose
  <2>2. selected' \in Seq(Link) /\ selected' # <<>>
    <3> HIDE DEF order
    <3>1. order \in Seq(Link) /\ <<Head(order)>> \in Seq(Link) /\ <<Head(order)>> # <<>>
      BY <2>1
    <3>2. selected' = order \/ selected' = <<Head(order)>>
      BY <1>10 DEF Choose, order
    <3> QED BY <2>1, <3>1, <3>2
  <2> QED BY <1>10, <2>2 DEF Choose, kernel, world, program
<1>11. CASE NoGoodDevices
  BY <1>11 DEF NoGoodDevices, kernel, world, program
<1>12. CASE Guess
  <2>1. up' \in [Link -> BOOLEAN]
    BY <1>12 DEF Guess
  <2>2. \/ pc' = "idle" /\ selected' = selected
        \/ pc' = "reset" /\ \E l \in Link : selected' = <<l>>
    BY <1>12 DEF Guess
  <2>3. ASSUME NEW l \in Link
        PROVE  <<l>> \in Seq(Link) /\ <<l>> # <<>>
    OBVIOUS
  <2>4. selected \in Seq(Link)
    OBVIOUS
  <2>5. selected' \in Seq(Link) /\ (pc' = "reset" => selected' # <<>>)
    BY ONLY <2>2, <2>3, <2>4
  <2> QED BY <1>12, <2>1, <2>2, <2>5 DEF Guess, world, program
<1>13. CASE Malformed
  BY <1>13 DEF Malformed, kernel, world, program
<1>14. CASE Resets \/ ResetFails
  <2>1. /\ addr' \in [Link -> SUBSET {"host", "other"}]
        /\ up' \in [Link -> BOOLEAN]
        /\ route' \subseteq Link
    BY <1>14, AnyResetType DEF Resets, ResetFails
  <2> QED BY <1>14, <2>1 DEF Resets, ResetFails, world, program
<1>15. CASE Setup
  <2>1. Head(selected) \in Link
    BY <1>15 DEF Setup
  <2>2. up' \in [Link -> BOOLEAN]
    BY <1>15 DEF Setup
  <2>3. \A a \in {"host", "other"} :
          [addr EXCEPT ![Head(selected)] = {a}] \in [Link -> SUBSET {"host", "other"}]
    OBVIOUS
  <2>4. /\ addr' \in [Link -> SUBSET {"host", "other"}]
        /\ route' \subseteq Link
    BY <1>15, <2>1, <2>3 DEF Setup
  <2> QED BY <1>15, <2>2, <2>4 DEF Setup, world, program
<1>16. CASE UNCHANGED vars
  BY <1>16 DEF vars, kernel, world, program
<1> QED
  BY <1>1, <1>2, <1>3, <1>5, <1>6, <1>7, <1>8, <1>9, <1>10, <1>11, <1>12, <1>13, <1>14,
     <1>15, <1>16 DEF Next, TestInterfaces, Config

\* The types, as an invariant of the specification
LEMMA TypeInvHolds == Spec => []TypeInv
BY InitType, StepType, PTL DEF Spec

\* An interface is selected by the time static.Config takes the address of the
\* first one, however often the program was run and whatever failed before.
THEOREM LinkTypeCorrect == Spec => []TypeOK
BY TypeInvHolds, PTL DEF TypeInv
-----------------------------------------------------------------------------
(* What is left when the configuration is applied *)

\* A ResetInterfaces without an error leaves no link with an address, up or with
\* a route
LEMMA ResetCleans ==
  ASSUME TypeInv, Reset(N + 1, {})
  PROVE  route' = {} /\ \A l \in Link : addr'[l] = {} /\ ~up'[l]
<1>1. \A l \in Link : l \in Int /\ l < N + 1
  BY LinkAssumption DEF Link
<1>2. N \in Nat
  BY LinkAssumption
<1>3. ASSUME NEW l \in Link
      PROVE  addr'[l] = {} /\ ~up'[l]
  <2>1. addr'[l] = IF l < N + 1 THEN {} ELSE IF l = N + 1 THEN {} ELSE addr[l]
    BY DEF Reset
  <2>2. l \in Int /\ ~(l >= N + 1)
    BY <1>1, <1>2
  <2>3. up' = [k \in Link |-> k >= N + 1 /\ up[k]]
    BY DEF Reset
  <2>4. ~up'[l]
    BY <2>2, <2>3, Zenon
  <2> QED BY <1>1, <2>1, <2>4
<1>4. \A l \in route : ~(l >= N + 1)
  BY <1>1, <1>2 DEF TypeInv, TypeOK
<1>5. route' = {}
  BY <1>4 DEF Reset
<1> QED BY <1>3, <1>5

\* What TestInterfaces and DefaultInterfaces left is gone by the time the chosen
\* interface is configured: only the reset that succeeds comes before it.
THEOREM SetupStartsClean == Spec => []CleanBeforeSetup
<1>1. Init => CleanBeforeSetup
  BY DEF Init, CleanBeforeSetup
<1>2. TypeInv /\ CleanBeforeSetup /\ [Next]_vars => CleanBeforeSetup'
  <2> SUFFICES ASSUME TypeInv, CleanBeforeSetup, [Next]_vars, pc' = "setup"
               PROVE  route' = {} /\ \A l \in Link : addr'[l] = {} /\ ~up'[l]
    BY DEF CleanBeforeSetup
  <2>1. CASE Resets
    BY <2>1, ResetCleans DEF Resets
  <2>2. CASE UNCHANGED vars
    BY <2>2 DEF vars, kernel, CleanBeforeSetup
  <2>3. ASSUME NEW m \in {"-A", "-B", "guess", "given"}, NEW given, Start(m, given)
        PROVE  FALSE
    BY <2>3 DEF Start
  <2>4. ASSUME TestInterfaces
        PROVE  FALSE
    BY <2>4 DEF TestInterfaces, Skip, ConfLink, ConfLinkFails, Testable, VisitEnds,
                TestGateway, Wipe
  <2>5. ~(Choose \/ NoGoodDevices \/ Guess \/ Malformed \/ ResetFails \/ Setup)
    BY DEF Choose, NoGoodDevices, Guess, Malformed, ResetFails, Setup
  <2> QED BY <2>1, <2>2, <2>3, <2>4, <2>5 DEF Next, Config
<1> QED BY <1>1, <1>2, TypeInvHolds, PTL DEF Spec
-----------------------------------------------------------------------------
(* The order of the chosen interfaces *)

\* Choose takes the head of the sorted links, and all of them for a bond; no
\* later step takes back what was tested, and an execution begins with nothing
LEMMA StepChosen == TypeInv /\ Chosen /\ [Next]_vars => Chosen'
<1> SUFFICES ASSUME TypeInv, Chosen, [Next]_vars, pc' \in {"reset", "setup"}, tested' # {}
             PROVE  /\ Head(selected') \in tested'
                    /\ \A l \in tested' : GetDeviceSpeed(l)' <= GetDeviceSpeed(Head(selected))'
                    /\ mode' = "-B" => Range(selected') = tested'
  BY DEF Chosen
<1>1. CASE Choose
  <2> DEFINE order == ByDescendingSpeed(tested)
  <2>1. /\ tested \in SUBSET (Link \ Bond) /\ tested # {}
        /\ speed \in [Link \ Bond -> Speeds]
    BY <1>1 DEF Choose, TypeInv, ProgramInv
  <2>2. /\ Range(order) = tested /\ Head(order) \in tested
        /\ \A l \in tested : GetDeviceSpeed(l) <= GetDeviceSpeed(Head(order))
    BY <2>1, Sorted
  <2>3. UNCHANGED <<tested, speed, mode>>
    BY <1>1 DEF Choose, world, program
  <2>4. selected' = IF mode = "-B" THEN order ELSE <<Head(order)>>
    BY <1>1 DEF Choose
  <2> HIDE DEF order
  <2>5. Head(selected') = Head(order) /\ (mode = "-B" => selected' = order)
    BY <2>4
  <2>6. ASSUME NEW l \in tested
        PROVE  GetDeviceSpeed(l)' <= GetDeviceSpeed(Head(selected))'
    BY <2>2, <2>3, <2>5 DEF GetDeviceSpeed
  <2> QED BY <2>2, <2>3, <2>5, <2>6
<1>2. CASE Resets \/ UNCHANGED vars
  <2>1. UNCHANGED <<tested, speed, mode, selected>> /\ pc \in {"reset", "setup"}
    BY <1>2 DEF Resets, vars, world, program
  <2>2. ASSUME NEW l \in tested
        PROVE  GetDeviceSpeed(l)' <= GetDeviceSpeed(Head(selected))'
    BY <2>1, <2>2 DEF Chosen, GetDeviceSpeed
  <2> QED BY <2>1, <2>2 DEF Chosen
<1>3. ASSUME NEW m \in {"-A", "-B", "guess", "given"}, NEW given, Start(m, given)
      PROVE  FALSE
  BY <1>3 DEF Start
<1>4. ASSUME TestInterfaces
      PROVE  FALSE
  BY <1>4 DEF TestInterfaces, Skip, ConfLink, ConfLinkFails, Testable, VisitEnds, TestGateway, Wipe
<1>5. ~(NoGoodDevices \/ Guess \/ Malformed \/ ResetFails \/ Setup)
  BY DEF NoGoodDevices, Guess, Malformed, ResetFails, Setup, TypeInv, ProgramInv
<1> QED BY <1>1, <1>2, <1>3, <1>4, <1>5 DEF Next, Config

\* linksByDescendingSpeed puts a fastest link first, and one whose speed the driver
\* does not tell, or that cannot be read, behind those of a known speed.
THEOREM FastestIsFirst == Spec => []FastestFirst
<1>1. Init => Chosen
  BY DEF Init, Chosen
<1>2. TypeInv /\ Chosen => FastestFirst
  <2> SUFFICES ASSUME TypeInv, Chosen, pc = "setup", NEW l \in tested, Known(l)
               PROVE  Known(Head(selected)) /\ speed[l] <= speed[Head(selected)]
    BY DEF Chosen, FastestFirst
  <2>1. /\ Head(selected) \in Link \ Bond /\ l \in Link \ Bond
        /\ speed \in [Link \ Bond -> Speeds]
        /\ GetDeviceSpeed(l) <= GetDeviceSpeed(Head(selected))
    BY DEF Chosen, TypeInv, ProgramInv
  <2>2. ASSUME NEW k \in Link \ Bond
        PROVE  speed[k] = Unreadable \/ speed[k] \in Int
    BY <2>1, LinkAssumption
  <2>3. speed[l] \in Int /\ speed[l] >= 0 /\ GetDeviceSpeed(l) = 1000000 * speed[l]
    BY <2>1, <2>2 DEF Known, GetDeviceSpeed
  <2>4. speed[Head(selected)] # Unreadable
    BY <2>1, <2>3 DEF GetDeviceSpeed
  <2> QED BY <2>1, <2>2, <2>3, <2>4 DEF Known, GetDeviceSpeed
<1> QED BY <1>1, <1>2, StepChosen, TypeInvHolds, PTL DEF Spec
-----------------------------------------------------------------------------
(* What the ping says of a link *)

\* A ResetInterfaces that fails at a link takes its route only with its last
\* address, so a link that could still send has the default route
LEMMA ResetGuards ==
  ASSUME TypeInv, NEW stop \in 1..(N + 1), NEW left, Reset(stop, left),
         stop \in Link => left \in SUBSET addr[stop],
         NEW l \in Link, addr[l] # {} /\ up[l] => l \in route
  PROVE  addr'[l] # {} /\ up'[l] => l \in route'
<1> SUFFICES ASSUME addr'[l] # {}, up'[l]
             PROVE  l \in route'
  OBVIOUS
<1>1. l \in Int /\ stop \in Int
  BY LinkAssumption DEF Link
<1>2. addr'[l] = IF l < stop THEN {} ELSE IF l = stop THEN left ELSE addr[l]
  BY DEF Reset
<1>3. ~(l < stop) /\ addr[l] # {}
  <2>1. ~(l < stop)
    BY <1>2
  <2>2. CASE l = stop
    BY <1>2, <2>1, <2>2
  <2>3. CASE l # stop
    BY <1>2, <2>1, <2>3
  <2> QED BY <2>1, <2>2, <2>3
<1>4. up[l]
  <2>1. up' = [k \in Link |-> k >= stop /\ up[k]]
    BY DEF Reset
  <2> QED BY <2>1, Zenon
<1>5. l \in {k \in route : k >= stop} /\ addr'[l] # {}
  BY <1>1, <1>3, <1>4
<1> QED BY <1>5 DEF Reset

\* The second default route of one priority is refused, and so is an address that
\* a link has: ConfLink succeeds only where no other link can send, and the one
\* that is pinged through is the one that answers.
LEMMA StepWired ==
  TypeInv /\ RouteGuards /\ TestedAreWired /\ [Next]_vars => RouteGuards' /\ TestedAreWired'
<1> SUFFICES ASSUME TypeInv, RouteGuards, TestedAreWired, [Next]_vars
             PROVE  RouteGuards' /\ TestedAreWired'
  OBVIOUS
<1>1. ASSUME NEW m \in {"-A", "-B", "guess", "given"}, NEW given, Start(m, given)
      PROVE  RouteGuards' /\ TestedAreWired'
  <2>1. /\ tested' = {} /\ UNCHANGED <<addr, up>>
        /\ leftover' = {l \in Link : up[l] /\ addr[l] # {}}
    BY <1>1 DEF Start, kernel
  <2>2. pc' # "ping"
    BY <1>1 DEF Start
  <2> QED BY <2>1, <2>2 DEF RouteGuards, TestedAreWired
<1>2. CASE Skip
  BY <1>2 DEF Skip, kernel, world, program, RouteGuards, TestedAreWired, Testing
<1>3. CASE ConfLink
  <2>1. UNCHANGED <<leftover, tested, wired>> /\ cur' = cur /\ pc' = "ping" /\ Testing
    BY <1>3 DEF ConfLink, Testable, Testing, world, program
  <2>2. /\ route = {} /\ route' = {cur} /\ cur \in Link
        /\ \A l \in Link : l # cur => addr'[l] = addr[l] /\ up'[l] = up[l]
    BY <1>3, LinkAssumption DEF ConfLink, Testable, Link, TypeInv, TypeOK
  <2>3. \A l \in Link \ leftover : addr'[l] # {} /\ up'[l] => l = cur
    BY <2>1, <2>2 DEF RouteGuards
  <2> QED BY <2>1, <2>2, <2>3 DEF RouteGuards, TestedAreWired
<1>4. CASE TestGateway
  <2>1. /\ UNCHANGED <<addr, up, route, leftover, wired>> /\ pc = "ping" /\ pc' = "wipe"
        /\ tested' = tested \/ \E l \in Egress \cap wired : tested' = tested \cup {cur}
    BY <1>4 DEF TestGateway, kernel, world, program
  <2>2. Egress \subseteq {cur} \cup leftover
    BY <2>1 DEF RouteGuards, Testing, Egress
  <2>3. TestedAreWired'
    BY <2>1, <2>2 DEF TestedAreWired
  <2> QED BY <2>1, <2>3 DEF RouteGuards, Testing
<1>5. CASE Wipe
  <2>1. UNCHANGED <<leftover, tested, wired>> /\ pc = "wipe" /\ pc' = "visit"
    BY <1>5 DEF Wipe, world, program
  <2>2. PICK stop \in 1..(N + 1) : \E left :
          Reset(stop, left) /\ (stop \in Link => left \in SUBSET addr[stop])
    BY <1>5, LinkAssumption DEF Wipe, Link
  <2>3. PICK left : Reset(stop, left) /\ (stop \in Link => left \in SUBSET addr[stop])
    BY <2>2
  <2>4. \A l \in Link \ leftover : addr'[l] # {} /\ up'[l] => l \in route'
    BY <2>1, <2>3, ResetGuards DEF RouteGuards, Testing
  <2> QED BY <2>1, <2>4 DEF RouteGuards, TestedAreWired
<1>6. CASE \/ ConfLinkFails \/ VisitEnds \/ Choose \/ NoGoodDevices \/ Guess
           \/ Malformed \/ Resets \/ ResetFails \/ Setup
  <2>1. UNCHANGED <<leftover, tested, wired>>
    BY <1>6 DEF ConfLinkFails, VisitEnds, Choose, NoGoodDevices, Guess, Malformed, Resets,
                ResetFails, Setup, world, program
  <2>2. pc' \in {"sort", "guess", "reset", "idle", "setup"}
    BY <1>6 DEF ConfLinkFails, VisitEnds, Choose, NoGoodDevices, Guess, Malformed, Resets,
                ResetFails, Setup
  <2> QED BY <2>1, <2>2 DEF RouteGuards, TestedAreWired, Testing
<1>7. CASE UNCHANGED vars
  BY <1>7 DEF vars, kernel, world, program, RouteGuards, TestedAreWired, Testing
<1> QED BY <1>1, <1>2, <1>3, <1>4, <1>5, <1>6, <1>7 DEF Next, TestInterfaces, Config

\* A link passes the test only by its own packets, although the reset after the
\* link before may have failed, unnoticed, and left that one configured; or by
\* those of a link that leads to the gateway and was configured from the start.
THEOREM TestIsOfTheLink == Spec => []TestedAreWired
<1>1. Init => RouteGuards /\ TestedAreWired
  BY DEF Init, RouteGuards, TestedAreWired, Testing
<1> QED BY <1>1, StepWired, TypeInvHolds, PTL DEF Spec
===============================================================================
