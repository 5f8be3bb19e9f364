--------------------------- MODULE RefusalLogProofs ---------------------------
(* The table of refusals keeps to its bound and never miscounts, for any bound, any window and any *)
(* finite set of refusals. *)
EXTENDS RefusalLog, FiniteSetTheorems, TLAPS

\* The table after a line: no larger than allowed, and the other kinds as they were or gone.
LEMMA EnteredFits ==
    ASSUME TypeOK, NEW key \in Keys
    PROVE  /\ Kept \cup {key} \subseteq Keys
           /\ Entered(key) \in [Kept \cup {key} -> Entries]
           /\ Cardinality(Kept \cup {key}) <= MaxTracked
<1> USE RefusalLogAssumption
<1>1. Kept \subseteq Tracked /\ Kept \cup {key} \subseteq Keys
  BY DEF Kept, TypeOK
<1>2. Entered(key) \in [Kept \cup {key} -> Entries]
  <2>1. \A k \in Kept : recent[k] \in Entries
    BY <1>1 DEF TypeOK
  <2>2. [age |-> 0, skipped |-> 0] \in Entries
    BY DEF Entries
  <2> QED BY <2>1, <2>2 DEF Entered
<1>3. IsFiniteSet(Tracked) /\ Cardinality(Tracked) \in Nat
  BY FS_Subset, FS_CardinalityType DEF TypeOK
<1>4. Cardinality(Kept \cup {key}) <= MaxTracked
  <2>1. CASE Kept = {}
    <3>1. Cardinality({key}) = 1
      BY FS_Singleton
    <3>2. Kept \cup {key} = {key}
      BY <2>1
    <3> QED BY <3>1, <3>2
  <2>2. CASE Kept = Tracked /\ Cardinality(Tracked) < MaxTracked
    <3>1. Cardinality(Tracked \cup {key}) \in {Cardinality(Tracked), Cardinality(Tracked) + 1}
      BY <1>3, FS_AddElement
    <3> QED BY <3>1, <2>2, <1>3
  <2> QED BY <2>1, <2>2, <1>3 DEF Kept
<1> QED BY <1>1, <1>2, <1>4

------------------------------------------------------------------------------
\* Every reachable state is well typed; in particular the table never outgrows MaxTracked.
THEOREM TypeCorrect == Spec => []TypeOK
<1> USE RefusalLogAssumption
<1>1. Init => TypeOK
  BY FS_EmptySet DEF Init, TypeOK, Tracked, Entries
<1>2. TypeOK /\ [Next]_vars => TypeOK'
  <2> SUFFICES ASSUME TypeOK, [Next]_vars PROVE TypeOK'
    OBVIOUS
  <2>1. ASSUME NEW key \in Keys, Skip(key) PROVE TypeOK'
    <3>1. recent[key] \in Entries /\ untold[key] \in Nat
      BY <2>1 DEF Skip, TypeOK
    <3>2. recent' \in [Tracked -> Entries] /\ Tracked' = Tracked
      BY <2>1, <3>1 DEF Skip, TypeOK, Entries, Tracked
    <3>3. untold' \in [Keys -> Nat] /\ line' = NoLine /\ quiet' = quiet
      BY <2>1, <3>1 DEF Skip, TypeOK
    <3> QED BY <3>2, <3>3 DEF TypeOK
  <2>2. ASSUME NEW key \in Keys, Log(key) PROVE TypeOK'
    <3>1. Tracked' = Kept \cup {key} /\ recent' = Entered(key)
      BY <2>2 DEF Log, Entered, Tracked
    <3>2. untold' \in [Keys -> Nat] /\ quiet' \in [Keys -> 0..RefusalWindow]
      BY <2>2 DEF Log, TypeOK
    <3>3. line' \in [key : Keys, skipped : Nat, untold : Nat]
      <4>1. untold[key] \in Nat /\ (key \in Tracked => recent[key].skipped \in Nat)
        BY DEF TypeOK, Entries
      <4> QED BY <2>2, <4>1 DEF Log
    <3> QED BY <3>1, <3>2, <3>3, EnteredFits DEF TypeOK
  <2>3. CASE Tick
    <3>1. \A key \in Tracked : recent[key] \in Entries
      BY DEF TypeOK
    <3>2. \A key \in Tracked : [recent[key] EXCEPT !.age = IF @ < RefusalWindow THEN @ + 1 ELSE @]
                                 \in Entries
      BY <3>1 DEF Entries
    <3>3. recent' \in [Tracked -> Entries] /\ Tracked' = Tracked
      BY <2>3, <3>2 DEF Tick, Tracked
    <3>4. quiet' \in [Keys -> 0..RefusalWindow]
      BY <2>3 DEF Tick, TypeOK
    <3>5. untold' = untold /\ line' = NoLine
      BY <2>3 DEF Tick
    <3> QED BY <3>3, <3>4, <3>5 DEF TypeOK
  <2>4. CASE UNCHANGED vars
    BY <2>4 DEF vars, TypeOK, Tracked
  <2> QED BY <2>1, <2>2, <2>3, <2>4 DEF Next, log_admin_refusal
<1> QED BY <1>1, <1>2, PTL DEF Spec

\* A count in the table is the number of refusals of that kind that had no line; so a line that
\* counts any counts them all, however often the table was emptied.
THEOREM CountsNeverLie == Spec => []CountsAreTrue
<1> USE RefusalLogAssumption
<1>1. Init => CountsAreTrue
  BY DEF Init, CountsAreTrue, Tracked
<1>2. TypeOK /\ CountsAreTrue /\ [Next]_vars => CountsAreTrue'
  <2> SUFFICES ASSUME TypeOK, CountsAreTrue, [Next]_vars PROVE CountsAreTrue'
    OBVIOUS
  <2>1. ASSUME NEW key \in Keys, Skip(key) PROVE CountsAreTrue'
    <3>1. Tracked' = Tracked /\ line' = NoLine /\ key \in Tracked /\ Tracked \subseteq Keys
      BY <2>1 DEF Skip, Tracked, TypeOK
    <3>2. \A k \in Tracked : recent'[k].skipped = IF k = key THEN recent[k].skipped + 1
                                                             ELSE recent[k].skipped
      <4>1. recent \in [Tracked -> Entries]
        BY DEF TypeOK
      <4> QED BY <2>1, <4>1 DEF Skip, Entries
    <3>3. \A k \in Tracked : untold'[k] = IF k = key THEN untold[k] + 1 ELSE untold[k]
      BY <2>1, <3>1 DEF Skip, TypeOK
    <3> QED BY <3>1, <3>2, <3>3 DEF CountsAreTrue
  <2>2. ASSUME NEW key \in Keys, Log(key) PROVE CountsAreTrue'
    <3>1. Tracked' = Kept \cup {key} /\ Kept \subseteq Tracked /\ Tracked \subseteq Keys
      BY <2>2 DEF Log, Entered, Tracked, Kept, TypeOK
    <3>2. \A k \in Tracked' : recent'[k].skipped = untold'[k]
      <4>1. recent'[key].skipped = 0 /\ untold'[key] = 0
        BY <2>2 DEF Log, Entered, TypeOK
      <4>2. \A k \in Kept : k # key => recent'[k] = recent[k] /\ untold'[k] = untold[k]
        BY <2>2, <3>1 DEF Log, Entered, TypeOK
      <4> QED BY <3>1, <4>1, <4>2 DEF CountsAreTrue
    <3>3. line'.skipped = line'.untold \/ line'.skipped = 0
      BY <2>2 DEF Log, CountsAreTrue
    <3> QED BY <3>2, <3>3 DEF CountsAreTrue
  <2>3. CASE Tick
    <3>1. Tracked' = Tracked /\ untold' = untold /\ line' = NoLine
      BY <2>3 DEF Tick, Tracked
    <3>2. \A key \in Tracked : recent'[key].skipped = recent[key].skipped
      <4>1. recent \in [Tracked -> Entries]
        BY DEF TypeOK
      <4> QED BY <2>3, <4>1 DEF Tick, Entries
    <3> QED BY <3>1, <3>2 DEF CountsAreTrue
  <2>4. CASE UNCHANGED vars
    BY <2>4 DEF vars, CountsAreTrue, Tracked
  <2> QED BY <2>1, <2>2, <2>3, <2>4 DEF Next, log_admin_refusal
<1> QED BY <1>1, <1>2, TypeCorrect, PTL DEF Spec

\* An entry is as old as the last line of its kind: skipped refusals never hold the next line back.
THEOREM NoKindStaysQuiet == Spec => []NoRefusalStaysQuiet
<1> USE RefusalLogAssumption
<1>1. Init => NoRefusalStaysQuiet
  BY DEF Init, NoRefusalStaysQuiet, Tracked
<1>2. TypeOK /\ NoRefusalStaysQuiet /\ [Next]_vars => NoRefusalStaysQuiet'
  <2> SUFFICES ASSUME TypeOK, NoRefusalStaysQuiet, [Next]_vars PROVE NoRefusalStaysQuiet'
    OBVIOUS
  <2> DEFINE SameAges == \A k \in Tracked : recent'[k].age = recent[k].age
  <2>1. ASSUME NEW key \in Keys, Skip(key) PROVE NoRefusalStaysQuiet'
    <3>1. Tracked' = Tracked /\ quiet' = quiet
      BY <2>1 DEF Skip, Tracked
    <3>2. SameAges
      <4>1. recent \in [Tracked -> Entries]
        BY DEF TypeOK
      <4> QED BY <2>1, <4>1 DEF Skip, Entries
    <3> QED BY <3>1, <3>2 DEF NoRefusalStaysQuiet
  <2>2. ASSUME NEW key \in Keys, Log(key) PROVE NoRefusalStaysQuiet'
    <3>1. Tracked' = Kept \cup {key} /\ Kept \subseteq Tracked /\ Tracked \subseteq Keys
      BY <2>2 DEF Log, Entered, Tracked, Kept, TypeOK
    <3>2. recent'[key].age = 0 /\ quiet'[key] = 0
      BY <2>2 DEF Log, Entered, TypeOK
    <3>3. \A k \in Kept : k # key => recent'[k] = recent[k] /\ quiet'[k] = quiet[k]
      BY <2>2, <3>1 DEF Log, Entered, TypeOK
    <3> QED BY <3>1, <3>2, <3>3 DEF NoRefusalStaysQuiet
  <2>3. CASE Tick
    <3>1. Tracked' = Tracked /\ Tracked \subseteq Keys
      BY <2>3 DEF Tick, Tracked, TypeOK
    <3>2. \A k \in Tracked : recent'[k].age = IF recent[k].age < RefusalWindow
                                                THEN recent[k].age + 1 ELSE recent[k].age
      <4>1. recent \in [Tracked -> Entries]
        BY DEF TypeOK
      <4> QED BY <2>3, <4>1 DEF Tick, Entries
    <3>3. \A k \in Tracked : quiet'[k] = IF quiet[k] < RefusalWindow
                                           THEN quiet[k] + 1 ELSE quiet[k]
      BY <2>3, <3>1 DEF Tick
    <3> QED BY <3>1, <3>2, <3>3 DEF NoRefusalStaysQuiet
  <2>4. CASE UNCHANGED vars
    BY <2>4 DEF vars, NoRefusalStaysQuiet, Tracked
  <2> QED BY <2>1, <2>2, <2>3, <2>4 DEF Next, log_admin_refusal
<1> QED BY <1>1, <1>2, TypeCorrect, PTL DEF Spec
===============================================================================
