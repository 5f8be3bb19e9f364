------------------------------ MODULE RefusalLog ------------------------------
(***************************************************************************)
(* The lines about refused /admin callers (api/admin_log.py): identical    *)
(* refusals are logged once per window, with a count of those skipped, in  *)
(* a table of bounded size.                                                *)
(*                                                                         *)
(* recent is the table _recent.  untold and quiet are history: what really *)
(* happened since each kind of refusal last had its line.                  *)
(***************************************************************************)
EXTENDS Naturals, FiniteSets

CONSTANTS
    Keys,            \* (status, reason, user agent), of the refusals that may come
    RefusalWindow,   \* REFUSAL_LOG_WINDOW_SECONDS, in ticks
    MaxTracked,      \* MAX_TRACKED_REFUSALS
    MaxUntold,       \* bound on the refusals of one kind between two of its lines
    NoLine

ASSUME RefusalLogAssumption ==
    /\ RefusalWindow \in Nat \ {0} /\ MaxTracked \in Nat \ {0} /\ MaxUntold \in Nat
    /\ IsFiniteSet(Keys)

VARIABLES
    recent,   \* the table: on some keys, [age, skipped]
    untold,   \* untold[key]: how many of its refusals had no line yet
    quiet,    \* quiet[key]: how long ago its last line was, up to the window
    line      \* the line of the last step, [key, skipped, untold], or NoLine

vars == <<recent, untold, quiet, line>>

Init ==
    /\ recent = [key \in {} |-> NoLine]
    /\ untold = [key \in Keys |-> 0]
    /\ quiet = [key \in Keys |-> RefusalWindow]
    /\ line = NoLine

Tracked == DOMAIN recent

\* Mutant: a skipped refusal starts the window again.
Skip_Sliding(key) ==
    /\ key \in Tracked /\ recent[key].age < RefusalWindow
    /\ untold[key] < MaxUntold
    /\ recent' = [recent EXCEPT ![key] = [age |-> 0, skipped |-> @.skipped + 1]]
    /\ untold' = [untold EXCEPT ![key] = @ + 1]
    /\ line' = NoLine
    /\ UNCHANGED quiet

\* An identical refusal was logged less than a window ago: it is counted.
Skip(key) ==
    /\ key \in Tracked /\ recent[key].age < RefusalWindow
    /\ untold[key] < MaxUntold
    /\ recent' = [recent EXCEPT ![key].skipped = @ + 1]
    /\ untold' = [untold EXCEPT ![key] = @ + 1]
    /\ line' = NoLine
    /\ UNCHANGED quiet

\* Mutant: the test is one off.
Kept_OneOff == IF Cardinality(Tracked) > MaxTracked THEN {} ELSE Tracked

\* A full table is emptied before the key is entered, whether it was in it or not.
Kept == IF Cardinality(Tracked) >= MaxTracked THEN {} ELSE Tracked

\* Mutant: the count of the last window stays.
Entered_Counting(key) ==
    [k \in Kept \cup {key} |->
        IF k # key THEN recent[k]
        ELSE [age |-> 0, skipped |-> IF key \in Tracked THEN recent[key].skipped ELSE 0]]

Entered(key) ==
    [k \in Kept \cup {key} |-> IF k = key THEN [age |-> 0, skipped |-> 0] ELSE recent[k]]

Log(key) ==
    /\ key \in Tracked => recent[key].age = RefusalWindow
    /\ recent' = Entered(key)
    /\ line' = [key |-> key, skipped |-> IF key \in Tracked THEN recent[key].skipped ELSE 0,
                untold |-> untold[key]]
    /\ untold' = [untold EXCEPT ![key] = 0]
    /\ quiet' = [quiet EXCEPT ![key] = 0]

log_admin_refusal(key) == Skip(key) \/ Log(key)

Tick ==
    /\ recent' = [key \in Tracked |->
                    [recent[key] EXCEPT !.age = IF @ < RefusalWindow THEN @ + 1 ELSE @]]
    /\ quiet' = [key \in Keys |-> IF quiet[key] < RefusalWindow THEN quiet[key] + 1 ELSE quiet[key]]
    /\ line' = NoLine
    /\ UNCHANGED untold

Next == (\E key \in Keys : log_admin_refusal(key)) \/ Tick

Spec == Init /\ [][Next]_vars
------------------------------------------------------------------------------
Entries == [age : 0..RefusalWindow, skipped : Nat]

\* Every state is well typed and the table keeps to its bound: "a probe varying its user agent
\* cannot grow the table without limit".
TypeOK ==
    /\ Tracked \subseteq Keys /\ recent \in [Tracked -> Entries]
    /\ Cardinality(Tracked) <= MaxTracked
    /\ untold \in [Keys -> Nat] /\ quiet \in [Keys -> 0..RefusalWindow]
    /\ line = NoLine \/ line \in [key : Keys, skipped : Nat, untold : Nat]

\* A kind of refusal that is in the table has the true count, across windows and the lines of other
\* kinds; so a line that counts any counts them all.
CountsAreTrue ==
    /\ \A key \in Tracked : recent[key].skipped = untold[key]
    /\ line # NoLine => line.skipped = line.untold \/ line.skipped = 0

\* No refusal goes unlogged once its kind has been quiet for a window: an entry is as old as the
\* last line, however many refusals were skipped since.
NoRefusalStaysQuiet ==
    \A key \in Tracked : recent[key].age = quiet[key]

\* admin_log.py:10: "logged once a minute, with a count of the ones skipped since the last line".
SkippedAreCounted == line # NoLine => line.skipped = line.untold
==============================================================================
