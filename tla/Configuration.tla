---------------------------- MODULE Configuration ----------------------------
(***************************************************************************)
(* How the daemon comes by its settings: iniparser_load reads              *)
(* configure.ini line by line into a dictionary, main takes every setting  *)
(* from the dictionary or from a default, and writes an example file in    *)
(* place of one it cannot read.  hold.sh starts the program again when it  *)
(* gives up or is killed.                                                  *)
(*                                                                         *)
(* A line is what iniparser_line recognises in it; names are compared as   *)
(* lower case; a setting stands for all that share its conversion.         *)
(***************************************************************************)
EXTENDS Integers, Sequences, FiniteSetsExt

CONSTANTS Missing,    \* there is no configure.ini
          Nothing,    \* NULL: no key in a slot, no value at a key
          Text,       \* a value that is no number
          Lines,      \* lines an operator may have written into configure.ini
          MaxLines,   \* bound: their number
          Example,    \* the file of create_example_ini_file
          Default,    \* the defaults in the calls of iniparser_get*
          MaxAngle, MaxTime, \* the clamps of the setters
          DICTMINSZ,  \* entries a new dictionary has room for
          MaxFaults   \* bound: allocations and fopens that fail, kills

Angles == {"max_left_position", "max_right_position"}
Times  == {"imme_acceleration_time"}
Plain  == {"server_port"}
Settings == Angles \cup Times \cup Plain
NoSection == ""  \* where a file begins
SectionOf(s) == IF s \in Plain THEN "socket" ELSE "motion control"

\* kind: "section" [name], "value" of key name, "noise" (a comment or blanks), "bad" (no
\* form of iniparser_line), "long" (no end of line in the buffer).  more: ends with \; such
\* noise is a comment, and such a value a text, which it stays whatever is appended.
LineSet == [kind : {"section", "value", "noise", "bad", "long"},
            name : STRING, val : Int \cup {Text}, more : BOOLEAN]

ASSUME ConfigurationAssumption ==
    /\ {Nothing, Text} \cap Int = {} /\ Nothing \notin Seq(STRING)
    /\ Settings \cup {SectionOf(s) : s \in Settings} \cup {NoSection} \subseteq STRING
    /\ Lines \subseteq LineSet /\ Example \in Seq(LineSet)
    /\ \A l \in Lines : l.more => l.kind \in {"value", "noise"}
    /\ \A l \in Lines : l.more /\ l.kind = "value" => l.val = Text
    /\ DOMAIN Default = Settings /\ \A s \in Settings : Default[s] \in Int
    /\ MaxAngle \in Nat /\ MaxTime \in Nat \ {0} /\ DICTMINSZ \in Nat \ {0}
    /\ {MaxLines, MaxFaults} \subseteq Nat

VARIABLES
    boot,     \* where in main, "down" when there is no process
    again,    \* parse_ini_file runs for the second time
    file,     \* configure.ini
    at,       \* the line fgets reads next
    begun,    \* line[0..last): a line that is to be continued
    section, errs, dict,  \* iniparser_load's locals
    given,    \* the settings the program has
    hit,      \* history: an allocation or an fopen has failed in this process
    faults    \* what the bound has spent

load == <<at, begun, section, errs, dict>>
vars == <<boot, again, file, load, given, hit, faults>>

Fault == faults < MaxFaults /\ faults' = faults + 1
FaultHit == Fault /\ hit' = TRUE
NoFault == UNCHANGED <<hit, faults>>

-----------------------------------------------------------------------------
(* dictionary.c: slots of key and value, n of them counted as used *)

Empty == [key |-> Nothing, val |-> Nothing]
EmptySlots(size) == [i \in 1..size |-> Empty]
Size(d) == Len(d.slot)

dictionary_new == [slot |-> EmptySlots(DICTMINSZ), n |-> 0]

\* The slot of a key, 0 when it has none.
SlotOf(d, k) == LET is == {i \in 1..Size(d) : d.slot[i].key = k}
                IN  IF is = {} THEN 0 ELSE Min(is)
dictionary_get(d, k, def) == IF SlotOf(d, k) = 0 THEN def ELSE d.slot[SlotOf(d, k)].val

dictionary_grow(d) == [d EXCEPT !.slot = @ \o EmptySlots(Size(d))]

\* The first empty slot from n on, around the end of the array.
FreeSlot(d) == LET nth(j) == ((d.n + j) % Size(d)) + 1
                   free == {j \in 0..(Size(d) - 1) : d.slot[nth(j)].key = Nothing}
               IN  nth(Min(free))
PutKeepsFirst(d, k, v) ==
    IF SlotOf(d, k) # 0 THEN d
    ELSE [d EXCEPT !.slot[FreeSlot(d)] = [key |-> k, val |-> v], !.n = @ + 1]
Put(d, k, v) ==
    IF SlotOf(d, k) # 0
    THEN [d EXCEPT !.slot[SlotOf(d, k)].val = v]
    ELSE [d EXCEPT !.slot[FreeSlot(d)] = [key |-> k, val |-> v], !.n = @ + 1]

IsFull(d, k) == SlotOf(d, k) = 0 /\ d.n = Size(d)
Grown(d, k)  == IF IsFull(d, k) THEN dictionary_grow(d) ELSE d

\* dictionary_set when every allocation succeeds, and what one that fails leaves: no
\* value, or a used slot without a key.  Only a failed growth is reported (mem_err).
dictionary_set(d, k, v) == Put(Grown(d, k), k, v)
SetShort(d, k, v) ==
    {Put(Grown(d, k), k, Nothing)}
      \cup (IF SlotOf(d, k) # 0 THEN {}
            ELSE LET g == Grown(d, k)
                 IN  {[g EXCEPT !.slot[FreeSlot(g)].val = v, !.n = @ + 1]})

-----------------------------------------------------------------------------

NoDict == [slot |-> <<>>, n |-> 0]
Boots == {"down", "open", "read", "close", "take", "create", "serving"}

TypeOK ==
    /\ boot \in Boots /\ {again, hit} \subseteq BOOLEAN
    /\ file = Missing \/ file \in Seq(LineSet)
    /\ at \in Nat /\ begun \in Seq(LineSet) /\ Len(begun) <= 1
    /\ section \in STRING /\ errs \in Nat
    /\ dict.n <= Size(dict)
    /\ DOMAIN given = Settings
    /\ \A s \in Angles : given[s] \in -MaxAngle..MaxAngle
    /\ \A s \in Times : given[s] \in 0..MaxTime
    /\ faults \in 0..MaxFaults

Init ==
    /\ boot = "down" /\ again = FALSE
    /\ file \in {Missing} \cup UNION {[1..n -> Lines] : n \in 0..MaxLines}
    /\ at = 1 /\ begun = <<>> /\ section = NoSection /\ errs = 0 /\ dict = NoDict
    /\ given = [s \in Settings |-> 0]
    /\ hit = FALSE /\ faults = 0

\* hold.sh finds no program and starts one; the angles and times are statics.
Launch ==
    /\ boot = "down" /\ boot' = "open"
    /\ again' = FALSE /\ given' = [s \in Settings |-> 0] /\ hit' = FALSE
    /\ UNCHANGED <<file, load, faults>>

Kill ==
    /\ boot \notin {"down", "serving"} /\ boot' = "down"
    /\ Fault
    /\ UNCHANGED <<again, file, load, given, hit>>

-----------------------------------------------------------------------------
(* iniparser_load *)

\* NULL: main writes the example file, the second time it returns.
LoadFails == boot' = IF again THEN "down" ELSE "create"

Open ==
    /\ boot = "open" /\ file # Missing
    /\ boot' = "read"
    /\ at' = 1 /\ begun' = <<>> /\ section' = NoSection /\ errs' = 0
    /\ dict' = dictionary_new
    /\ NoFault /\ UNCHANGED <<again, file, given>>

\* No file, or fopen or the first calloc fails.
CannotOpen ==
    /\ boot = "open"
    /\ IF file = Missing THEN NoFault ELSE FaultHit
    /\ LoadFails
    /\ UNCHANGED <<again, file, load, given>>

\* dictionary_new does not look at the three arrays it allocates; nor does main's
\* conversion look for a key without value: the process dies.
Dies ==
    /\ boot = "open" /\ file # Missing /\ boot' = "down"
    /\ FaultHit
    /\ UNCHANGED <<again, file, load, given>>

\* What the line buffer holds.  The next line is appended to it, and the first part decides
\* what it all is: more of a comment, or more of a text.
JoinedNever(l) == l
Joined(l) == IF begun = <<>> THEN l ELSE begun[1]
Reading == boot = "read" /\ at <= Len(file)

TooLong ==
    /\ Reading /\ file[at].kind = "long"
    /\ LoadFails /\ NoFault
    /\ UNCHANGED <<again, file, load, given>>

BeginsMore ==
    /\ Reading /\ file[at].kind # "long" /\ file[at].more
    /\ begun' = <<Joined(file[at])>> /\ at' = at + 1
    /\ NoFault /\ UNCHANGED <<boot, again, file, section, errs, dict, given>>

\* A line that is complete.
Line(kinds, l) ==
    /\ Reading /\ file[at].kind # "long" /\ ~file[at].more
    /\ l = Joined(file[at]) /\ l.kind \in kinds
    /\ begun' = <<>> /\ at' = at + 1
    /\ UNCHANGED <<again, file, given>>

\* The copy of a line cannot be allocated: it counts as empty.
LineUnread(l) ==
    /\ Line({"section", "value", "bad"}, l) /\ FaultHit
    /\ UNCHANGED <<boot, section, errs, dict>>

OtherLine(l) ==
    /\ Line({"noise", "bad"}, l)
    /\ errs' = IF l.kind = "bad" THEN errs + 1 ELSE errs
    /\ NoFault /\ UNCHANGED <<boot, section, dict>>

Entry(l) == IF l.kind = "section" THEN <<l.name>> ELSE <<section, l.name>>
Content(l) == IF l.kind = "section" THEN Nothing ELSE l.val
EntryLine(l) ==
    /\ Line({"section", "value"}, l)
    /\ section' = IF l.kind = "section" THEN l.name ELSE section
    /\ \/ dict' = dictionary_set(dict, Entry(l), Content(l)) /\ NoFault
       \/ dict' \in SetShort(dict, Entry(l), Content(l)) /\ FaultHit
    /\ UNCHANGED <<boot, errs>>

\* The dictionary cannot grow: the loop ends, the dictionary is returned as it is.
CannotGrow(l) ==
    /\ Line({"section", "value"}, l)
    /\ IsFull(dict, Entry(l)) /\ FaultHit
    /\ section' = IF l.kind = "section" THEN l.name ELSE section
    /\ boot' = "close"
    /\ UNCHANGED <<errs, dict>>

EndOfFile ==
    /\ boot = "read" /\ at > Len(file)
    /\ boot' = "close"
    /\ NoFault /\ UNCHANGED <<again, file, load, given>>

\* Syntax errors are counted to the end of the file, then the dictionary is dropped.
Close ==
    /\ boot = "close"
    /\ IF errs > 0 THEN LoadFails ELSE boot' = "take"
    /\ NoFault /\ UNCHANGED <<again, file, load, given>>

-----------------------------------------------------------------------------
(* main *)

\* atof and strtol make 0 of a text.
Number(v) == IF v = Text THEN 0 ELSE v
ClampAngle(a) == IF a < -MaxAngle THEN -MaxAngle ELSE IF a > MaxAngle THEN MaxAngle ELSE a
\* The parameter of the setter is unsigned.
ClampTime(t) == IF t < 0 \/ t >= MaxTime THEN MaxTime ELSE IF t <= 1 THEN 1 ELSE t

Convert(s, v) == CASE s \in Angles -> ClampAngle(Number(v))
                   [] s \in Times  -> ClampTime(Number(v))
                   [] s \in Plain  -> Number(v)
Got(s) == dictionary_get(dict, <<SectionOf(s), s>>, Default[s])

parse_ini_file ==
    /\ boot = "take"
    /\ IF \E s \in Settings : Got(s) = Nothing
       THEN boot' = "down" /\ UNCHANGED given
       ELSE boot' = "serving" /\ given' = [s \in Settings |-> Convert(s, Got(s))]
    /\ NoFault /\ UNCHANGED <<again, file, load>>

OverwrittenIfMissing == IF file = Missing THEN Example ELSE file
Overwritten == Example
create_example_ini_file ==
    /\ boot = "create" /\ boot' = "open" /\ again' = TRUE
    /\ \/ file' = Overwritten /\ NoFault
       \/ UNCHANGED file /\ FaultHit
    /\ UNCHANGED <<load, given>>

\* Killed, or the power lost, with part of the file written.
KilledWhileWriting ==
    /\ boot = "create" /\ boot' = "down"
    /\ \E n \in 0..(Len(Example) - 1) : file' = SubSeq(Example, 1, n)
    /\ Fault
    /\ UNCHANGED <<again, load, given, hit>>

Serving == boot = "serving" /\ UNCHANGED vars

iniparser_load ==
    \/ Open \/ CannotOpen \/ Dies \/ TooLong \/ BeginsMore
    \/ \E l \in Lines \cup {Example[i] : i \in DOMAIN Example} :
          OtherLine(l) \/ EntryLine(l) \/ LineUnread(l) \/ CannotGrow(l)
    \/ EndOfFile \/ Close

Next == \/ Launch \/ iniparser_load \/ parse_ini_file \/ create_example_ini_file
        \/ Kill \/ KilledWhileWriting \/ Serving

Spec == Init /\ [][Next]_vars

\* The process runs, and hold.sh starts it again.
FairSpec == Spec /\ WF_vars(Launch \/ iniparser_load \/ parse_ini_file \/ create_example_ini_file)

-----------------------------------------------------------------------------
(* What a file says, without reading it line by line *)

Heads(f) == {i \in DOMAIN f : i = 1 \/ ~f[i - 1].more}
\* A line that goes on to the end of the file is never complete.
Complete(f) == {i \in Heads(f) : \E j \in i..Len(f) : ~f[j].more}

SectionAt(f, i) ==
    LET before == {j \in Complete(f) : j < i /\ f[j].kind = "section"}
    IN  IF before = {} THEN NoSection ELSE f[Max(before)].name

Says(f, s) ==
    LET said == {i \in Complete(f) : /\ f[i].kind = "value" /\ f[i].name = s
                                     /\ SectionAt(f, i) = SectionOf(s)}
    IN  IF said = {} THEN Default[s] ELSE f[Max(said)].val

Unreadable(f) ==
    f = Missing \/ (\E i \in DOMAIN f : f[i].kind = "long")
                \/ (\E i \in Complete(f) : f[i].kind = "bad")

-----------------------------------------------------------------------------
(* Properties *)

\* A daemon that serves has for every setting what the last line for it in its section
\* of configure.ini says, else the default: whatever was continued, repeated or
\* interrupted, and however often the dictionary had to grow.  (An allocation that
\* fails may leave it with part of the file, silently.)
ReadsWholeFile ==
    boot = "serving" /\ ~hit => \A s \in Settings : given[s] = Convert(s, Says(file, s))

\* The operator's file is written over only when it cannot be read: never for a line
\* that is merely of no use to the daemon.
OverwritesOnlyUnreadable == [][file' # file => Unreadable(file) \/ hit]_vars

\* Whatever is in configure.ini, the daemon comes to serve: a file that cannot be read is
\* replaced by one that can, also when the replacement is itself interrupted.
ComesToServe == <>(boot = "serving")

=============================================================================
