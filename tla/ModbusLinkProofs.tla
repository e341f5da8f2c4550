--------------------------- MODULE ModbusLinkProofs ---------------------------
(* Proofs about ModbusLink: what the line may hold when nobody waits for it, whose  *)
(* answer an operation takes, and what it takes to make one fail.                    *)
EXTENDS ModbusLink, FiniteSetTheorems, SequenceTheorems, TLAPS

(* Sequences as the line uses them *)

\* What a queue holds after a message is put at its end.
LEMMA RangeAppend ==
    ASSUME NEW S, NEW s \in Seq(S), NEW x \in S
    PROVE  /\ Append(s, x) \in Seq(S) /\ Len(Append(s, x)) = Len(s) + 1
           /\ Range(Append(s, x)) = Range(s) \cup {x}
<1>1. /\ Append(s, x) \in Seq(S) /\ Len(Append(s, x)) = Len(s) + 1
      /\ \A i \in 1..Len(s) : Append(s, x)[i] = s[i]
      /\ Append(s, x)[Len(s) + 1] = x
  BY AppendProperties
<1>2. /\ DOMAIN s = 1..Len(s) /\ DOMAIN Append(s, x) = 1..(Len(s) + 1) /\ Len(s) \in Nat
  BY <1>1, LenProperties
<1> QED BY <1>1, <1>2 DEF Range

\* What it holds without its oldest message.
LEMMA RangeTail ==
    ASSUME NEW S, NEW s \in Seq(S), s # <<>>
    PROVE  /\ Head(s) \in S /\ Tail(s) \in Seq(S) /\ Len(Tail(s)) = Len(s) - 1
           /\ Range(s) = {Head(s)} \cup Range(Tail(s))
<1>1. /\ Head(s) \in S /\ Head(s) = s[1] /\ Tail(s) \in Seq(S)
      /\ Len(Tail(s)) = Len(s) - 1 /\ \A i \in 1..Len(Tail(s)) : Tail(s)[i] = s[i + 1]
  BY HeadTailProperties
<1>2. Len(s) \in Nat \ {0} /\ DOMAIN s = 1..Len(s) /\ DOMAIN Tail(s) = 1..(Len(s) - 1)
  BY <1>1, EmptySeq, LenProperties
<1>3. Range(s) \subseteq {Head(s)} \cup Range(Tail(s))
  <2>1. ASSUME NEW i \in 1..Len(s), i # 1
        PROVE  i - 1 \in 1..(Len(s) - 1) /\ Tail(s)[i - 1] = s[i]
    BY <1>1, <1>2, <2>1
  <2>2. ASSUME NEW x \in Range(s), x # Head(s)
        PROVE  x \in Range(Tail(s))
    <3>1. PICK i \in 1..Len(s) : x = s[i]
      BY <1>2, <2>2 DEF Range
    <3>2. i # 1
      BY <1>1, <2>2, <3>1
    <3> QED BY <1>2, <2>1, <3>1, <3>2 DEF Range
  <2> QED BY <2>2
<1>4. {Head(s)} \cup Range(Tail(s)) \subseteq Range(s)
  BY <1>1, <1>2 DEF Range
<1> QED BY <1>1, <1>3, <1>4

\* Only an empty queue has nothing in it.
LEMMA RangeEmpty ==
    ASSUME NEW S, NEW s \in Seq(S)
    PROVE  /\ Len(s) \in Nat /\ (Len(s) = 0 <=> s = <<>>)
           /\ (Range(s) = {} <=> s = <<>>)
           /\ Range(s) \subseteq S
<1>1. Len(s) \in Nat /\ DOMAIN s = 1..Len(s) /\ \A i \in 1..Len(s) : s[i] \in S
  BY LenProperties, ElementOfSeq
<1>2. Len(s) = 0 <=> s = <<>>
  BY EmptySeq
<1>3. s # <<>> => s[1] \in Range(s)
  BY <1>1, <1>2 DEF Range
<1>4. s = <<>> => Range(s) = {}
  BY <1>1, <1>2 DEF Range
<1> QED BY <1>1, <1>2, <1>3, <1>4 DEF Range

-----------------------------------------------------------------------------
(* The messages *)

\* An attempt of an operation is counted, and it is one of the operations.
LEMMA MessageTypes ==
    ASSUME NEW o \in OpSet
    PROVE  /\ o.fc \in Functions /\ o.of \in Cells /\ o.val \in BOOLEAN
           /\ \A v \in BOOLEAN : Reply(o, v) \in ReplySet /\ Spoilt(Reply(o, v)) \in ReplySet
           /\ Exception \in ReplySet /\ Debris \in ReplySet
           /\ Attempts(o) \in 1..OPLOOPS
<1>1. o.fc \in Functions /\ o.of \in Cells /\ o.val \in BOOLEAN
  BY DEF OpSet
<1>2. \A v \in BOOLEAN : Reply(o, v) \in ReplySet /\ Spoilt(Reply(o, v)) \in ReplySet
  BY <1>1 DEF Reply, Spoilt, ReplySet
<1>3. Exception \in ReplySet /\ Debris \in ReplySet
  BY DEF Exception, Debris, ReplySet
<1>4. Attempts(o) \in 1..OPLOOPS
  BY ModbusLinkAssumption DEF Attempts
<1> QED BY <1>1, <1>2, <1>3, <1>4

\* An answer is accepted by the operation that asked; a spoilt one, an exception and debris
\* by none, and only debris is debris.
LEMMA WhatIsAccepted ==
    ASSUME NEW o \in OpSet, NEW v \in BOOLEAN
    PROVE  /\ Accepts(o, Reply(o, v)) /\ Reply(o, v).val = v
           /\ ~Accepts(o, Spoilt(Reply(o, v)))
           /\ ~Accepts(o, Exception) /\ ~Accepts(o, Debris)
           /\ Debris \notin {Reply(o, v), Spoilt(Reply(o, v)), Exception}
<1>1. o.fc \in Functions
  BY MessageTypes
<1>2. Accepts(o, Reply(o, v)) /\ Reply(o, v).val = v
  BY DEF Accepts, Integrity, Reply
<1>3. ~Accepts(o, Spoilt(Reply(o, v)))
  BY DEF Accepts, Integrity, Reply, Spoilt
<1>4. ~Accepts(o, Exception)
  BY <1>1 DEF Accepts, Integrity, Exception, Functions
<1>5. ~Accepts(o, Debris)
  BY DEF Accepts, Integrity, Debris
<1>6. Debris \notin {Reply(o, v), Spoilt(Reply(o, v)), Exception}
  BY <1>1 DEF Debris, Reply, Spoilt, Exception, Functions
<1> QED BY <1>2, <1>3, <1>4, <1>5, <1>6

\* What the amplifier does with a request.
LEMMA EffectType ==
    ASSUME TypeOK, NEW o \in OpSet
    PROVE  /\ Effect(o) \in [Cells -> BOOLEAN] /\ cell[o.of] \in BOOLEAN
           /\ o.fc \in Reading => Effect(o) = cell
           /\ o.fc \notin Reading => Effect(o)[o.of] = o.val
BY MessageTypes DEF TypeOK, Effect

\* What the threads see of the cells.
LEMMA SeesType ==
    ASSUME TypeOK, NEW c \in [Cells -> BOOLEAN], Sees(c)
    PROVE  /\ had' \in [Threads -> SUBSET BOOLEAN]
           /\ \A t \in Threads : had'[t] = had[t] \cup {c[op[t].of]}
<1>1. \A t \in Threads : had[t] \in SUBSET BOOLEAN /\ c[op[t].of] \in BOOLEAN
  BY MessageTypes DEF TypeOK
<1> QED BY <1>1 DEF Sees

-----------------------------------------------------------------------------
(* The attempts *)

\* A failed attempt is repeated, or it was the last one.
LEMMA RetryCases ==
    ASSUME TypeOK, NEW t \in Threads, tries[t] > 0, Retry(t)
    PROVE  \/ /\ tries[t] < Attempts(op[t]) /\ tries' = [tries EXCEPT ![t] = tries[t] + 1]
              /\ requests' = Append(requests, op[t]) /\ UNCHANGED outcome
           \/ /\ tries[t] >= Attempts(op[t]) /\ tries' = [tries EXCEPT ![t] = 0]
              /\ outcome' = [outcome EXCEPT ![t] = Failed] /\ UNCHANGED requests
<1>1. tries[t] \in Nat /\ Attempts(op[t]) \in Nat
  BY MessageTypes, ModbusLinkAssumption DEF TypeOK
<1> QED BY <1>1 DEF Retry, Send, End

\* A reading that ends anywhere leaves some of what there was, and debris.
LEMMA TornLeaves ==
    ASSUME TypeOK, replies # <<>>, NEW left \in Torn
    PROVE  left \in Seq(ReplySet) /\ Range(left) \subseteq Range(replies) \cup {Debris}
<1>1. PICK n \in 1..Len(replies) :
         \/ left = SubSeq(replies, n + 1, Len(replies))
         \/ left = <<Debris>> \o SubSeq(replies, n + 1, Len(replies))
  BY DEF Torn
<1> DEFINE rest == SubSeq(replies, n + 1, Len(replies))
<1>2. replies \in Seq(ReplySet) /\ Len(replies) \in Nat /\ DOMAIN replies = 1..Len(replies)
  BY LenProperties DEF TypeOK
<1>3. /\ rest \in Seq(ReplySet) /\ Len(rest) = Len(replies) - n
      /\ \A i \in 1..Len(rest) : rest[i] = replies[n + i]
  <2> DEFINE m == n + 1
             l == Len(replies)
  <2>1. m \in Int /\ l \in Int /\ n \in 1..l
    BY <1>2
  <2>2. \A i \in m..l : replies[i] \in ReplySet
    BY <1>2, <2>1, ElementOfSeq
  <2>3. rest = SubSeq(replies, m, l)
    OBVIOUS
  <2> HIDE DEF m, l, rest
  <2>4. /\ rest \in Seq(ReplySet)
        /\ Len(rest) = IF m <= l THEN l - m + 1 ELSE 0
        /\ \A i \in 1..(l - m + 1) : rest[i] = replies[m + i - 1]
    BY <2>1, <2>2, <2>3, SubSeqProperties
  <2>5. m <= l \/ l - n = 0
    BY <2>1 DEF m
  <2>6. Len(rest) = l - n
    BY <2>1, <2>4, <2>5 DEF m
  <2>7. \A i \in 1..(l - n) : i \in 1..(l - m + 1) /\ m + i - 1 = n + i
    BY <2>1 DEF m
  <2> QED BY <2>4, <2>6, <2>7 DEF l
<1>4. Range(rest) \subseteq Range(replies)
  <2> HIDE DEF rest
  <2>1. DOMAIN rest = 1..Len(rest) /\ \A i \in 1..Len(rest) : n + i \in 1..Len(replies)
    BY <1>2, <1>3, LenProperties
  <2> QED BY <1>2, <1>3, <2>1 DEF Range
<1>5. /\ <<Debris>> \o rest \in Seq(ReplySet)
      /\ Range(<<Debris>> \o rest) \subseteq Range(replies) \cup {Debris}
  <2> HIDE DEF rest
  <2>1. <<Debris>> \in Seq(ReplySet) /\ Len(<<Debris>>) = 1 /\ <<Debris>>[1] = Debris
    BY DEF Debris, ReplySet
  <2> DEFINE all == <<Debris>> \o rest
  <2>2. /\ all \in Seq(ReplySet) /\ Len(all) = 1 + Len(rest)
        /\ \A i \in 1..Len(all) : all[i] = IF i <= 1 THEN <<Debris>>[i] ELSE rest[i - 1]
    BY <1>3, <2>1, ConcatProperties
  <2>3. DOMAIN all = 1..Len(all) /\ DOMAIN rest = 1..Len(rest) /\ Len(rest) \in Nat
    BY <1>3, <2>2, LenProperties
  <2> HIDE DEF all
  <2>4. ASSUME NEW i \in 1..Len(all)
        PROVE  all[i] \in Range(rest) \cup {Debris}
    <3>1. CASE i = 1
      BY <2>1, <2>2, <3>1
    <3>2. CASE i # 1
      <4>1. i - 1 \in 1..Len(rest) /\ ~(i <= 1)
        BY <2>2, <2>3, <3>2
      <4> QED BY <2>2, <2>3, <4>1 DEF Range
    <3> QED BY <3>1, <3>2
  <2>5. Range(all) \subseteq Range(rest) \cup {Debris}
    BY <2>3, <2>4 DEF Range
  <2> QED BY <1>4, <2>2, <2>5 DEF all
<1> QED BY <1>1, <1>3, <1>4, <1>5

\* A reply ends the operation it fits, and fails the attempt of any other; a reply that
\* tells its length is read whole.
LEMMA ReceiveCases ==
    ASSUME TypeOK, NEW t \in Threads, Receive(t)
    PROVE  /\ tries[t] > 0 /\ replies # <<>>
           /\ Head(replies) # Debris => replies' = Tail(replies)
           /\ replies' \in Seq(ReplySet) /\ Range(replies') \subseteq Range(replies) \cup {Debris}
           /\ UNCHANGED <<op, cell, histories, calls, faults, late, changes>>
           /\ \/ /\ Accepts(op[t], Head(replies)) /\ tries' = [tries EXCEPT ![t] = 0]
                 /\ outcome' = [outcome EXCEPT ![t] =
                       Done(IF op[t].fc \in Reading THEN Head(replies).val ELSE op[t].val)]
                 /\ UNCHANGED requests
              \/ ~Accepts(op[t], Head(replies)) /\ Retry(t)
<1>1. /\ tries[t] > 0 /\ replies # <<>> /\ replies' \in UnreadAfter
      /\ UNCHANGED <<op, cell, histories, calls, faults, late, changes>>
      /\ \/ /\ Accepts(op[t], Head(replies)) /\ tries' = [tries EXCEPT ![t] = 0]
            /\ outcome' = [outcome EXCEPT ![t] =
                  Done(IF op[t].fc \in Reading THEN Head(replies).val ELSE op[t].val)]
            /\ UNCHANGED requests
         \/ ~Accepts(op[t], Head(replies)) /\ Retry(t)
  BY DEF Receive, End
<1>2. Head(replies) # Debris => replies' = Tail(replies)
  BY <1>1 DEF UnreadAfter
<1>3. replies' \in Seq(ReplySet) /\ Range(replies') \subseteq Range(replies) \cup {Debris}
  <2>1. CASE Head(replies) = Debris
    <3>1. replies' \in Torn
      BY <1>1, <2>1 DEF UnreadAfter
    <3> QED BY <1>1, <3>1, TornLeaves
  <2>2. CASE Head(replies) # Debris
    <3>1. replies' = Tail(replies) /\ replies # <<>> /\ replies \in Seq(ReplySet)
      BY <1>1, <1>2, <2>2 DEF TypeOK
    <3> QED BY <3>1, RangeTail
  <2> QED BY <2>1, <2>2
<1> QED BY <1>1, <1>2, <1>3

\* Outcomes and attempts are what TypeOK says.
LEMMA AttemptTypes ==
    ASSUME TypeOK, NEW t \in Threads
    PROVE  /\ tries[t] \in 0..OPLOOPS /\ tries[t] \in Nat /\ Attempts(op[t]) \in 1..OPLOOPS
           /\ op[t] \in OpSet /\ hurt[t] \in Nat /\ outcome[t] \in Outcomes
           /\ OPLOOPS \in Nat \ {0}
           /\ None \in Outcomes /\ Failed \in Outcomes
           /\ \A v \in BOOLEAN : Done(v) \in Outcomes
<1>1. OPLOOPS \in Nat \ {0} /\ op[t] \in OpSet
  BY ModbusLinkAssumption DEF TypeOK
<1>2. Attempts(op[t]) \in 1..OPLOOPS
  BY <1>1, MessageTypes
<1>3. None \in Outcomes /\ Failed \in Outcomes /\ \A v \in BOOLEAN : Done(v) \in Outcomes
  BY DEF None, Failed, Done, Outcomes
<1> QED BY <1>1, <1>2, <1>3 DEF TypeOK

\* The types after a failed attempt.
LEMMA RetryType ==
    ASSUME TypeOK, NEW t \in Threads, tries[t] > 0, Retry(t)
    PROVE  /\ tries' \in [Threads -> 0..OPLOOPS] /\ outcome' \in [Threads -> Outcomes]
           /\ requests' \in Seq(OpSet)
<1>1. requests \in Seq(OpSet) /\ tries \in [Threads -> 0..OPLOOPS]
      /\ outcome \in [Threads -> Outcomes]
  BY DEF TypeOK
<1>2. Append(requests, op[t]) \in Seq(OpSet)
  BY <1>1, AttemptTypes, RangeAppend
<1>3. tries[t] < Attempts(op[t]) => tries[t] + 1 \in 0..OPLOOPS
  BY AttemptTypes
<1>4. 0 \in 0..OPLOOPS
  BY AttemptTypes
<1> QED BY <1>1, <1>2, <1>3, <1>4, RetryCases, AttemptTypes

\* Two threads that spoil each other's attempts: who begins another one, and what it sends.
LEMMA SplitCases ==
    ASSUME TypeOK, NEW t \in Threads, NEW u \in Threads, Split(t, u)
    PROVE  /\ t # u /\ tries[t] > 0 /\ tries[u] > 0
           /\ replies # <<>> /\ replies' \in Torn
           /\ UNCHANGED <<op, cell, histories, calls, faults, late, changes>>
           /\ tries' \in [Threads -> 0..OPLOOPS] /\ outcome' \in [Threads -> Outcomes]
           /\ \A v \in Threads : outcome'[v] = outcome[v] \/
                                   (v \in {t, u} /\ outcome'[v] = Failed)
           /\ \A v \in Threads : tries'[v] > 0 => tries[v] > 0
           /\ \E more \in Seq(OpSet) : requests' = requests \o more
<1> DEFINE again == {v \in {t, u} : tries[v] < Attempts(op[v])}
<1>1. /\ t # u /\ {t, u} \subseteq Waiting /\ replies # <<>> /\ replies' \in Torn
      /\ UNCHANGED <<op, cell, histories, calls, faults, late, changes>>
      /\ tries' = [v \in Threads |-> IF v \in again THEN tries[v] + 1
                                     ELSE IF v \in {t, u} THEN 0 ELSE tries[v]]
      /\ outcome' = [v \in Threads |-> IF v \in {t, u} \ again THEN Failed ELSE outcome[v]]
  BY DEF Split
<1>2. \E order \in SetToSeqs(again) : requests' = requests \o [i \in DOMAIN order |-> op[order[i]]]
  BY DEF Split
<1>3. tries[t] > 0 /\ tries[u] > 0 /\ again \subseteq Threads
  BY <1>1 DEF Waiting
<1>4. tries' \in [Threads -> 0..OPLOOPS] /\ (\A v \in Threads : tries'[v] > 0 => tries[v] > 0)
  <2>1. ASSUME NEW v \in Threads
        PROVE  tries'[v] \in 0..OPLOOPS /\ (tries'[v] > 0 => tries[v] > 0)
    <3>1. v \in again => tries[v] + 1 \in 0..OPLOOPS
      BY AttemptTypes
    <3>2. tries[v] \in 0..OPLOOPS /\ 0 \in 0..OPLOOPS /\ ~(0 > 0)
      BY AttemptTypes
    <3> HIDE DEF again
    <3> QED BY <1>1, <1>3, <3>1, <3>2 DEF again
  <2> QED BY <1>1, <2>1
<1>5. outcome' \in [Threads -> Outcomes]
  BY <1>1, AttemptTypes
<1>6. \A v \in Threads : outcome'[v] = outcome[v] \/ (v \in {t, u} /\ outcome'[v] = Failed)
  BY <1>1
<1>7. ASSUME NEW order \in SetToSeqs(again)
      PROVE  [i \in DOMAIN order |-> op[order[i]]] \in Seq(OpSet)
  <2>1. IsFiniteSet(again)
    BY <1>3, ModbusLinkAssumption, FS_Subset
  <2>2. Cardinality(again) \in Nat
    BY <2>1, FS_CardinalityType
  <2>3. order \in [1..Cardinality(again) -> again]
    BY DEF SetToSeqs
  <2>4. \A i \in 1..Cardinality(again) : op[order[i]] \in OpSet
    BY <1>3, <2>3 DEF TypeOK
  <2> HIDE DEF again
  <2>5. [i \in 1..Cardinality(again) |-> op[order[i]]] \in Seq(OpSet)
    BY <2>2, <2>4, IsASeq
  <2> QED BY <2>3, <2>5
<1> QED BY <1>1, <1>2, <1>3, <1>4, <1>5, <1>6, <1>7

-----------------------------------------------------------------------------
(* Types *)

\* What the amplifier may do with the oldest request: carry it out or not, and put nothing,
\* an answer, a spoilt one or an exception on the line.
LEMMA OldestRequest ==
    ASSUME TypeOK, requests # <<>>
    PROVE  /\ Head(requests) \in OpSet /\ Tail(requests) \in Seq(OpSet)
           /\ Effect(Head(requests)) \in [Cells -> BOOLEAN]
           /\ cell[Head(requests).of] \in BOOLEAN
BY RangeTail, EffectType DEF TypeOK

\* A fault is counted for every thread.
LEMMA FaultType ==
    ASSUME TypeOK, Fault
    PROVE  /\ hurt' \in [Threads -> Nat] /\ faults' \in Nat
           /\ \A t \in Threads : hurt'[t] = hurt[t] + 1
           /\ faults' # 0
           /\ UNCHANGED <<op, tries, outcome, shared, calls, late, changes>>
<1>1. \A t \in Threads : hurt[t] + 1 \in Nat
  BY DEF TypeOK
<1> QED BY <1>1 DEF Fault, TypeOK

\* What goes astray is noted for whoever waits.
LEMMA StrayType ==
    ASSUME TypeOK, Stray
    PROVE  /\ astray' \in [Threads -> {"no", "since", "before"}]
           /\ \A t \in Threads :
                 \/ astray'[t] = astray[t]
                 \/ t \in Waiting /\ astray[t] = "no" /\ astray'[t] = "since"
           /\ \A t \in Waiting : astray'[t] # "no"
<1>1. Waiting \subseteq Threads
  BY DEF Waiting
<1> QED BY <1>1 DEF Stray, TypeOK

\* The line keeps to its types.
THEOREM LinkTypes == Spec => []TypeOK
<1>1. Init => TypeOK
  <2> SUFFICES ASSUME Init PROVE TypeOK
    OBVIOUS
  <2>1. \E o : o \in OpSet
    <3>1. PICK c : c \in Cells
      BY ModbusLinkAssumption
    <3>2. [fc |-> "READ_COILS", of |-> c, val |-> TRUE] \in OpSet
      BY <3>1 DEF OpSet, Functions
    <3> QED BY <3>2
  <2>2. (CHOOSE o \in OpSet : TRUE) \in OpSet
    BY <2>1
  <2>3. None \in Outcomes
    BY DEF None, Outcomes
  <2>4. 0 \in 0..OPLOOPS
    BY ModbusLinkAssumption
  <2>5. op \in [Threads -> OpSet]
    BY <2>2 DEF Init
  <2>6. requests \in Seq(OpSet) /\ replies \in Seq(ReplySet)
    BY DEF Init
  <2>7. tries \in [Threads -> 0..OPLOOPS] /\ outcome \in [Threads -> Outcomes]
    BY <2>3, <2>4 DEF Init
  <2>8. /\ cell \in [Cells -> BOOLEAN] /\ had \in [Threads -> SUBSET BOOLEAN]
        /\ hurt \in [Threads -> Nat] /\ astray \in [Threads -> {"no", "since", "before"}]
    BY DEF Init
  <2>9. shared \in BOOLEAN /\ {calls, faults, late, changes} \subseteq Nat
    <3>1. shared = FALSE /\ calls = 0 /\ faults = 0 /\ late = 0 /\ changes = 0
      BY Zenon DEF Init
    <3>2. {calls, faults, late, changes} \subseteq {0}
      BY <3>1
    <3>3. 0 \in Nat
      OBVIOUS
    <3> QED BY Zenon, <3>1, <3>2, <3>3
  <2> QED BY <2>5, <2>6, <2>7, <2>8, <2>9 DEF TypeOK
<1>2. TypeOK /\ [Next]_vars => TypeOK'
  <2> SUFFICES ASSUME TypeOK, [Next]_vars PROVE TypeOK'
    OBVIOUS
  <2>0. /\ requests \in Seq(OpSet) /\ replies \in Seq(ReplySet)
        /\ replies # <<>> => Tail(replies) \in Seq(ReplySet)
    BY RangeTail DEF TypeOK
  <2>1. ASSUME NEW t \in Threads, NEW o \in Ops(t), Call(t, o)
        PROVE  TypeOK'
    <3>1. o \in OpSet
      BY ModbusLinkAssumption
    <3>2. /\ op' = [op EXCEPT ![t] = o] /\ tries' = [tries EXCEPT ![t] = 1]
          /\ outcome' = [outcome EXCEPT ![t] = None] /\ requests' = Append(requests, o)
          /\ had' = [had EXCEPT ![t] = {cell[o.of]}] /\ shared' = (shared \/ Waiting # {})
          /\ hurt' = [hurt EXCEPT ![t] = 0] /\ calls' = calls + 1
          /\ astray' = [astray EXCEPT
                          ![t] = IF requests = <<>> /\ replies = <<>> THEN "no" ELSE "before"]
          /\ UNCHANGED <<cell, replies, faults, late, changes>>
      BY <2>1 DEF Call, Send
    <3>3. requests' \in Seq(OpSet)
      BY <2>0, <3>1, <3>2, RangeAppend
    <3>4. 1 \in 0..OPLOOPS /\ None \in Outcomes /\ cell[o.of] \in BOOLEAN
      BY <3>1, AttemptTypes, EffectType
    <3>5. /\ op' \in [Threads -> OpSet] /\ tries' \in [Threads -> 0..OPLOOPS]
          /\ outcome' \in [Threads -> Outcomes] /\ had' \in [Threads -> SUBSET BOOLEAN]
          /\ hurt' \in [Threads -> Nat] /\ calls' \in Nat
          /\ astray' \in [Threads -> {"no", "since", "before"}]
      BY <3>1, <3>2, <3>4 DEF TypeOK
    <3>6. shared' \in BOOLEAN
      BY <3>2
    <3> QED BY <3>2, <3>3, <3>5, <3>6 DEF TypeOK
  <2>2. ASSUME NEW t \in Threads, Receive(t)
        PROVE  TypeOK'
    <3>1. /\ tries[t] > 0 /\ replies # <<>> /\ replies' \in Seq(ReplySet)
          /\ UNCHANGED <<op, cell, had, shared, hurt, astray, calls, faults, late, changes>>
      BY <2>2, ReceiveCases DEF histories
    <3>2. /\ tries' \in [Threads -> 0..OPLOOPS] /\ outcome' \in [Threads -> Outcomes]
          /\ requests' \in Seq(OpSet)
      <4>1. CASE Retry(t)
        BY <3>1, <4>1, RetryType
      <4>2. CASE ~Retry(t)
        <5> DEFINE v == IF op[t].fc \in Reading THEN Head(replies).val ELSE op[t].val
        <5>1. /\ tries' = [tries EXCEPT ![t] = 0] /\ outcome' = [outcome EXCEPT ![t] = Done(v)]
              /\ UNCHANGED requests
          BY <2>2, <4>2, ReceiveCases
        <5>2. v \in BOOLEAN
          <6>1. Head(replies) \in ReplySet
            BY <2>0, <3>1, RangeTail
          <6>2. Head(replies).val \in BOOLEAN
            BY <6>1 DEF ReplySet
          <6> QED BY <6>2, AttemptTypes, MessageTypes
        <5>3. Done(v) \in Outcomes /\ 0 \in 0..OPLOOPS
          BY <5>2, AttemptTypes
        <5> HIDE DEF v
        <5> QED BY <5>1, <5>3 DEF TypeOK
      <4> QED BY <4>1, <4>2
    <3> QED BY <2>0, <3>1, <3>2 DEF TypeOK
  <2>3. ASSUME NEW t \in Threads, Timeout(t)
        PROVE  TypeOK'
    <3>1. /\ tries[t] > 0 /\ Retry(t) /\ (late' = late \/ late' = late + 1)
          /\ UNCHANGED astray \/ Stray
          /\ UNCHANGED <<op, cell, replies, had, shared, hurt, calls, faults, changes>>
      BY <2>3 DEF Timeout, GivesUp
    <3>2. /\ tries' \in [Threads -> 0..OPLOOPS] /\ outcome' \in [Threads -> Outcomes]
          /\ requests' \in Seq(OpSet)
      BY <3>1, RetryType
    <3>3. astray' \in [Threads -> {"no", "since", "before"}]
      BY <3>1, StrayType DEF TypeOK
    <3> QED BY <3>1, <3>2, <3>3 DEF TypeOK
  <2>4. ASSUME NEW t \in Threads, NEW u \in Threads, Split(t, u)
        PROVE  TypeOK'
    <3>1. /\ replies # <<>> /\ replies' \in Torn
          /\ UNCHANGED <<op, cell, had, shared, hurt, astray, calls, faults, late, changes>>
          /\ tries' \in [Threads -> 0..OPLOOPS] /\ outcome' \in [Threads -> Outcomes]
          /\ \E more \in Seq(OpSet) : requests' = requests \o more
      BY <2>4, SplitCases DEF histories
    <3>2. requests' \in Seq(OpSet) /\ replies' \in Seq(ReplySet)
      BY <2>0, <3>1, ConcatProperties, TornLeaves
    <3> QED BY <2>0, <3>1, <3>2 DEF TypeOK
  <2>5. CASE Answer
    <3> DEFINE o == Head(requests)
               r == Reply(o, cell[o.of])
    <3>1. /\ requests # <<>> /\ cell' = Effect(o) /\ Sees(Effect(o))
          /\ replies' = Append(replies, r) /\ requests' = Tail(requests)
          /\ UNCHANGED <<op, tries, outcome, shared, hurt, astray, calls, faults, late, changes>>
      BY <2>5 DEF Answer, Sees
    <3>2. o \in OpSet /\ Tail(requests) \in Seq(OpSet) /\ Effect(o) \in [Cells -> BOOLEAN]
          /\ r \in ReplySet
      BY <3>1, OldestRequest, MessageTypes
    <3>3. had' \in [Threads -> SUBSET BOOLEAN]
      BY <3>1, <3>2, SeesType
    <3> HIDE DEF o, r
    <3>4. replies' \in Seq(ReplySet)
      BY <2>0, <3>1, <3>2, RangeAppend
    <3> QED BY <3>1, <3>2, <3>3, <3>4 DEF TypeOK
  <2>6. CASE LoseRequest \/ Refuse
    <3>1. /\ Fault /\ requests # <<>> /\ requests' = Tail(requests)
          /\ replies' = replies \/ replies' = Append(replies, Exception)
          /\ UNCHANGED <<cell, had, astray>>
      BY <2>6 DEF LoseRequest, Refuse
    <3>2. /\ hurt' \in [Threads -> Nat] /\ faults' \in Nat
          /\ UNCHANGED <<op, tries, outcome, shared, calls, late, changes>>
      BY <3>1, FaultType
    <3>3. requests' \in Seq(OpSet)
      BY <3>1, OldestRequest
    <3>4. Append(replies, Exception) \in Seq(ReplySet)
      <4>1. Exception \in ReplySet
        BY DEF Exception, ReplySet
      <4> QED BY <2>0, <4>1, RangeAppend
    <3> QED BY <2>0, <3>1, <3>2, <3>3, <3>4 DEF TypeOK
  <2>7. CASE LoseReply
    <3> DEFINE o == Head(requests)
               r == Spoilt(Reply(o, cell[o.of]))
    <3>1. /\ Fault /\ requests # <<>> /\ requests' = Tail(requests)
          /\ cell' = Effect(o) /\ Sees(Effect(o))
          /\ replies' \in {replies, Append(replies, r), Append(replies, Debris)}
          /\ UNCHANGED astray \/ Stray
      BY <2>7 DEF LoseReply, Sees
    <3>2. /\ hurt' \in [Threads -> Nat] /\ faults' \in Nat
          /\ UNCHANGED <<op, tries, outcome, shared, calls, late, changes>>
      BY <3>1, FaultType
    <3>3. o \in OpSet /\ Tail(requests) \in Seq(OpSet) /\ Effect(o) \in [Cells -> BOOLEAN]
          /\ r \in ReplySet
      BY <3>1, OldestRequest, MessageTypes
    <3>4. had' \in [Threads -> SUBSET BOOLEAN]
      BY <3>1, <3>3, SeesType
    <3> HIDE DEF o, r
    <3>5. Append(replies, r) \in Seq(ReplySet) /\ Append(replies, Debris) \in Seq(ReplySet)
      <4>1. Debris \in ReplySet
        BY DEF Debris, ReplySet
      <4> QED BY <2>0, <3>3, <4>1, RangeAppend
    <3>6. astray' \in [Threads -> {"no", "since", "before"}]
      BY <3>1, StrayType DEF TypeOK
    <3>7. replies' \in Seq(ReplySet)
      BY <2>0, <3>1, <3>5
    <3> QED BY <3>1, <3>2, <3>3, <3>4, <3>6, <3>7 DEF TypeOK
  <2>8. ASSUME NEW s \in Signals, Change(s)
        PROVE  TypeOK'
    <3> DEFINE c == [cell EXCEPT ![s] = ~cell[s]]
    <3>1. /\ changes' = changes + 1 /\ cell' = c /\ Sees(c)
          /\ UNCHANGED <<op, tries, outcome, requests, replies, shared, hurt, astray, calls,
                         faults, late>>
      BY <2>8 DEF Change, Sees
    <3>2. c \in [Cells -> BOOLEAN]
      BY DEF TypeOK, Cells
    <3>3. had' \in [Threads -> SUBSET BOOLEAN]
      BY <3>1, <3>2, SeesType
    <3> HIDE DEF c
    <3> QED BY <3>1, <3>2, <3>3 DEF TypeOK
  <2>9. CASE UNCHANGED vars
    BY <2>9 DEF TypeOK, vars, histories
  <2> QED BY <2>1, <2>2, <2>3, <2>4, <2>5, <2>6, <2>7, <2>8, <2>9 DEF Next
<1> QED BY <1>1, <1>2, PTL DEF Spec

-----------------------------------------------------------------------------
(* What is on the line *)

\* A thread that found nothing on the line, and one to which nothing was late or of a wrong
\* length since.
Own(t)      == ~shared /\ astray[t] # "before"
Straight(t) == ~shared /\ astray[t] = "no"
Called(t) == tries[t] > 0 \/ outcome[t].how # "none"
Writes(t) == op[t].fc \notin Reading
Took(t)   == op[t].val \in had[t]

\* One thread at a time waits, and what is under way is its attempt.
SoloInv == ~shared => \A t, u \in Waiting : t = u
Light   == Len(requests) + Len(replies) <= 1 /\ Debris \notin Range(replies)
LoadInv ==
    /\ \A t \in Waiting : Straight(t) => Light
    /\ ~shared /\ Waiting = {} /\ (\A t \in Threads : astray[t] = "no")
         => requests = <<>> /\ replies = <<>>

\* A thread has seen the present value of its cell, and a write that nothing lost has
\* taken effect or is on its way.
SeenInv  == \A t \in Threads : Called(t) => cell[op[t].of] \in had[t]
WriteInv == \A t \in Threads :
               Called(t) /\ Writes(t) /\ faults = 0 => Took(t) \/ op[t] \in Range(requests)

\* What is on the line is the waiting thread's: its request or an answer to it.
Expects(t) ==
    /\ Range(requests) \subseteq {op[t]}
    /\ \A r \in Range(replies) :
          Accepts(op[t], r) => IF op[t].fc \in Reading THEN r.val \in had[t] ELSE Took(t)
ExpectInv == \A t \in Waiting : Own(t) => Expects(t)

\* An attempt that can no longer succeed has had its fault.
Counts(t) ==
    /\ hurt[t] + 1 >= tries[t]
    /\ requests = <<>> /\ (\A r \in Range(replies) : ~Accepts(op[t], r)) => hurt[t] >= tries[t]
CountInv == \A t \in Waiting : Straight(t) => Counts(t)

TookInv == \A t \in Threads : Ended(t) /\ Writes(t) => Took(t) \/ ~Own(t)

LinkInv ==
    /\ SoloInv /\ LoadInv /\ SeenInv /\ WriteInv /\ ExpectInv /\ CountInv
    /\ ReadIsOwn /\ TookInv /\ FailsOnlyAfterFaults

\* The fields of what an operation came to.
LEMMA OutcomeFields ==
    /\ None.how = "none" /\ Failed.how = "failed"
    /\ \A v : Done(v).how = "done" /\ Done(v).val = v
BY DEF None, Failed, Done

\* One waiting thread is all there are.
LEMMA OneWaits ==
    ASSUME LinkInv, ~shared, NEW t \in Threads, tries[t] > 0
    PROVE  Waiting = {t}
BY DEF LinkInv, SoloInv, Waiting

\* What goes astray during a call leaves a thread that found the line empty its own replies.
LEMMA StrayKeeps ==
    ASSUME UNCHANGED shared,
           NEW t, \/ astray'[t] = astray[t]
                  \/ astray[t] = "no" /\ astray'[t] = "since"
    PROVE  (Own(t)' <=> Own(t)) /\ (Straight(t)' => Straight(t))
BY DEF Own, Straight

\* An attempt that failed, once what it has read is off the line: repeated or given up.
LEMMA RetryKeeps ==
    ASSUME TypeOK, TypeOK', LinkInv, NEW t \in Threads, tries[t] > 0, Retry(t),
           UNCHANGED <<op, cell, had, shared, hurt, faults>>,
           \A v \in Threads : \/ astray'[v] = astray[v]
                              \/ astray[v] = "no" /\ astray'[v] = "since",
           Range(replies') \subseteq Range(replies) \cup {Debris},
           Straight(t)' => requests = <<>> /\ replies' = <<>> /\ hurt[t] >= tries[t]
    PROVE  LinkInv'
<1>1. /\ tries \in [Threads -> 0..OPLOOPS] /\ outcome \in [Threads -> Outcomes]
      /\ requests \in Seq(OpSet) /\ replies' \in Seq(ReplySet)
      /\ tries[t] \in Nat /\ op[t] \in OpSet /\ hurt[t] \in Nat /\ Attempts(op[t]) \in Nat
  <2>1. /\ tries \in [Threads -> 0..OPLOOPS] /\ outcome \in [Threads -> Outcomes]
        /\ requests \in Seq(OpSet) /\ replies' \in Seq(ReplySet)
    BY DEF TypeOK
  <2>2. /\ tries[t] \in Nat /\ op[t] \in OpSet /\ hurt[t] \in Nat
        /\ Attempts(op[t]) \in 1..OPLOOPS /\ OPLOOPS \in Nat
    BY AttemptTypes
  <2>3. Attempts(op[t]) \in Nat
    BY <2>2
  <2> QED BY <2>1, <2>2, <2>3
<1>2. \A v \in Threads : (Own(v)' <=> Own(v)) /\ (Straight(v)' => Straight(v))
  BY StrayKeeps
<1>3. /\ SoloInv /\ LoadInv /\ SeenInv /\ WriteInv /\ ExpectInv /\ CountInv
      /\ ReadIsOwn /\ TookInv /\ FailsOnlyAfterFaults
  BY DEF LinkInv
<1>4. ~shared => Waiting = {t}
  BY OneWaits
<1>5. \A r \in Range(replies') : r \in Range(replies) \/ ~Accepts(op[t], r)
  <2>1. ~Accepts(op[t], Debris)
    BY <1>1, WhatIsAccepted
  <2> QED BY <2>1
<1>6. Straight(t)' => Range(requests) = {} /\ Range(replies') = {} /\ Len(requests) = 0
                      /\ Len(replies') = 0
  BY <1>1, RangeEmpty
<1>7. CASE /\ tries[t] < Attempts(op[t]) /\ tries' = [tries EXCEPT ![t] = tries[t] + 1]
           /\ requests' = Append(requests, op[t]) /\ UNCHANGED outcome
  <2>1. /\ tries'[t] = tries[t] + 1
        /\ \A v \in Threads : (tries'[v] > 0 <=> tries[v] > 0) /\ (tries'[v] = 0 <=> tries[v] = 0)
    BY <1>1, <1>7
  <2>2. /\ Len(requests') = Len(requests) + 1
        /\ Range(requests') = Range(requests) \cup {op[t]}
    BY <1>1, <1>7, RangeAppend
  <2>3. Waiting' = Waiting /\ \A v \in Threads : Called(v)' = Called(v) /\ Ended(v)' = Ended(v)
    BY <1>7, <2>1 DEF Waiting, Called, Ended
  <2>4. SoloInv' /\ SeenInv'
    BY <1>3, <2>3 DEF SoloInv, SeenInv
  <2>5. LoadInv'
    <3>1. ~shared => Waiting' = {t}
      BY <1>4, <2>3
    <3>2. Straight(t)' => Light'
      BY <1>6, <2>2 DEF Light
    <3>3. \A v \in Waiting' : Straight(v)' => v = t
      BY <3>1 DEF Straight
    <3> QED BY <3>1, <3>2, <3>3 DEF LoadInv
  <2>6. WriteInv'
    BY <1>3, <2>2, <2>3 DEF WriteInv, Writes, Took
  <2>7. ExpectInv'
    <3> SUFFICES ASSUME Own(t)'
                 PROVE  Expects(t)'
      BY <1>4, <2>3 DEF ExpectInv, Own
    <3>1. Expects(t)
      BY <1>2, <1>3, <1>4 DEF ExpectInv, Own
    <3> QED BY <1>5, <2>2, <3>1 DEF Expects, Took
  <2>8. CountInv'
    <3> SUFFICES ASSUME Straight(t)'
                 PROVE  Counts(t)'
      BY <1>4, <2>3 DEF CountInv, Straight
    <3>1. requests' # <<>>
      BY <1>1, <1>7
    <3>2. hurt[t] + 1 >= tries[t] + 1
      BY <1>1
    <3> QED BY <2>1, <3>1, <3>2 DEF Counts
  <2>9. ReadIsOwn' /\ TookInv' /\ FailsOnlyAfterFaults'
    <3>1. \A v \in Threads : astray'[v] # "before" <=> astray[v] # "before"
      OBVIOUS
    <3>2. \A v \in Threads : astray'[v] = "no" => astray[v] = "no"
      OBVIOUS
    <3>3. ReadIsOwn' /\ FailsOnlyAfterFaults'
      BY <1>3, <1>7, <2>3, <3>1, <3>2 DEF ReadIsOwn, FailsOnlyAfterFaults
    <3>4. TookInv'
      BY <1>2, <1>3, <2>3 DEF TookInv, Writes, Took
    <3> QED BY <3>3, <3>4
  <2> QED BY <2>4, <2>5, <2>6, <2>7, <2>8, <2>9 DEF LinkInv
<1>8. CASE /\ tries[t] >= Attempts(op[t]) /\ tries' = [tries EXCEPT ![t] = 0]
           /\ outcome' = [outcome EXCEPT ![t] = Failed] /\ UNCHANGED requests
  <2>1. /\ tries'[t] = 0 /\ outcome'[t].how = "failed"
        /\ \A v \in Threads \ {t} : tries'[v] = tries[v] /\ outcome'[v] = outcome[v]
    BY <1>1, <1>8, OutcomeFields
  <2>2. Waiting' = Waiting \ {t}
    BY <2>1 DEF Waiting
  <2>3. /\ \A v \in Threads : Called(v)' => Called(v)
        /\ \A v \in Threads : Ended(v)' => v # t /\ Ended(v) /\ outcome'[v] = outcome[v]
    BY <1>8, <2>1 DEF Called, Ended
  <2>4. SoloInv' /\ SeenInv'
    BY <1>3, <2>2, <2>3 DEF SoloInv, SeenInv
  <2>5. ~shared => Waiting' = {}
    BY <1>4, <2>2
  <2>6. LoadInv'
    <3>1. ~shared /\ (\A v \in Threads : astray'[v] = "no") => requests = <<>> /\ replies' = <<>>
      BY DEF Straight
    <3> QED BY <1>8, <2>5, <3>1 DEF LoadInv, Straight
  <2>7. WriteInv'
    BY <1>3, <1>8, <2>3 DEF WriteInv, Writes, Took
  <2>8. ExpectInv' /\ CountInv'
    BY <2>5 DEF ExpectInv, CountInv, Own, Straight
  <2>9. ReadIsOwn' /\ TookInv'
    <3>1. ReadIsOwn'
      BY <1>3, <2>3 DEF ReadIsOwn
    <3>2. TookInv'
      BY <1>2, <1>3, <2>3 DEF TookInv, Writes, Took
    <3> QED BY <3>1, <3>2
  <2>10. FailsOnlyAfterFaults'
    <3> SUFFICES ASSUME NEW v \in Threads, outcome'[v].how = "failed", ~shared, astray'[v] = "no"
                 PROVE  hurt[v] >= Attempts(op[v])
      BY DEF FailsOnlyAfterFaults
    <3>1. CASE v = t
      BY <1>1, <1>8, <3>1 DEF Straight
    <3>2. CASE v # t
      BY <1>3, <2>1, <3>2 DEF FailsOnlyAfterFaults
    <3> QED BY <3>1, <3>2
  <2> QED BY <2>4, <2>6, <2>7, <2>8, <2>9, <2>10 DEF LinkInv
<1> QED BY <1>7, <1>8, RetryCases

\* A reply is read: the waiting thread's own, or the end of its attempt.
LEMMA ReceiveKeeps ==
    ASSUME TypeOK, TypeOK', LinkInv, NEW t \in Threads, Receive(t)
    PROVE  LinkInv'
<1>1. /\ tries[t] > 0 /\ replies # <<>>
      /\ Head(replies) # Debris => replies' = Tail(replies)
      /\ Range(replies') \subseteq Range(replies) \cup {Debris}
      /\ UNCHANGED <<op, cell, had, shared, hurt, astray, calls, faults, late, changes>>
  BY ReceiveCases DEF histories
<1>2. /\ Len(requests) \in Nat /\ (Len(requests) = 0 <=> requests = <<>>)
      /\ Len(replies) \in Nat /\ Len(replies) # 0
      /\ Len(replies') \in Nat /\ (Len(replies') = 0 <=> replies' = <<>>)
      /\ Head(replies) \in Range(replies)
      /\ Head(replies) # Debris => /\ Len(replies') = Len(replies) - 1
                                   /\ Range(replies) = {Head(replies)} \cup Range(replies')
      /\ Range(replies') = {} <=> replies' = <<>>
  <2>1. requests \in Seq(OpSet) /\ replies \in Seq(ReplySet) /\ replies' \in Seq(ReplySet)
    BY DEF TypeOK
  <2>2. /\ Len(requests) \in Nat /\ (Len(requests) = 0 <=> requests = <<>>)
        /\ Len(replies) \in Nat /\ Len(replies) # 0
        /\ Len(replies') \in Nat /\ (Len(replies') = 0 <=> replies' = <<>>)
        /\ Range(replies') = {} <=> replies' = <<>>
    BY <1>1, <2>1, RangeEmpty
  <2>3. /\ Len(Tail(replies)) = Len(replies) - 1
        /\ Range(replies) = {Head(replies)} \cup Range(Tail(replies))
    BY <1>1, <2>1, RangeTail
  <2> QED BY <1>1, <2>2, <2>3
<1>3. /\ SoloInv /\ LoadInv /\ SeenInv /\ WriteInv /\ ExpectInv /\ CountInv
      /\ ReadIsOwn /\ TookInv /\ FailsOnlyAfterFaults
  BY DEF LinkInv
<1>4. (~shared => Waiting = {t}) /\ t \in Waiting
  BY <1>1, OneWaits DEF Waiting
<1>5. Straight(t) => requests = <<>> /\ replies' = <<>> /\ Range(replies) = {Head(replies)}
  <2> SUFFICES ASSUME Straight(t)
               PROVE  requests = <<>> /\ replies' = <<>> /\ Range(replies) = {Head(replies)}
    OBVIOUS
  <2>1. Len(requests) + Len(replies) <= 1 /\ Debris \notin Range(replies)
    BY <1>3, <1>4 DEF LoadInv, Light
  <2>2. Head(replies) # Debris
    BY <1>2, <2>1
  <2>3. Len(requests) = 0 /\ Len(replies') = 0
    BY <1>2, <2>1, <2>2
  <2> QED BY <1>2, <2>2, <2>3
<1>6. Own(t) => Expects(t)
  BY <1>3, <1>4 DEF ExpectInv
<1>7. CASE ~Accepts(op[t], Head(replies)) /\ Retry(t)
  <2>1. Straight(t) => hurt[t] >= tries[t]
    BY <1>3, <1>4, <1>5, <1>7 DEF CountInv, Counts
  <2>2. Straight(t)' => requests = <<>> /\ replies' = <<>> /\ hurt[t] >= tries[t]
    BY <1>1, <1>5, <2>1 DEF Straight
  <2> QED BY <1>1, <1>7, <2>2, RetryKeeps
<1>8. CASE /\ Accepts(op[t], Head(replies)) /\ tries' = [tries EXCEPT ![t] = 0]
           /\ outcome' = [outcome EXCEPT ![t] =
                 Done(IF op[t].fc \in Reading THEN Head(replies).val ELSE op[t].val)]
           /\ UNCHANGED requests
  <2>1. /\ tries'[t] = 0 /\ outcome'[t].how = "done"
        /\ op[t].fc \in Reading => outcome'[t].val = Head(replies).val
        /\ \A v \in Threads \ {t} : tries'[v] = tries[v] /\ outcome'[v] = outcome[v]
    BY <1>8, OutcomeFields DEF TypeOK
  <2>2. Waiting' = Waiting \ {t} /\ (~shared => Waiting' = {})
    BY <1>4, <2>1 DEF Waiting
  <2>3. /\ \A v \in Threads : Called(v)' => Called(v)
        /\ \A v \in Threads : Ended(v)' => v = t \/ (Ended(v) /\ outcome'[v] = outcome[v])
    BY <1>1, <2>1 DEF Called, Ended
  <2>4. SoloInv' /\ SeenInv'
    BY <1>1, <1>3, <2>2, <2>3 DEF SoloInv, SeenInv
  <2>5. LoadInv'
    <3>1. ~shared /\ (\A v \in Threads : astray[v] = "no") => requests = <<>> /\ replies' = <<>>
      BY <1>5 DEF Straight
    <3> QED BY <1>1, <1>8, <2>2, <3>1 DEF LoadInv, Straight
  <2>6. WriteInv'
    BY <1>1, <1>3, <1>8, <2>3 DEF WriteInv, Writes, Took
  <2>7. ExpectInv' /\ CountInv'
    BY <1>1, <2>2 DEF ExpectInv, CountInv, Own, Straight
  <2>8. Own(t) => IF op[t].fc \in Reading THEN Head(replies).val \in had[t] ELSE Took(t)
    BY <1>2, <1>6, <1>8 DEF Expects
  <2>9. ReadIsOwn' /\ TookInv'
    <3>1. ReadIsOwn'
      BY <1>1, <1>3, <2>1, <2>3, <2>8 DEF ReadIsOwn, Own
    <3>2. TookInv'
      BY <1>1, <1>3, <2>1, <2>3, <2>8 DEF TookInv, Own, Writes, Took
    <3> QED BY <3>1, <3>2
  <2>10. FailsOnlyAfterFaults'
    BY <1>1, <1>3, <2>1 DEF FailsOnlyAfterFaults
  <2> QED BY <2>4, <2>5, <2>6, <2>7, <2>9, <2>10 DEF LinkInv
<1> QED BY <1>7, <1>8, ReceiveCases

\* Nothing came in time: nothing was on the line, or it is late, which is noted.
LEMMA TimeoutKeeps ==
    ASSUME TypeOK, TypeOK', LinkInv, NEW t \in Threads, Timeout(t)
    PROVE  LinkInv'
<1>1. /\ tries[t] > 0 /\ replies = <<>> /\ Retry(t)
      /\ UNCHANGED <<op, cell, replies, had, shared, hurt, faults>>
      /\ \/ requests = <<>> /\ UNCHANGED astray
         \/ Stray
  BY DEF Timeout, GivesUp
<1>2. t \in Waiting
  BY <1>1 DEF Waiting
<1>3. \A v \in Threads : \/ astray'[v] = astray[v]
                         \/ astray[v] = "no" /\ astray'[v] = "since"
  BY <1>1, StrayType
<1>4. ASSUME Straight(t)'
      PROVE  requests = <<>> /\ hurt[t] >= tries[t]
  <2>1. requests = <<>> /\ UNCHANGED astray
    BY <1>1, <1>2, <1>4, StrayType DEF Straight
  <2>2. Counts(t)
    BY <1>1, <1>2, <1>4, <2>1 DEF Straight, LinkInv, CountInv
  <2>3. Range(replies) = {}
    BY <1>1, RangeEmpty DEF TypeOK
  <2> QED BY <2>1, <2>2, <2>3 DEF Counts
<1>5. Range(replies') \subseteq Range(replies) \cup {Debris}
  BY <1>1
<1> QED BY <1>1, <1>3, <1>4, <1>5, RetryKeeps

\* Two threads that read at once have shared the line.
LEMMA SplitKeeps ==
    ASSUME TypeOK, TypeOK', LinkInv, NEW t \in Threads, NEW u \in Threads, Split(t, u)
    PROVE  LinkInv'
<1>1. /\ t # u /\ tries[t] > 0 /\ tries[u] > 0
      /\ UNCHANGED <<op, cell, had, shared, hurt, astray, calls, faults, late, changes>>
      /\ \A v \in Threads : tries'[v] > 0 => tries[v] > 0
      /\ \A v \in Threads : outcome'[v] = outcome[v] \/
                              (v \in {t, u} /\ outcome'[v] = Failed)
  BY SplitCases DEF histories
<1>2. shared
  BY <1>1, OneWaits
<1>3. \A v \in Threads : Called(v)' => Called(v)
  BY <1>1 DEF Called
<1>4. SeenInv'
  BY <1>1, <1>3 DEF LinkInv, SeenInv
<1>5. WriteInv'
  <2>1. PICK more \in Seq(OpSet) : requests' = requests \o more
    BY SplitCases
  <2>2. Range(requests) \subseteq Range(requests')
    <3>1. /\ requests \in Seq(OpSet) /\ Len(requests) \in Nat /\ Len(more) \in Nat
          /\ DOMAIN requests = 1..Len(requests)
          /\ requests' \in Seq(OpSet)
      BY LenProperties DEF TypeOK
    <3>2. /\ Len(requests') = Len(requests) + Len(more)
          /\ \A i \in 1..Len(requests) : requests'[i] = requests[i]
      BY <2>1, <3>1, ConcatProperties
    <3>3. DOMAIN requests' = 1..(Len(requests) + Len(more))
      BY <3>1, <3>2, LenProperties
    <3> QED BY <3>1, <3>2, <3>3 DEF Range
  <2> QED BY <1>1, <1>3, <2>2 DEF LinkInv, WriteInv, Writes, Took
<1>6. shared' /\ \A v \in Threads : ~Own(v)' /\ ~Straight(v)'
  BY <1>1, <1>2 DEF Own, Straight
<1>7. SoloInv' /\ ReadIsOwn' /\ FailsOnlyAfterFaults'
  BY <1>6 DEF SoloInv, ReadIsOwn, FailsOnlyAfterFaults
<1>8. LoadInv' /\ ExpectInv' /\ CountInv' /\ TookInv'
  BY <1>6 DEF LoadInv, ExpectInv, CountInv, TookInv, Waiting
<1> QED BY <1>4, <1>5, <1>7, <1>8 DEF LinkInv

\* A thread that finds the line unused and empty has it to itself; one that does not is
\* marked.
LEMMA CallKeeps ==
    ASSUME TypeOK, TypeOK', LinkInv, NEW t \in Threads, NEW o \in Ops(t), Call(t, o)
    PROVE  LinkInv'
<1>1. /\ o \in OpSet /\ tries[t] = 0
      /\ op' = [op EXCEPT ![t] = o] /\ tries' = [tries EXCEPT ![t] = 1]
      /\ outcome' = [outcome EXCEPT ![t] = None] /\ requests' = Append(requests, o)
      /\ had' = [had EXCEPT ![t] = {cell[o.of]}] /\ shared' = (shared \/ Waiting # {})
      /\ hurt' = [hurt EXCEPT ![t] = 0]
      /\ astray' = [astray EXCEPT
                      ![t] = IF requests = <<>> /\ replies = <<>> THEN "no" ELSE "before"]
      /\ UNCHANGED <<cell, replies, faults>>
  BY ModbusLinkAssumption DEF Call, Send
<1>2. /\ op'[t] = o /\ tries'[t] = 1 /\ outcome'[t].how = "none" /\ had'[t] = {cell[o.of]}
      /\ hurt'[t] = 0
      /\ astray'[t] = IF requests = <<>> /\ replies = <<>> THEN "no" ELSE "before"
      /\ \A v \in Threads \ {t} : /\ op'[v] = op[v] /\ tries'[v] = tries[v]
                                  /\ outcome'[v] = outcome[v] /\ had'[v] = had[v]
                                  /\ hurt'[v] = hurt[v] /\ astray'[v] = astray[v]
  BY <1>1, OutcomeFields DEF TypeOK
<1>3. /\ Len(requests') = Len(requests) + 1 /\ Range(requests') = Range(requests) \cup {o}
      /\ requests' # <<>>
      /\ requests = <<>> => Len(requests) = 0 /\ Range(requests) = {}
      /\ replies = <<>> => Len(replies) = 0 /\ Range(replies) = {}
  <2>1. requests \in Seq(OpSet) /\ replies \in Seq(ReplySet) /\ requests' \in Seq(OpSet)
    BY DEF TypeOK
  <2>2. Len(requests) \in Nat /\ Len(requests') = Len(requests) + 1
        /\ Range(requests') = Range(requests) \cup {o}
    BY <1>1, <2>1, RangeAppend, RangeEmpty
  <2>3. requests' # <<>>
    <3>1. Len(requests') # 0
      BY <2>2
    <3> QED BY <2>1, <3>1, RangeEmpty
  <2> QED BY <2>1, <2>2, <2>3, RangeEmpty
<1>4. /\ SoloInv /\ LoadInv /\ SeenInv /\ WriteInv /\ ExpectInv /\ CountInv
      /\ ReadIsOwn /\ TookInv /\ FailsOnlyAfterFaults
  BY DEF LinkInv
<1>5. Waiting' = Waiting \cup {t}
  BY <1>2 DEF Waiting
<1>6. ~shared' => ~shared /\ Waiting = {} /\ Waiting' = {t}
  BY <1>1, <1>5
<1>7. Own(t)' => requests = <<>> /\ replies = <<>> /\ ~shared'
  BY <1>2 DEF Own
<1>8. ASSUME NEW v \in Threads \ {t}
      PROVE  /\ Called(v)' = Called(v) /\ Ended(v)' = Ended(v)
             /\ Writes(v)' = Writes(v) /\ Took(v)' = Took(v)
             /\ Own(v)' => Own(v)
  BY <1>2, <1>6 DEF Called, Ended, Writes, Took, Own
<1>9. ~Ended(t)' /\ outcome'[t].how # "failed"
  BY <1>2 DEF Ended
<1>10. \A v \in Waiting' : (Own(v)' => v = t) /\ (Straight(v)' => v = t /\ Own(t)')
  BY <1>6 DEF Own, Straight
<1>11. SoloInv'
  BY <1>6 DEF SoloInv
<1>12. LoadInv'
  <2>1. Own(t)' => Light'
    BY <1>1, <1>3, <1>7 DEF Light
  <2> QED BY <1>5, <1>10, <2>1 DEF LoadInv
<1>13. SeenInv'
  BY <1>1, <1>2, <1>4, <1>8 DEF SeenInv
<1>14. WriteInv'
  BY <1>1, <1>2, <1>3, <1>4, <1>8 DEF WriteInv
<1>15. ExpectInv' /\ CountInv'
  <2>1. Own(t)' => Expects(t)'
    BY <1>1, <1>2, <1>3, <1>7 DEF Expects
  <2>2. Counts(t)'
    BY <1>2, <1>3 DEF Counts
  <2> QED BY <1>10, <2>1, <2>2 DEF ExpectInv, CountInv
<1>16. ReadIsOwn' /\ TookInv'
  <2>1. ReadIsOwn'
    BY <1>2, <1>4, <1>6, <1>8, <1>9 DEF ReadIsOwn
  <2>2. TookInv'
    BY <1>4, <1>8, <1>9 DEF TookInv
  <2> QED BY <2>1, <2>2
<1>17. FailsOnlyAfterFaults'
  BY <1>2, <1>4, <1>6, <1>9 DEF FailsOnlyAfterFaults
<1> QED BY <1>11, <1>12, <1>13, <1>14, <1>15, <1>16, <1>17 DEF LinkInv

\* What the line and the amplifier do: the threads' operations stay, what they have seen
\* and suffered only grows.
LEMMA LineKeeps ==
    ASSUME TypeOK, TypeOK', LinkInv,
           UNCHANGED <<op, tries, outcome, shared>>,
           faults' = 0 => faults = 0,
           \A t \in Threads : \/ astray'[t] = astray[t]
                              \/ astray[t] = "no" /\ astray'[t] = "since",
           requests = <<>> => UNCHANGED <<requests, replies>>,
           \A t \in Threads : had[t] \subseteq had'[t] /\ hurt'[t] >= hurt[t],
           \A t \in Threads : Called(t) => cell'[op[t].of] \in had'[t],
           \A t \in Threads : op[t] \in Range(requests) /\ Writes(t) /\ faults' = 0
                                => op[t].val \in had'[t] \/ op[t] \in Range(requests'),
           \A t \in Waiting : Expects(t) => Expects(t)',
           \A t \in Waiting : Straight(t)' /\ Light /\ Counts(t) /\ Expects(t)
                                => Light' /\ Counts(t)'
    PROVE  LinkInv'
<1>1. /\ SoloInv /\ LoadInv /\ SeenInv /\ WriteInv /\ ExpectInv /\ CountInv
      /\ ReadIsOwn /\ TookInv /\ FailsOnlyAfterFaults
  BY DEF LinkInv
<1>2. Waiting' = Waiting /\ Waiting \subseteq Threads
  BY DEF Waiting
<1>3. \A t \in Threads : (Own(t)' <=> Own(t)) /\ (Straight(t)' => Straight(t) /\ Own(t))
  BY StrayKeeps DEF Own, Straight
<1>4. \A t \in Threads : /\ Called(t)' = Called(t) /\ Ended(t)' = Ended(t)
                         /\ Writes(t)' = Writes(t) /\ (Took(t) => Took(t)')
  BY DEF Called, Ended, Writes, Took
<1>5. SoloInv' /\ SeenInv'
  BY <1>1, <1>2, <1>4 DEF SoloInv, SeenInv
<1>6. \A t \in Waiting : Straight(t)' => Light' /\ Counts(t)'
  BY <1>1, <1>2, <1>3 DEF LoadInv, CountInv, ExpectInv
<1>7. LoadInv' /\ CountInv'
  <2>1. ~shared /\ Waiting = {} /\ (\A t \in Threads : astray'[t] = "no")
          => requests' = <<>> /\ replies' = <<>>
    BY <1>1 DEF LoadInv
  <2> QED BY <1>2, <1>6, <2>1 DEF LoadInv, CountInv
<1>8. WriteInv'
  BY <1>1, <1>4 DEF WriteInv, Took
<1>9. ExpectInv'
  BY <1>1, <1>2, <1>3 DEF ExpectInv
<1>10. ReadIsOwn'
  <2>1. \A t \in Threads : astray'[t] # "before" <=> astray[t] # "before"
    OBVIOUS
  <2> QED BY <1>1, <1>4, <2>1 DEF ReadIsOwn
<1>11. TookInv'
  BY <1>1, <1>3, <1>4 DEF TookInv
<1>12. FailsOnlyAfterFaults'
  <2> SUFFICES ASSUME NEW t \in Threads, outcome[t].how = "failed", ~shared, astray'[t] = "no"
               PROVE  hurt'[t] >= Attempts(op[t])
    BY DEF FailsOnlyAfterFaults
  <2>1. hurt[t] >= Attempts(op[t]) /\ hurt'[t] >= hurt[t]
    BY <1>1 DEF FailsOnlyAfterFaults
  <2>2. hurt[t] \in Nat /\ hurt'[t] \in Nat
    BY DEF TypeOK
  <2>3. Attempts(op[t]) \in Nat
    <3>1. Attempts(op[t]) \in 1..OPLOOPS /\ OPLOOPS \in Nat
      BY AttemptTypes
    <3> QED BY <3>1
  <2> QED BY <2>1, <2>2, <2>3
<1> QED BY <1>5, <1>7, <1>8, <1>9, <1>10, <1>11, <1>12 DEF LinkInv

\* A fault leaves nothing the waiting thread could accept, and is counted.
LEMMA FaultExpects ==
    ASSUME TypeOK, NEW t \in Threads, Expects(t), Fault,
           Range(requests') \subseteq Range(requests),
           \A r \in Range(replies') : r \in Range(replies) \/ ~Accepts(op[t], r),
           had[t] \subseteq had'[t]
    PROVE  Expects(t)' /\ (Counts(t) => Counts(t)')
<1>1. hurt'[t] = hurt[t] + 1 /\ UNCHANGED <<op, tries>> /\ hurt[t] \in Nat /\ tries[t] \in Nat
  BY FaultType, AttemptTypes
<1>2. Expects(t)'
  <2>1. Range(requests') \subseteq {op[t]}
    BY DEF Expects
  <2>2. \A r \in Range(replies') :
           Accepts(op[t], r) => IF op[t].fc \in Reading THEN r.val \in had'[t]
                                                        ELSE op[t].val \in had'[t]
    BY DEF Expects, Took
  <2> QED BY <1>1, <2>1, <2>2 DEF Expects, Took
<1>3. ASSUME Counts(t)
      PROVE  Counts(t)'
  <2>1. hurt[t] + 1 >= tries[t]
    BY <1>3 DEF Counts
  <2>2. hurt'[t] >= tries[t] /\ hurt'[t] + 1 >= tries[t]
    BY <1>1, <2>1
  <2> QED BY <1>1, <2>2 DEF Counts
<1> QED BY <1>2, <1>3

\* The amplifier answers: whoever asked has seen the value it answers with.
LEMMA AnswerKeeps ==
    ASSUME TypeOK, TypeOK', LinkInv, Answer
    PROVE  LinkInv'
<1> DEFINE o == Head(requests)
           r == Reply(o, cell[o.of])
           c == Effect(o)
<1>1. /\ requests # <<>> /\ cell' = c /\ Sees(c)
      /\ replies' = Append(replies, r) /\ requests' = Tail(requests)
      /\ UNCHANGED <<op, tries, outcome, shared, hurt, astray, calls, faults, late, changes>>
  BY DEF Answer, Sees
<1>2. /\ o \in OpSet /\ c \in [Cells -> BOOLEAN] /\ r \in ReplySet
      /\ Accepts(o, r) /\ r.val = cell[o.of] /\ r # Debris
      /\ o.fc \notin Reading => c[o.of] = o.val
  BY <1>1, OldestRequest, MessageTypes, WhatIsAccepted, EffectType
<1>3. \A t \in Threads : had'[t] = had[t] \cup {c[op[t].of]}
  BY <1>1, <1>2, SeesType
<1> HIDE DEF o, r, c
<1>4. /\ Range(requests) = {o} \cup Range(requests') /\ Len(requests') = Len(requests) - 1
      /\ Range(replies') = Range(replies) \cup {r} /\ Len(replies') = Len(replies) + 1
      /\ Len(requests) \in Nat /\ Len(replies) \in Nat
  <2>1. requests \in Seq(OpSet) /\ replies \in Seq(ReplySet)
    BY DEF TypeOK
  <2> QED BY <1>1, <1>2, <2>1, RangeTail, RangeAppend, RangeEmpty DEF o
<1>5. \A t \in Threads : op[t] \in Range(requests) /\ Writes(t)
                           => op[t].val \in had'[t] \/ op[t] \in Range(requests')
  BY <1>2, <1>3, <1>4 DEF Writes
<1>6. ASSUME NEW t \in Waiting, Expects(t)
      PROVE  /\ Expects(t)'
             /\ Light /\ Counts(t) => Light' /\ Counts(t)'
  <2>1. o = op[t] /\ Range(requests') \subseteq {op[t]} /\ t \in Threads /\ Called(t)
    BY <1>4, <1>6 DEF Expects, Waiting, Called
  <2>2. cell[o.of] \in had[t]
    BY <2>1 DEF LinkInv, SeenInv
  <2>3. \A x \in Range(replies') :
           Accepts(op[t], x) => IF op[t].fc \in Reading THEN x.val \in had'[t]
                                                        ELSE op[t].val \in had'[t]
    <3>1. IF op[t].fc \in Reading THEN r.val \in had'[t] ELSE op[t].val \in had'[t]
      BY <1>2, <1>3, <2>1, <2>2
    <3>2. \A x \in Range(replies) :
             Accepts(op[t], x) => IF op[t].fc \in Reading THEN x.val \in had'[t]
                                                          ELSE op[t].val \in had'[t]
      BY <1>3, <1>6, <2>1 DEF Expects, Took
    <3> QED BY <1>4, <3>1, <3>2
  <2>4. Accepts(op[t], r) /\ r \in Range(replies')
    BY <1>2, <1>4, <2>1
  <2>5. UNCHANGED <<op[t], tries[t], hurt[t]>>
    BY <1>1
  <2>6. Expects(t)'
    BY <2>1, <2>3, <2>5 DEF Expects, Took
  <2>7. Counts(t) => Counts(t)'
    BY <2>4, <2>5 DEF Counts
  <2>8. Light => Light'
    BY <1>2, <1>4 DEF Light
  <2> QED BY <2>6, <2>7, <2>8
<1>7. \A t \in Threads : had[t] \subseteq had'[t] /\ hurt'[t] >= hurt[t]
                         /\ cell'[op[t].of] \in had'[t]
  BY <1>1, <1>3, AttemptTypes
<1> QED BY <1>1, <1>5, <1>6, <1>7, LineKeeps

\* A request lost, or refused with an exception.
LEMMA RequestLostKeeps ==
    ASSUME TypeOK, TypeOK', LinkInv, LoseRequest \/ Refuse
    PROVE  LinkInv'
<1>1. /\ Fault /\ requests # <<>> /\ requests' = Tail(requests) /\ UNCHANGED <<cell, had, astray>>
      /\ replies' = replies \/ replies' = Append(replies, Exception)
  BY DEF LoseRequest, Refuse
<1>2. /\ faults' # 0 /\ UNCHANGED <<op, tries, outcome, shared>>
      /\ \A t \in Threads : hurt'[t] = hurt[t] + 1 /\ hurt[t] \in Nat
  BY <1>1, FaultType DEF TypeOK
<1>3. /\ Range(requests') \subseteq Range(requests) /\ Len(requests') = Len(requests) - 1
      /\ Range(replies') \subseteq Range(replies) \cup {Exception}
      /\ Len(replies') <= Len(replies) + 1
      /\ Len(requests) \in Nat /\ Len(replies) \in Nat /\ Len(replies') \in Nat
  <2>1. /\ requests \in Seq(OpSet) /\ replies \in Seq(ReplySet) /\ Exception \in ReplySet
        /\ replies' \in Seq(ReplySet)
    BY DEF TypeOK, Exception, ReplySet
  <2>2. CASE replies' = replies
    BY <1>1, <2>1, <2>2, RangeTail, RangeEmpty
  <2>3. CASE replies' = Append(replies, Exception)
    BY <1>1, <2>1, <2>3, RangeTail, RangeAppend, RangeEmpty
  <2> QED BY <1>1, <2>2, <2>3
<1>4. ASSUME NEW t \in Waiting, Expects(t)
      PROVE  Expects(t)' /\ (Counts(t) => Counts(t)')
  <2>1. t \in Threads /\ op[t] \in OpSet
    BY DEF Waiting, TypeOK
  <2>2. ~Accepts(op[t], Exception)
    BY <2>1, WhatIsAccepted
  <2> QED BY <1>1, <1>3, <1>4, <2>1, <2>2, FaultExpects
<1>5. Light => Light'
  <2>1. Debris # Exception
    BY DEF Debris, Exception
  <2> QED BY <1>3, <2>1 DEF Light
<1>6. \A t \in Threads : Called(t) => cell'[op[t].of] \in had'[t]
  BY <1>1 DEF LinkInv, SeenInv
<1>7. \A t \in Threads : had[t] \subseteq had'[t] /\ hurt'[t] >= hurt[t]
  BY <1>1, <1>2
<1> QED BY <1>1, <1>2, <1>4, <1>5, <1>6, <1>7, LineKeeps

\* A reply lost or spoilt, after the request was carried out.
LEMMA ReplyLostKeeps ==
    ASSUME TypeOK, TypeOK', LinkInv, LoseReply
    PROVE  LinkInv'
<1> DEFINE o == Head(requests)
           r == Spoilt(Reply(o, cell[o.of]))
           c == Effect(o)
<1>1. /\ Fault /\ requests # <<>> /\ requests' = Tail(requests)
      /\ cell' = c /\ Sees(c)
      /\ \/ replies' \in {replies, Append(replies, r)} /\ UNCHANGED astray
         \/ replies' = Append(replies, Debris) /\ Stray
  BY DEF LoseReply, Sees
<1>2. /\ faults' # 0 /\ UNCHANGED <<op, tries, outcome, shared>>
      /\ \A t \in Threads : hurt'[t] = hurt[t] + 1 /\ hurt[t] \in Nat
  BY <1>1, FaultType DEF TypeOK
<1>3. /\ o \in OpSet /\ c \in [Cells -> BOOLEAN] /\ r \in ReplySet /\ ~Accepts(o, r)
      /\ r # Debris /\ Debris \in ReplySet
  BY <1>1, OldestRequest, MessageTypes, WhatIsAccepted
<1>4. \A t \in Threads : had'[t] = had[t] \cup {c[op[t].of]}
  BY <1>1, <1>3, SeesType
<1> HIDE DEF o, r, c
<1>5. /\ Range(requests) = {o} \cup Range(requests') /\ Len(requests') = Len(requests) - 1
      /\ Range(replies') \subseteq Range(replies) \cup {r, Debris}
      /\ Range(replies') \subseteq Range(replies) \cup {r} \/ Stray
      /\ Len(replies') <= Len(replies) + 1
      /\ Len(requests) \in Nat /\ Len(replies) \in Nat /\ Len(replies') \in Nat
  <2>1. /\ requests \in Seq(OpSet) /\ replies \in Seq(ReplySet) /\ replies' \in Seq(ReplySet)
    BY DEF TypeOK
  <2>2. Range(requests) = {o} \cup Range(requests') /\ Len(requests') = Len(requests) - 1
        /\ Len(requests) \in Nat /\ Len(replies) \in Nat /\ Len(replies') \in Nat
    BY <1>1, <2>1, RangeTail, RangeEmpty DEF o
  <2>3. CASE replies' = replies
    BY <2>2, <2>3
  <2>4. CASE replies' = Append(replies, r)
    BY <1>3, <2>1, <2>2, <2>4, RangeAppend
  <2>5. CASE replies' = Append(replies, Debris) /\ Stray
    BY <1>3, <2>1, <2>2, <2>5, RangeAppend
  <2> QED BY <1>1, <2>3, <2>4, <2>5
<1>6. \A t \in Threads : \/ astray'[t] = astray[t]
                         \/ astray[t] = "no" /\ astray'[t] = "since"
  BY <1>1, StrayType
<1>7. ASSUME NEW t \in Waiting, Expects(t)
      PROVE  Expects(t)' /\ (Counts(t) => Counts(t)')
  <2>1. t \in Threads /\ o = op[t]
    BY <1>5, <1>7 DEF Waiting, Expects
  <2>2. ~Accepts(op[t], Debris)
    BY <1>3, <2>1, WhatIsAccepted
  <2>3. \A x \in Range(replies') : x \in Range(replies) \/ ~Accepts(op[t], x)
    BY <1>3, <1>5, <2>1, <2>2
  <2>4. Range(requests') \subseteq Range(requests) /\ had[t] \subseteq had'[t]
    BY <1>4, <1>5, <2>1
  <2> QED BY <1>1, <1>7, <2>1, <2>3, <2>4, FaultExpects
<1>8. ASSUME NEW t \in Waiting, Straight(t)', Light
      PROVE  Light'
  <2>1. ~Stray
    BY <1>8, StrayType DEF Straight
  <2>2. Range(replies') \subseteq Range(replies) \cup {r}
    BY <1>1, <1>5, <2>1
  <2> QED BY <1>3, <1>5, <1>8, <2>2 DEF Light
<1>9. \A t \in Threads : had[t] \subseteq had'[t] /\ hurt'[t] >= hurt[t]
                         /\ cell'[op[t].of] \in had'[t]
  BY <1>1, <1>2, <1>4
<1> QED BY <1>1, <1>2, <1>6, <1>7, <1>8, <1>9, LineKeeps

\* A bit of the amplifier changes by itself.
LEMMA ChangeKeeps ==
    ASSUME TypeOK, TypeOK', LinkInv, NEW s \in Signals, Change(s)
    PROVE  LinkInv'
<1> DEFINE c == [cell EXCEPT ![s] = ~cell[s]]
<1>1. /\ cell' = c /\ Sees(c)
      /\ UNCHANGED <<op, tries, outcome, requests, replies, shared, hurt, astray, faults>>
  BY DEF Change, Sees
<1>2. c \in [Cells -> BOOLEAN]
  BY DEF TypeOK, Cells
<1>3. \A t \in Threads : had'[t] = had[t] \cup {c[op[t].of]}
  BY <1>1, <1>2, SeesType
<1> HIDE DEF c
<1>4. \A t \in Threads : had[t] \subseteq had'[t] /\ hurt'[t] >= hurt[t]
                         /\ cell'[op[t].of] \in had'[t]
  BY <1>1, <1>3, AttemptTypes
<1>5. ASSUME NEW t \in Waiting, Expects(t)
      PROVE  Expects(t)'
  <2>1. had[t] \subseteq had'[t]
    BY <1>4 DEF Waiting
  <2> QED BY <1>1, <1>5, <2>1 DEF Expects, Took
<1>6. \A t \in Waiting : Light /\ Counts(t) => Light' /\ Counts(t)'
  BY <1>1 DEF Light, Counts
<1> QED BY <1>1, <1>4, <1>5, <1>6, LineKeeps

-----------------------------------------------------------------------------
(* The theorems *)

\* The line holds what the waiting thread put there, and answers it with its own cell.
LEMMA LinkHolds == Spec => []LinkInv
<1>1. Init => LinkInv
  <2> SUFFICES ASSUME Init PROVE LinkInv
    OBVIOUS
  <2>1. \A t \in Threads : tries[t] = 0 /\ outcome[t].how = "none"
    BY OutcomeFields DEF Init
  <2>2. Waiting = {} /\ \A t \in Threads : ~Called(t) /\ ~Ended(t)
    BY <2>1 DEF Waiting, Called, Ended
  <2>3. requests = <<>> /\ replies = <<>>
    BY DEF Init
  <2>4. SoloInv /\ SeenInv /\ WriteInv /\ ExpectInv /\ CountInv
    BY <2>2 DEF SoloInv, SeenInv, WriteInv, ExpectInv, CountInv
  <2>5. LoadInv
    BY <2>2, <2>3 DEF LoadInv
  <2>6. ReadIsOwn /\ TookInv /\ FailsOnlyAfterFaults
    BY <2>1, <2>2 DEF ReadIsOwn, TookInv, FailsOnlyAfterFaults
  <2> QED BY <2>4, <2>5, <2>6 DEF LinkInv
<1>2. TypeOK /\ TypeOK' /\ LinkInv /\ [Next]_vars => LinkInv'
  <2> SUFFICES ASSUME TypeOK, TypeOK', LinkInv, [Next]_vars PROVE LinkInv'
    OBVIOUS
  <2>1. ASSUME NEW t \in Threads, NEW o \in Ops(t), Call(t, o) PROVE LinkInv'
    BY <2>1, CallKeeps
  <2>2. ASSUME NEW t \in Threads, Receive(t) PROVE LinkInv'
    BY <2>2, ReceiveKeeps
  <2>3. ASSUME NEW t \in Threads, Timeout(t) PROVE LinkInv'
    BY <2>3, TimeoutKeeps
  <2>4. ASSUME NEW t \in Threads, NEW u \in Threads, Split(t, u) PROVE LinkInv'
    BY <2>4, SplitKeeps
  <2>5. CASE Answer
    BY <2>5, AnswerKeeps
  <2>6. CASE LoseRequest \/ Refuse
    BY <2>6, RequestLostKeeps
  <2>7. CASE LoseReply
    BY <2>7, ReplyLostKeeps
  <2>8. ASSUME NEW s \in Signals, Change(s) PROVE LinkInv'
    BY <2>8, ChangeKeeps
  <2>9. CASE UNCHANGED vars
    <3>1. UNCHANGED <<op, tries, outcome, cell, requests, replies, had, shared, hurt, astray, faults>>
      BY <2>9 DEF vars, histories
    <3>2. /\ UNCHANGED <<SoloInv, LoadInv, SeenInv, WriteInv, TookInv>>
      BY <3>1 DEF SoloInv, LoadInv, Light, SeenInv, WriteInv, TookInv, Own, Straight, Waiting,
         Called, Writes, Took, Ended
    <3>3. ExpectInv'
      BY <3>1 DEF LinkInv, ExpectInv, Expects, Own, Waiting, Took
    <3>4. CountInv'
      BY <3>1 DEF LinkInv, CountInv, Counts, Straight, Waiting
    <3>5. ReadIsOwn' /\ FailsOnlyAfterFaults'
      BY <3>1 DEF LinkInv, ReadIsOwn, FailsOnlyAfterFaults, Ended
    <3> QED BY <3>2, <3>3, <3>4, <3>5 DEF LinkInv
  <2> QED BY <2>1, <2>2, <2>3, <2>4, <2>5, <2>6, <2>7, <2>8, <2>9 DEF Next
<1> QED BY <1>1, <1>2, LinkTypes, PTL DEF Spec

\* An operation leaves nothing on the line for the next one, but after a late reply or one
\* of a wrong length.
THEOREM LineLeftEmpty == Spec => []NothingLeftBehind
<1>1. TypeOK /\ LinkInv => NothingLeftBehind
  <2> SUFFICES ASSUME TypeOK, LinkInv, ~shared, \A t \in Threads : astray[t] = "no"
               PROVE  Len(requests) + Len(replies) <= Cardinality(Waiting)
    BY DEF NothingLeftBehind
  <2>1. IsFiniteSet(Waiting)
    BY ModbusLinkAssumption, FS_Subset DEF Waiting
  <2>2. Cardinality(Waiting) \in Nat /\ (Cardinality(Waiting) = 0 <=> Waiting = {})
    BY <2>1, FS_CardinalityType, FS_EmptySet
  <2>3. CASE Waiting = {}
    <3>1. requests = <<>> /\ replies = <<>>
      BY <2>3 DEF LinkInv, LoadInv
    <3> QED BY <2>2, <2>3, <3>1
  <2>4. CASE Waiting # {}
    <3>1. Len(requests) + Len(replies) <= 1
      BY <2>4 DEF LinkInv, LoadInv, Light, Straight, Waiting
    <3>2. Len(requests) \in Nat /\ Len(replies) \in Nat
      BY RangeEmpty DEF TypeOK
    <3> HIDE DEF Waiting
    <3> QED BY <2>2, <2>4, <3>1, <3>2
  <2> QED BY <2>3, <2>4
<1> QED BY <1>1, LinkTypes, LinkHolds, PTL

\* A read that found the line empty is answered with a value of its own bit or register.
THEOREM ReadsAreOwn == Spec => []ReadIsOwn
<1>1. LinkInv => ReadIsOwn
  BY DEF LinkInv
<1> QED BY <1>1, LinkHolds, PTL

\* A write reported as done is in the amplifier, or, if the line was not empty or is shared,
\* still on its way.
THEOREM WritesTakeEffect == Spec => []WriteTookEffect
<1>1. LinkInv => WriteTookEffect
  <2> SUFFICES ASSUME LinkInv, NEW t \in Threads, Ended(t), Writes(t), ~Took(t)
               PROVE  /\ shared \/ astray[t] = "before"
                      /\ faults = 0 => op[t] \in Range(requests)
    BY DEF WriteTookEffect, Writes, Took
  <2>1. shared \/ astray[t] = "before"
    BY DEF LinkInv, TookInv, Own
  <2>2. Called(t)
    BY DEF Ended, Called
  <2>3. faults = 0 => op[t] \in Range(requests)
    BY <2>2 DEF LinkInv, WriteInv
  <2> QED BY <2>1, <2>3
<1> QED BY <1>1, LinkHolds, PTL

\* An operation fails after as many faults as it has attempts, or after a reply that was late
\* or of a wrong length.
THEOREM FailuresAreFaults == Spec => []FailsOnlyAfterFaults
<1>1. LinkInv => FailsOnlyAfterFaults
  BY DEF LinkInv
<1> QED BY <1>1, LinkHolds, PTL

=============================================================================
