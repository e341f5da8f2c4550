--------------------------- MODULE MonitorsProofs ---------------------------
(* The terminal's socket and the words of the page, for all bounds. *)
EXTENDS Monitors, SequenceTheorems, TLAPS

-----------------------------------------------------------------------------
(* The terminal's socket *)

\* The global is the socket made last, and while that one is not bound to MY_PORT some
\* thread is still to bind it.
SocketInv ==
    /\ pc \in [Threads -> {"idle", "check", "socket", "bind", "send", "receive"}]
    /\ port \in Seq({"none", "auto", "own"}) /\ sock = Len(port)
    /\ sock # 0 => port[sock] = "own" \/ \E t \in Threads : pc[t] = "bind"
    /\ \A t \in Threads : pc[t] \in {"send", "receive", "bind"} => sock # 0
    /\ pc["recv"] # "send" /\ (~Running => sock = 0)

\* The end of the terminal takes its socket with it.
LEMMA EndsKeeps ==
    ASSUME NEW how, Ends(how) PROVE SocketInv'
BY DEF Ends, SocketInv, NoThreads, Threads, Running

\* The three steps of init_sock, by whichever thread.
LEMMA InitSockKeeps ==
    ASSUME SocketInv, NEW t \in Threads, InitSock(t) PROVE SocketInv'
<1> USE DEF SocketInv, Goes, Threads, Running
<1>1. CASE CheckSock(t)
  BY <1>1 DEF CheckSock, AfterInit
<1>2. CASE MakeSocket(t)
  <2>1. /\ port' \in Seq({"none", "auto", "own"}) /\ Len(port') = Len(port) + 1
        /\ sock' = Len(port') /\ sock' # 0
    BY <1>2 DEF MakeSocket
  <2>2. pc'[t] = "bind" /\ pc' \in [Threads -> {"idle", "check", "socket", "bind", "send", "receive"}]
    BY <1>2 DEF MakeSocket
  <2>. QED
    BY <1>2, <2>1, <2>2 DEF MakeSocket
<1>3. CASE BindSocket(t)
  <2>1. CASE Refused(t)
    BY <2>1, EndsKeeps DEF Refused
  <2>2. CASE /\ MayBind /\ port' = [port EXCEPT ![sock] = "own"] /\ Goes(t, AfterInit(t))
             /\ UNCHANGED <<term, sock>>
    <3>1. sock \in 1..Len(port) /\ Running
      BY <1>3 DEF BindSocket
    <3>2. /\ port' \in Seq({"none", "auto", "own"}) /\ Len(port') = Len(port)
          /\ port'[sock'] = "own"
      BY <2>2, <3>1
    <3>. QED
      BY <2>2, <3>1, <3>2 DEF AfterInit
  <2>. QED
    BY <1>3, <2>1, <2>2 DEF BindSocket
<1>. QED
  BY <1>1, <1>2, <1>3 DEF InitSock

\* Sending binds the newest socket to a port of its own only if it has none.
LEMMA SendKeeps ==
    ASSUME SocketInv, Send PROVE SocketInv'
<1> USE DEF SocketInv, Goes, Threads, Running
<1>1. sock \in 1..Len(port) /\ pc["main"] = "send" /\ UNCHANGED <<term, sock>> /\ Running
  BY DEF Send
<1>2. /\ port' \in Seq({"none", "auto", "own"}) /\ Len(port') = Len(port)
      /\ port[sock] = "own" => port'[sock] = "own"
  <2>1. CASE port[sock] = "none"
    BY <2>1, <1>1 DEF Send
  <2>2. CASE port[sock] # "none"
    BY <2>2, <1>1 DEF Send
  <2>. QED
    BY <2>1, <2>2
<1>3. pc' = [pc EXCEPT !["main"] = "idle"]
  BY DEF Send
<1>. QED
  BY <1>1, <1>2, <1>3

\* Every step of terminal, page and daemon keeps what is said of the socket.
LEMMA SocketKeeps ==
    ASSUME SocketInv, [Next]_vars PROVE SocketInv'
<1>1. CASE UNCHANGED <<term, pc, sock, port>>
  BY <1>1 DEF SocketInv, Running
<1>2. CASE TerminalNext
  <2>1. CASE Start
    BY <2>1 DEF Start, SocketInv, Threads, Running
  <2>2. CASE (\E line \in Typed : Enter(line)) \/ ReadNothing
    BY <2>2 DEF Enter, ReadNothing, Reads, Goes, SocketInv, Threads, Running
  <2>3. CASE Exit
    BY <2>3, EndsKeeps DEF Exit
  <2>4. CASE Receive
    BY <2>4, <1>1, EndsKeeps DEF Receive
  <2>. QED
    BY <1>2, <2>1, <2>2, <2>3, <2>4, SendKeeps, InitSockKeeps DEF TerminalNext
<1>3. CASE UNCHANGED vars
  BY <1>1, <1>3 DEF vars, termVars
<1>4. CASE UNCHANGED termVars
  BY <1>1, <1>4 DEF termVars
<1>5. CASE SendAngle \/ HandleCommand \/ PageCommand \/ DaemonEnds
  BY <1>1, <1>5 DEF SendAngle, HandleCommand, PageCommand, DaemonEnds
<1>. QED
  BY <1>2, <1>3, <1>4, <1>5 DEF Next

\* However the two threads share the work of init_sock, the terminal ends up listening on
\* MY_PORT or is gone (init_sock).
THEOREM TerminalIsNotDeaf == Spec => []NeverDeafSilently
<1>1. Init => SocketInv
  BY DEF Init, TerminalInit, NoThreads, SocketInv, Threads, Running
<1>2. SocketInv /\ [Next]_vars => SocketInv'
  BY SocketKeeps
<1>3. SocketInv => NeverDeafSilently
  BY DEF SocketInv, NeverDeafSilently, Threads
<1>. QED
  BY <1>1, <1>2, <1>3, PTL DEF Spec

-----------------------------------------------------------------------------
(* The words of the page *)

\* Three words, as memcpy copies them.
LEMMA Triple ==
    ASSUME NEW a \in Nat, NEW b \in Nat, NEW c \in Nat
    PROVE  /\ <<a, b, c>> \in [Words -> Nat] /\ <<a, b, c>> # <<>>
           /\ <<a, b, c>>[1] = a /\ <<a, b, c>>[2] = b /\ <<a, b, c>>[3] = c
BY DEF Words

\* How far each word may be, and how far main's reading is that will replace it.
Limit == <<now.angle, now.angle, now.status>>

PageTypes ==
    /\ now \in [angle : Nat, status : Nat] /\ curangle \in Nat /\ ctrl_status \in Nat
    /\ publish \in {"none", "status", "angle", "send", "copy"} /\ word \in Words
    /\ complete \in [Words -> Nat]
    /\ shm = <<>> \/ (shm \in [Words -> Nat] /\ shm # <<>>)
    /\ request \in [page : {"none", "myinfo"}, words : Seq(Nat), since : [Words -> Nat]]

\* A word of the segment is never newer than what main has read, so that copying never
\* takes it back, and a publication that is complete stays below the segment.
PageOrder ==
    /\ curangle <= now.angle /\ ctrl_status <= now.status
    /\ publish # "none" => shm # <<>>
    /\ shm = <<>> => complete = Zeros
    /\ shm # <<>> => /\ \A i \in Words : complete[i] <= shm[i] /\ shm[i] <= Limit[i]
                     /\ publish \in {"send", "copy"} => shm[1] <= curangle /\ shm[2] <= curangle
                     /\ publish \in {"angle", "send", "copy"} => shm[3] <= ctrl_status
    /\ publish \in {"status", "angle", "send"} => word = 1
    /\ publish = "copy" => \A i \in Words : i < word => shm[i] = shmbuf[i]

\* What the request has so far is no older than what was complete when it came.
RequestOrder ==
    request.page = "myinfo" =>
        /\ \A i \in Words : request.since[i] <= complete[i]
        /\ Len(request.words) <= 3
        /\ \A i \in 1..Len(request.words) : request.words[i] >= request.since[i]

PageInv == PageTypes /\ PageOrder /\ RequestOrder

\* Angle and status only get newer.
LEMMA ChangeKeeps ==
    ASSUME PageInv, NEW f \in {"angle", "status"}, Change(f) PROVE PageInv'
<1>1. /\ UNCHANGED <<publish, word, curangle, ctrl_status, shm, complete, request>>
      /\ now' \in [angle : Nat, status : Nat]
      /\ now.angle <= now'.angle /\ now.status <= now'.status
  <2>1. now \in [angle : Nat, status : Nat]
    BY DEF PageInv, PageTypes
  <2>2. now' = [now EXCEPT ![f] = now[f] + 1]
    BY DEF Change
  <2>3. /\ now' \in [angle : Nat, status : Nat]
        /\ now.angle <= now'.angle /\ now.status <= now'.status
    <3>1. CASE f = "angle"
      <4>1. /\ now'.angle = now.angle + 1 /\ now'.status = now.status
            /\ now' \in [angle : Nat, status : Nat]
        BY <2>1, <2>2, <3>1
      <4>. QED
        BY <2>1, <4>1
    <3>2. CASE f = "status"
      <4>1. /\ now'.angle = now.angle /\ now'.status = now.status + 1
            /\ now' \in [angle : Nat, status : Nat]
        BY <2>1, <2>2, <3>2
      <4>. QED
        BY <2>1, <4>1
    <3>. QED
      BY <3>1, <3>2
  <2>4. UNCHANGED <<publish, word, curangle, ctrl_status, shm, complete, request>>
    BY DEF Change, pubVars, pageSide
  <2>. QED
    BY <2>3, <2>4
<1>2. PageTypes'
  BY <1>1 DEF PageInv, PageTypes
<1>3. \A i \in Words : Limit[i] <= Limit'[i] /\ Limit[i] \in Nat /\ Limit'[i] \in Nat
  <2>1. now.angle \in Nat /\ now.status \in Nat /\ now'.angle \in Nat /\ now'.status \in Nat
    BY <1>1 DEF PageInv, PageTypes
  <2>. QED
    BY <1>1, <2>1 DEF Limit, Words
<1>4. PageOrder'
  <2>1. curangle <= now'.angle /\ ctrl_status <= now'.status
    BY <1>1 DEF PageInv, PageTypes, PageOrder
  <2>2. ASSUME shm # <<>>, NEW i \in Words PROVE complete[i] <= shm[i] /\ shm[i] <= Limit'[i]
    <3>1. complete[i] <= shm[i] /\ shm[i] <= Limit[i] /\ shm[i] \in Nat
      BY <2>2 DEF PageInv, PageOrder, PageTypes
    <3>. QED
      BY <3>1, <1>3
  <2>. QED
    BY <1>1, <2>1, <2>2 DEF PageInv, PageOrder, shmbuf
<1>5. RequestOrder'
  BY <1>1 DEF PageInv, RequestOrder
<1>. QED
  BY <1>2, <1>4, <1>5 DEF PageInv

\* A new daemon takes the segment as it is, or makes one of zeros (shmget, shmat).
LEMMA AttachKeeps ==
    ASSUME PageInv, Attach PROVE PageInv'
<1>1. /\ UNCHANGED <<now, curangle, ctrl_status, complete, request>>
      /\ publish' = "status" /\ word' = 1 /\ 1 \in Words
      /\ shm' = IF shm = <<>> THEN Zeros ELSE shm
  BY DEF Attach, Words, pageSide
<1>2. /\ Zeros \in [Words -> Nat] /\ Zeros # <<>>
      /\ \A i \in Words : Zeros[i] = 0
  BY Triple DEF Zeros, Words
<1>3. \A i \in Words : Limit[i] \in Nat
  BY DEF PageInv, PageTypes, Limit, Words
<1>4. PageTypes'
  BY <1>1, <1>2 DEF PageInv, PageTypes
<1>5. PageOrder'
  <2>1. CASE shm = <<>>
    BY <2>1, <1>1, <1>2, <1>3 DEF PageInv, PageOrder, Limit
  <2>2. CASE shm # <<>>
    BY <2>2, <1>1 DEF PageInv, PageOrder, Limit
  <2>. QED
    BY <2>1, <2>2
<1>6. RequestOrder'
  BY <1>1 DEF PageInv, RequestOrder
<1>. QED
  BY <1>4, <1>5, <1>6 DEF PageInv

\* What main reads for the next publication is not older than what it read before.
LEMMA ReadingKeeps ==
    ASSUME PageInv, Dies \/ ReadStatus \/ ReadAngle \/ Sent PROVE PageInv'
<1>1. UNCHANGED <<now, word, shm, complete, request>>
  BY DEF Dies, ReadStatus, ReadAngle, Sent, loopRest, pageSide
<1>2. PageTypes'
  BY <1>1 DEF PageInv, PageTypes, Dies, ReadStatus, ReadAngle, Sent, loopRest
<1>3. shm # <<>> => shm[1] <= now.angle /\ shm[2] <= now.angle /\ shm[3] <= now.status
  BY DEF PageInv, PageOrder, Limit, Words
<1>4. PageOrder'
  <2>1. CASE Dies
    BY <2>1, <1>1 DEF PageInv, PageOrder, Dies, Limit
  <2>2. CASE ReadStatus
    <3>1. /\ publish = "status" /\ publish' = "angle"
          /\ ctrl_status' = now.status /\ curangle' = curangle
      BY <2>2 DEF ReadStatus
    <3>2. now.status \in Nat
      BY DEF PageInv, PageTypes
    <3>. QED
      BY <3>1, <3>2, <1>1, <1>3 DEF PageInv, PageOrder, Limit
  <2>3. CASE ReadAngle
    <3>1. /\ publish = "angle" /\ publish' = "send"
          /\ curangle' = now.angle /\ ctrl_status' = ctrl_status
      BY <2>3 DEF ReadAngle
    <3>2. now.angle \in Nat
      BY DEF PageInv, PageTypes
    <3>. QED
      BY <3>1, <3>2, <1>1, <1>3 DEF PageInv, PageOrder, Limit
  <2>4. CASE Sent
    BY <2>4, <1>1 DEF PageInv, PageOrder, Sent, loopRest, Limit, Words
  <2>. QED
    BY <2>1, <2>2, <2>3, <2>4
<1>5. RequestOrder'
  BY <1>1 DEF PageInv, RequestOrder
<1>. QED
  BY <1>2, <1>4, <1>5 DEF PageInv

\* A word that is copied does not get older; the last one completes a publication.
LEMMA CopyKeeps ==
    ASSUME PageInv, CopyWord PROVE PageInv'
<1>. DEFINE published == <<curangle, curangle, ctrl_status>>
<1>1. /\ publish = "copy" /\ word \in Words /\ shm # <<>> /\ shm \in [Words -> Nat]
      /\ curangle \in Nat /\ ctrl_status \in Nat
      /\ UNCHANGED <<now, curangle, ctrl_status, request>>
      /\ shm' = [shm EXCEPT ![word] = published[word]]
      /\ word' = (word % 3) + 1
      /\ IF word = 3 THEN publish' = "status" /\ complete' = published
         ELSE UNCHANGED <<publish, complete>>
  BY DEF PageInv, PageTypes, PageOrder, CopyWord, shmbuf, pageSide
<1>2. /\ published \in [Words -> Nat]
      /\ published[1] = curangle /\ published[2] = curangle /\ published[3] = ctrl_status
  BY <1>1, Triple
<1>3. shm' \in [Words -> Nat] /\ shm' # <<>> /\ word' \in Words
  <2>1. shm' \in [Words -> Nat] /\ word' \in Words
    BY <1>1, <1>2 DEF Words
  <2>2. DOMAIN shm' = 1..3 /\ DOMAIN <<>> = 1..0
    BY <2>1 DEF Words
  <2>. QED
    BY <2>1, <2>2
<1>4. \A i \in Words :
         /\ complete[i] \in Nat /\ shm[i] \in Nat /\ published[i] \in Nat
         /\ complete[i] <= shm[i] /\ shm[i] <= published[i] /\ published[i] <= Limit[i]
  <2>1. \A i \in Words : complete[i] <= shm[i] /\ complete[i] \in Nat /\ shm[i] \in Nat
    BY <1>1 DEF PageInv, PageTypes, PageOrder
  <2>2. shm[1] <= curangle /\ shm[2] <= curangle /\ shm[3] <= ctrl_status
    BY <1>1 DEF PageInv, PageOrder
  <2>3. curangle <= Limit[1] /\ curangle <= Limit[2] /\ ctrl_status <= Limit[3]
    BY DEF PageInv, PageOrder, Limit
  <2>. QED
    BY <1>1, <1>2, <2>1, <2>2, <2>3 DEF Words
<1>5. \A i \in Words : shm'[i] = IF i = word THEN published[i] ELSE shm[i]
  BY <1>1
<1>6. \A i \in Words : i < word => shm[i] = published[i]
  BY <1>1 DEF PageInv, PageOrder, shmbuf
<1>7. \A i \in Words : complete'[i] \in Nat /\ complete[i] <= complete'[i] /\ complete'[i] <= shm'[i]
  <2>1. CASE word = 3
    <3>1. \A i \in Words : shm'[i] = published[i]
      BY <2>1, <1>5, <1>6 DEF Words
    <3>2. complete' = published
      BY <2>1, <1>1
    <3>. HIDE DEF published
    <3>3. \A i \in Words : complete[i] <= published[i]
      BY <1>4
    <3>. QED
      BY <3>1, <3>2, <3>3, <1>4
  <2>2. CASE word # 3
    <3>1. complete' = complete
      BY <2>2, <1>1
    <3>. HIDE DEF published
    <3>. QED
      BY <3>1, <1>4, <1>5
  <2>. QED
    BY <2>1, <2>2
<1>8. PageTypes'
  BY <1>1, <1>2, <1>3 DEF PageInv, PageTypes
<1>9. PageOrder'
  <2>1. \A i \in Words : shm'[i] <= Limit'[i]
    <3>1. \A i \in Words : Limit'[i] = Limit[i]
      BY <1>1 DEF Limit
    <3>2. \A i \in Words : shm'[i] = published[i] \/ shm'[i] = shm[i]
      BY <1>5
    <3>3. \A i \in Words : Limit[i] \in Nat
      BY DEF PageInv, PageTypes, Limit, Words
    <3>. HIDE DEF published
    <3>4. ASSUME NEW i \in Words PROVE shm'[i] <= Limit[i]
      BY <3>2, <3>3, <1>4
    <3>. QED
      BY <3>1, <3>4
  <2>2. curangle' <= now'.angle /\ ctrl_status' <= now'.status
    BY <1>1 DEF PageInv, PageOrder
  <2>3. CASE word = 3
    BY <2>1, <2>2, <2>3, <1>1, <1>3, <1>7 DEF PageOrder
  <2>4. CASE word # 3
    <3>1. publish' = "copy" /\ word' = word + 1
      BY <2>4, <1>1 DEF Words
    <3>2. shm'[1] <= curangle' /\ shm'[2] <= curangle' /\ shm'[3] <= ctrl_status'
      BY <1>1, <1>2, <1>4, <1>5 DEF Words
    <3>3. \A i \in Words : i < word' => shm'[i] = shmbuf'[i]
      <4>1. shmbuf' = published
        BY <1>1 DEF shmbuf
      <4>. HIDE DEF published
      <4>. QED
        BY <4>1, <3>1, <1>1, <1>5, <1>6 DEF Words
    <3>. QED
      BY <2>1, <2>2, <3>1, <3>2, <3>3, <1>3, <1>7 DEF PageOrder
  <2>. QED
    BY <2>3, <2>4
<1>10. RequestOrder'
  <2>1. SUFFICES ASSUME request.page = "myinfo" PROVE RequestOrder'
    BY <1>1 DEF RequestOrder
  <2>2. \A i \in Words : request.since[i] <= complete[i] /\ request.since[i] \in Nat
    BY <2>1 DEF PageInv, PageTypes, RequestOrder
  <2>3. \A i \in Words : request.since[i] <= complete'[i]
    BY <2>2, <1>4, <1>7
  <2>. QED
    BY <2>1, <2>3, <1>1 DEF PageInv, RequestOrder
<1>. QED
  BY <1>8, <1>9, <1>10 DEF PageInv

\* A request copies words that are not older than the publication it began with.
LEMMA RequestKeeps ==
    ASSUME PageInv, Page PROVE PageInv'
<1>1. UNCHANGED <<now, publish, word, curangle, ctrl_status, shm, complete>>
  BY DEF Page, Ask, ReadMem, Answered, daemonSide, pubVars
<1>2. PageOrder'
  BY <1>1 DEF PageInv, PageOrder, shmbuf, Limit
<1>3. CASE Ask
  <2>1. request' = [page |-> "myinfo", words |-> <<>>, since |-> complete]
    BY <1>3 DEF Ask
  <2>2. /\ request' \in [page : {"none", "myinfo"}, words : Seq(Nat), since : [Words -> Nat]]
        /\ Len(request'.words) = 0
    BY <2>1 DEF PageInv, PageTypes
  <2>3. PageTypes'
    BY <2>2, <1>1 DEF PageInv, PageTypes
  <2>4. \A i \in Words : request'.since[i] <= complete'[i]
    BY <2>1, <1>1 DEF PageInv, PageTypes
  <2>5. RequestOrder'
    BY <2>2, <2>4 DEF RequestOrder
  <2>. QED
    BY <2>3, <2>5, <1>2 DEF PageInv
<1>4. ASSUME request' = NoRequest PROVE PageInv'
  <2>1. Zeros \in [Words -> Nat]
    BY Triple DEF Zeros
  <2>2. PageTypes'
    BY <2>1, <1>1, <1>4 DEF PageInv, PageTypes, NoRequest
  <2>3. RequestOrder'
    BY <1>4 DEF NoRequest, RequestOrder
  <2>. QED
    BY <2>2, <2>3, <1>2 DEF PageInv
<1>5. CASE ReadMem /\ shm # <<>>
  <2>. DEFINE n == Len(request.words) + 1
  <2>1. /\ request.page = "myinfo" /\ request.words \in Seq(Nat) /\ n \in Words
        /\ shm[n] \in Nat
        /\ request' = [request EXCEPT !.words = Append(request.words, shm[n])]
    <3>1. request.words \in Seq(Nat) /\ Len(request.words) < 3
      BY <1>5 DEF ReadMem, PageInv, PageTypes
    <3>2. n \in Words
      BY <3>1 DEF Words
    <3>. QED
      BY <3>1, <3>2, <1>5 DEF ReadMem, PageInv, PageTypes
  <2>2. /\ request'.page = "myinfo" /\ request'.since = request.since
        /\ request'.words = Append(request.words, shm[n])
        /\ request' \in [page : {"none", "myinfo"}, words : Seq(Nat), since : [Words -> Nat]]
    <3>1. request \in [page : {"none", "myinfo"}, words : Seq(Nat), since : [Words -> Nat]]
      BY DEF PageInv, PageTypes
    <3>2. Append(request.words, shm[n]) \in Seq(Nat)
      BY <2>1
    <3>. HIDE DEF n
    <3>. QED
      BY <3>1, <3>2, <2>1
  <2>3. PageTypes'
    BY <2>2, <1>1 DEF PageInv, PageTypes
  <2>4. Len(request'.words) = n /\ n <= 3
    BY <2>1, <2>2 DEF Words
  <2>5. ASSUME NEW i \in 1..n PROVE request'.words[i] >= request.since[i]
    <3>1. CASE i = n
      <4>1. request'.words[i] = shm[i] /\ i \in Words
        BY <2>1, <2>2, <3>1
      <4>2. complete[i] <= shm[i] /\ request.since[i] <= complete[i]
        BY <4>1, <2>1, <1>5 DEF PageInv, PageOrder, RequestOrder
      <4>3. complete[i] \in Nat /\ shm[i] \in Nat /\ request.since[i] \in Nat
        BY <4>1, <1>5 DEF PageInv, PageTypes
      <4>. QED
        BY <4>1, <4>2, <4>3
    <3>2. CASE i # n
      <4>1. i \in 1..Len(request.words) /\ request'.words[i] = request.words[i]
        BY <2>1, <2>2, <3>2 DEF Words
      <4>. QED
        BY <4>1, <2>1 DEF PageInv, RequestOrder
    <3>. QED
      BY <3>1, <3>2
  <2>6. RequestOrder'
    BY <2>1, <2>2, <2>4, <2>5, <1>1 DEF PageInv, RequestOrder
  <2>. QED
    BY <2>3, <2>6, <1>2 DEF PageInv
<1>6. CASE ReadMem /\ shm = <<>>
  BY <1>4, <1>6 DEF ReadMem
<1>7. CASE Answered
  BY <1>4, <1>7 DEF Answered
<1>. QED
  BY <1>3, <1>5, <1>6, <1>7 DEF Page

\* Every step keeps what is said of the page's words.
LEMMA PageKeeps ==
    ASSUME PageInv, [Next]_vars PROVE PageInv'
<1>1. CASE UNCHANGED pageVars
  BY <1>1 DEF pageVars, pubVars, pageSide, PageInv, PageTypes, PageOrder, RequestOrder, Limit, shmbuf
<1>2. CASE Loop \/ Page \/ Attach \/ \E f \in {"angle", "status"} : Change(f)
  BY <1>2, ReadingKeeps, CopyKeeps, RequestKeeps, AttachKeeps, ChangeKeeps DEF Loop
<1>3. CASE Usage
  <2>1. UNCHANGED <<now, publish, word, curangle, ctrl_status, shm, complete, request>>
    BY <1>3 DEF Usage, FirstReading, SecondReading, UsageShown, daemonSide, pubVars
  <2>. QED
    BY <2>1 DEF PageInv, PageTypes, PageOrder, RequestOrder, Limit, shmbuf
<1>4. CASE SendAngle \/ DaemonEnds
  BY <1>4, ReadingKeeps DEF SendAngle, DaemonEnds
<1>5. CASE HandleCommand \/ PageCommand \/ UNCHANGED vars
  BY <1>1, <1>5 DEF HandleCommand, PageCommand, vars
<1>. QED
  BY <1>1, <1>2, <1>3, <1>4, <1>5 DEF Next

\* What the page shows is at least as new as the last publication that was complete when
\* the request came, though nothing locks the segment (readmem, main's loop).
THEOREM PageIsFresh == Spec => []FreshFields
<1>1. Init => PageInv
  <2>1. Zeros \in [Words -> Nat] /\ 1 \in Words
    BY Triple DEF Zeros, Words
  <2>. QED
    BY <2>1 DEF Init, StatusPageInit, NoRequest, PageInv, PageTypes, PageOrder, RequestOrder
<1>2. PageInv /\ [Next]_vars => PageInv'
  BY PageKeeps
<1>3. PageInv => FreshFields
  BY DEF PageInv, RequestOrder, FreshFields, Shown, Words
<1>. QED
  BY <1>1, <1>2, <1>3, PTL DEF Spec

-----------------------------------------------------------------------------
(* The usage of the processor *)

\* A number has one remainder.
LEMMA OneRemainder ==
    ASSUME NEW q \in Int, NEW p \in Int, NEW r \in 0..(Modulus - 1), NEW s \in 0..(Modulus - 1),
           Modulus * q + r = Modulus * p + s
    PROVE  r = s
<1> USE StatusPageAssumption DEF StatusPageAssumption
<1>1. Modulus \in Nat \ {0}
  OBVIOUS
<1>2. Modulus * (q - p) = s - r
  BY <1>1
<1>3. ~(q - p >= 1)
  <2>1. ASSUME q - p >= 1 PROVE Modulus * (q - p) >= Modulus
    BY <1>1, <2>1
  <2>. QED
    BY <1>1, <1>2, <2>1
<1>4. ~(q - p <= -1)
  <2>1. ASSUME q - p <= -1 PROVE Modulus * (q - p) <= -Modulus
    BY <1>1, <2>1
  <2>. QED
    BY <1>1, <1>2, <2>1
<1>5. q = p
  BY <1>3, <1>4
<1>. QED
  BY <1>1, <1>2, <1>5

\* Quotient and remainder.
LEMMA Quotient ==
    ASSUME NEW m \in Nat \ {0}, NEW n \in Int PROVE n \div m \in Int
OBVIOUS

\* What they are to each other.
LEMMA Remainder ==
    ASSUME NEW m \in Nat \ {0}, NEW n \in Int
    PROVE  n % m \in 0..(m - 1) /\ n = m * (n \div m) + (n % m)
<1>1. n % m \in 0..(m - 1)
  OBVIOUS
<1>2. n = m * (n \div m) + (n % m)
  OBVIOUS
<1>. QED
  BY <1>1, <1>2

\* What an unsigned number keeps of n, and how to tell it.
LEMMA Wraps ==
    ASSUME NEW n \in Int
    PROVE  /\ Wrap(n) \in 0..(Modulus - 1)
           /\ \E k \in Int : n = Modulus * k + Wrap(n)
           /\ \A k \in Int, r \in 0..(Modulus - 1) : n = Modulus * k + r => Wrap(n) = r
<1>1. Modulus \in Nat \ {0}
  BY StatusPageAssumption DEF StatusPageAssumption
<1>2. /\ n % Modulus \in 0..(Modulus - 1) /\ n \div Modulus \in Int
      /\ n = Modulus * (n \div Modulus) + (n % Modulus)
  BY Zenon, <1>1, Quotient, Remainder
<1>3. ASSUME NEW k \in Int, NEW r \in 0..(Modulus - 1), n = Modulus * k + r
      PROVE  n % Modulus = r
  <2>1. Modulus * k + r = Modulus * (n \div Modulus) + (n % Modulus)
    BY <1>2, <1>3
  <2>. QED
    BY <1>2, <2>1, OneRemainder
<1>4. \E k \in Int : n = Modulus * k + (n % Modulus)
  BY Zenon, <1>2
<1>. QED
  BY Zenon, <1>2, <1>3, <1>4 DEF Wrap

\* The difference of two readings of a counter is what was added.
LEMMA DeltaIsGrowth ==
    ASSUME NEW a \in Nat, NEW g \in Nat, a + g < Modulus
    PROVE  Delta(a + g, a) = g
<1>1. Modulus \in Nat \ {0}
  BY StatusPageAssumption DEF StatusPageAssumption
<1>2. (a + g) - a = Modulus * 0 + g /\ g \in 0..(Modulus - 1) /\ (a + g) - a \in Int
  BY <1>1
<1>. QED
  BY <1>2, Wraps DEF Delta

\* The difference of the two sums is what was added to all counters, as long as the sum does
\* not leave the range in between: how often it has done so before does not matter.
LEMMA SumIsGrowth ==
    ASSUME NEW o \in [Fields -> Nat], NEW d \in [Fields -> Nat],
           Wrap(SumOf(o)) + SumOf(d) < Modulus
    PROVE  Wrap(SumOf(Later(o, d))) = Wrap(SumOf(o)) + SumOf(d)
<1> DEFINE n == Later(o, d)
<1>1. Modulus \in Nat \ {0}
  BY StatusPageAssumption DEF StatusPageAssumption
<1>2. \A f \in Fields : n[f] = o[f] + d[f] /\ o[f] \in Nat /\ d[f] \in Nat
  BY DEF Later
<1> HIDE DEF n
<1>3. /\ SumOf(o) = o["user"] + o["nice"] + o["system"] + o["idle"]
      /\ SumOf(d) = d["user"] + d["nice"] + d["system"] + d["idle"]
      /\ SumOf(n) = n["user"] + n["nice"] + n["system"] + n["idle"]
  BY DEF SumOf
<1>4. SumOf(n) = SumOf(o) + SumOf(d) /\ SumOf(o) \in Nat /\ SumOf(d) \in Nat
  BY <1>2, <1>3 DEF Fields
<1>5. PICK j \in Int : SumOf(o) = Modulus * j + Wrap(SumOf(o))
  BY <1>4, Wraps
<1>6. Wrap(SumOf(o)) \in Nat
  BY <1>1, <1>4, Wraps
<1>7. SumOf(n) = Modulus * j + (Wrap(SumOf(o)) + SumOf(d))
  <2>1. Modulus * j \in Int
    BY <1>1
  <2>. QED
    BY <2>1, <1>4, <1>5, <1>6
<1>8. Wrap(SumOf(o)) + SumOf(d) \in 0..(Modulus - 1) /\ SumOf(n) \in Int
  BY <1>1, <1>4, <1>6
<1>9. Wrap(SumOf(n)) = Wrap(SumOf(o)) + SumOf(d)
  BY <1>7, <1>8, Wraps
<1>. QED
  BY <1>9 DEF n

\* A second reading behind the first.
LEMMA AppendOne ==
    ASSUME NEW S, NEW s \in Seq(S), NEW e \in S
    PROVE  /\ Append(s, e) \in Seq(S) /\ Len(Append(s, e)) = Len(s) + 1
           /\ \A i \in 1..Len(s) : Append(s, e)[i] = s[i]
           /\ Append(s, e)[Len(s) + 1] = e
BY AppendProperties

\* Each of the two readings is one the processor can give.
OccupyInv ==
    /\ occupy \in Seq(Samples \cup Grown) /\ Len(occupy) <= 2
    /\ Len(occupy) >= 1 => occupy[1] \in Samples
    /\ Len(occupy) = 2 => occupy[2] \in Grown

\* The usage of the processor is the share of user and system in the time that went by, for
\* counters of any width, as long as each is within its range and their sum, which may have
\* left it before, does not leave it in this second (get_occupy, cal_occupy).
THEOREM UsageIsTheShare == Spec => []UsageIsShare
<1>1. Init => OccupyInv
  BY DEF Init, StatusPageInit, OccupyInv
<1>2. OccupyInv /\ [Next]_vars => OccupyInv'
  <2> SUFFICES ASSUME OccupyInv, [Next]_vars PROVE OccupyInv'
    OBVIOUS
  <2>1. CASE Usage
    <3>1. CASE FirstReading
      BY <3>1 DEF FirstReading, OccupyInv
    <3>2. CASE SecondReading
      <4>1. PICK d \in Grown : Len(occupy) = 1 /\ occupy' = Append(occupy, d)
        BY <3>2 DEF SecondReading
      <4>2. occupy \in Seq(Samples \cup Grown) /\ d \in Samples \cup Grown /\ occupy[1] \in Samples
        BY <4>1 DEF OccupyInv
      <4>3. /\ Append(occupy, d) \in Seq(Samples \cup Grown) /\ Len(Append(occupy, d)) = 2
            /\ Append(occupy, d)[1] = occupy[1] /\ Append(occupy, d)[2] = d
        <5>1. /\ Append(occupy, d) \in Seq(Samples \cup Grown)
              /\ Len(Append(occupy, d)) = Len(occupy) + 1
              /\ \A i \in 1..Len(occupy) : Append(occupy, d)[i] = occupy[i]
              /\ Append(occupy, d)[Len(occupy) + 1] = d
          BY <4>2, AppendOne
        <5> DEFINE t == Append(occupy, d)
        <5> HIDE DEF t
        <5>2. Len(t) = 2 /\ t[1] = occupy[1] /\ t[2] = d
          BY <4>1, <5>1 DEF t
        <5>. QED
          BY <5>1, <5>2 DEF t
      <4>. QED
        BY <4>1, <4>2, <4>3 DEF OccupyInv
    <3>3. CASE UsageShown
      BY <3>3 DEF UsageShown, OccupyInv
    <3>. QED
      BY <2>1, <3>1, <3>2, <3>3 DEF Usage
  <2>2. CASE ~Usage
    <3>1. UNCHANGED occupy
      BY <2>2 DEF Next, vars, pageVars, pageSide, Loop, ReadStatus, ReadAngle, CopyWord, Page, Ask,
         ReadMem, Answered, Attach, Change, SendAngle, HandleCommand, PageCommand, DaemonEnds,
         Dies, Sent, loopRest, daemonSide
    <3>. QED
      BY <3>1 DEF OccupyInv
  <2>. QED
    BY <2>1, <2>2
<1>3. OccupyInv => UsageIsShare
  <2> SUFFICES ASSUME OccupyInv, Len(occupy) = 2, SumOf(occupy[2]) > 0,
                      Wrap(SumOf(occupy[1])) + SumOf(occupy[2]) < Modulus,
                      \A f \in Fields : Later(occupy[1], occupy[2])[f] < Modulus
               PROVE  /\ cpumem_info.num * SumOf(occupy[2])
                            = 100 * (occupy[2].user + occupy[2].system) * cpumem_info.den
                      /\ 0 <= cpumem_info.num /\ cpumem_info.num <= 100 * cpumem_info.den
    BY DEF UsageIsShare
  <2>1. PICK o \in Samples, d \in Grown : occupy[1] = o /\ occupy[2] = d
    BY DEF OccupyInv
  <2>2. /\ occupy[1] = o /\ occupy[2] = d /\ SumOf(d) > 0
        /\ Wrap(SumOf(o)) + SumOf(d) < Modulus
        /\ \A f \in Fields : Later(o, d)[f] < Modulus
    BY <2>1
  <2>3. /\ Modulus \in Nat \ {0} /\ o \in [Fields -> Nat] /\ d \in [Fields -> Nat]
    BY StatusPageAssumption DEF StatusPageAssumption
  <2>4. \A f \in Fields : o[f] \in Nat /\ d[f] \in Nat
    BY <2>3
  <2>5. /\ SumOf(o) \in Nat /\ SumOf(d) \in Nat
        /\ SumOf(d) = d["user"] + d["nice"] + d["system"] + d["idle"]
    BY <2>4 DEF SumOf, Fields
  <2>6. \A f \in Fields : Later(o, d)[f] = o[f] + d[f] /\ o[f] + d[f] < Modulus
    BY <2>2 DEF Later
  <2>7. Read(o) = o /\ Read(Later(o, d)) = Later(o, d)
    <3>1. \A f \in Fields : o[f] < Modulus
      BY <2>3, <2>4, <2>6
    <3>2. o = [f \in Fields |-> o[f]] /\ Later(o, d) = [f \in Fields |-> Later(o, d)[f]]
      BY <2>3 DEF Later
    <3>. QED
      BY <2>2, <3>1, <3>2 DEF Read
  <2>8. \A f \in Fields : Delta(Later(o, d)[f], o[f]) = d[f]
    BY <2>4, <2>6, DeltaIsGrowth
  <2>9. cpumem_info.num = 100 * (d["system"] + d["user"])
    BY <2>2, <2>7, <2>8 DEF cpumem_info, cal_occupy, Fields
  <2>10. cpumem_info.den = SumOf(d)
    <3>1. cpumem_info.den = Wrap(SumOf(Later(o, d))) - Wrap(SumOf(o))
      BY <2>2, <2>7 DEF cpumem_info, cal_occupy
    <3>2. Wrap(SumOf(o)) \in Nat
      BY <2>3, <2>5, Wraps
    <3>. QED
      BY <3>1, <3>2, <2>2, <2>3, <2>5, SumIsGrowth
  <2>11. /\ d["user"] \in Nat /\ d["nice"] \in Nat /\ d["system"] \in Nat /\ d["idle"] \in Nat
    BY <2>4 DEF Fields
  <2>12. cpumem_info.num = 100 * (d["user"] + d["system"])
    BY <2>9, <2>11
  <2>13. 0 <= cpumem_info.num /\ cpumem_info.num <= 100 * cpumem_info.den
    BY <2>5, <2>10, <2>11, <2>12
  <2>. QED
    BY <2>2, <2>10, <2>12, <2>13
<1>. QED
  BY <1>1, <1>2, <1>3, PTL DEF Spec

=============================================================================
