-------------------------- MODULE ResourcesProofs --------------------------
(* What holds of the log, the lines and the context of every daemon: for all   *)
(* threads, levels, lengths and buffers, configurations, devices and bounds.   *)
EXTENDS Resources, TLAPS

-----------------------------------------------------------------------------
(* The lines of the log are whole *)

Holding == {"package", "output", "unlock"}

\* The first k cells of the buffer are the line that t has in hand.
Begun(t, k) == \A i \in 1..k : log_buf[i] = <<t, call[t].n>>

\* Who is past the lock is who holds it, and at most one thread does.
LockInv ==
    /\ logfile # "null" => elog.locking
    /\ elog.enabled => elog.locking
    /\ \A t \in Loggers : call[t].pc # "idle" => elog.enabled
    /\ \A t \in Loggers : t \in lock <=> call[t].pc \in Holding
    /\ \A t, u \in lock : t = u

\* What the holder has in hand.
HandInv ==
    /\ \A t \in Loggers : call[t].pc # "idle" => call[t].n \in 1..MaxCalls
    /\ \A t \in Loggers : call[t].pc = "package" =>
          call[t].log_len < Size /\ Begun(t, call[t].log_len)
    /\ \A t \in Loggers : call[t].pc = "output" =>
          /\ call[t].log_len \in 1..Size /\ log_buf[call[t].log_len] = Newline
          /\ Begun(t, call[t].log_len - 1)

LoggerInv == LoggerTypeOK /\ LockInv /\ HandInv /\ LinesWhole

\* Everything that is true before the first process is true after a restart.
LEMMA LoggerStart ==
    ASSUME LoggerInit PROVE LoggerInv
<1> USE LoggerAssumption DEF LoggerAssumption
<1>1. \A t \in Loggers : call[t] = Idle
  BY DEF LoggerInit, NoCalls
<1>2. LoggerTypeOK
  <2>1. call \in [Loggers -> Calls]
    BY DEF LoggerInit, NoCalls, Idle, Calls, Places
  <2>2. log_buf \in [1..Size -> Cells]
    BY DEF LoggerInit, EmptyBuf, Cells
  <2>. QED
    BY <2>1, <2>2 DEF LoggerInit, LoggerTypeOK, ElogOff
<1>3. LockInv /\ HandInv
  BY <1>1 DEF LoggerInit, LockInv, HandInv, Holding, Idle, ElogOff
<1>. QED
  BY <1>2, <1>3 DEF LoggerInv, LoggerInit, LinesWhole

\* A new process finds the file as it is and nobody in a call (elog_init of the next start).
LEMMA RestartKeeps ==
    ASSUME LoggerInv, LoggerRestart PROVE LoggerInv'
<1> USE LoggerAssumption DEF LoggerAssumption
<1>1. \A t \in Loggers : call'[t] = Idle
  BY DEF LoggerRestart, NoCalls
<1>2. LoggerTypeOK'
  <2>1. call' \in [Loggers -> Calls]
    BY DEF LoggerRestart, NoCalls, Idle, Calls, Places
  <2>2. log_buf' \in [1..Size -> Cells]
    BY DEF LoggerRestart, EmptyBuf, Cells
  <2>. QED
    BY <2>1, <2>2 DEF LoggerInv, LoggerRestart, LoggerTypeOK, ElogOff
<1>3. LockInv' /\ HandInv'
  BY <1>1 DEF LoggerRestart, LockInv, HandInv, Holding, Idle, ElogOff
<1>. QED
  BY <1>2, <1>3 DEF LoggerInv, LoggerRestart, LinesWhole

\* Opening, starting and closing the log leave buffer, lock and calls alone.
LEMMA OpenCloseKeep ==
    ASSUME LoggerInv, ElogInit \/ ElogStart \/ ElogClose PROVE LoggerInv'
<1>1. UNCHANGED <<lock, log_buf, call, text>>
  BY DEF ElogInit, ElogStart, ElogClose
<1>2. LoggerTypeOK'
  <2>1. logfile' \in {"null", "open", "closed"}
    BY DEF LoggerInv, LoggerTypeOK, ElogInit, ElogStart, ElogClose
  <2>2. elog' \in [enabled : BOOLEAN, locking : BOOLEAN, level : Nat]
    <3>1. elog \in [enabled : BOOLEAN, locking : BOOLEAN, level : Nat]
      BY DEF LoggerInv, LoggerTypeOK
    <3>2. CASE ElogInit
      BY <3>1, <3>2 DEF ElogInit, VERBOSE
    <3>3. CASE ElogStart
      BY <3>1, <3>3 DEF ElogStart
    <3>4. CASE ElogClose
      BY <3>1, <3>4 DEF ElogClose
    <3>. QED
      BY <3>2, <3>3, <3>4
  <2>. QED
    BY <1>1, <2>1, <2>2 DEF LoggerInv, LoggerTypeOK
<1>3. LockInv'
  BY <1>1 DEF LoggerInv, LoggerTypeOK, LockInv, ElogInit, ElogStart, ElogClose
<1>4. HandInv' /\ LinesWhole'
  BY <1>1 DEF LoggerInv, HandInv, Begun, LinesWhole
<1>. QED
  BY <1>2, <1>3, <1>4 DEF LoggerInv

\* A call begins: nothing is in hand yet.
LEMMA LogKeeps ==
    ASSUME LoggerInv, NEW t \in Loggers, NEW level \in Levels, NEW len \in Lengths, Log(t, level, len)
    PROVE  LoggerInv'
<1> USE LoggerAssumption DEF LoggerAssumption
<1>1. /\ UNCHANGED <<logfile, elog, lock, log_buf, text>>
      /\ call[t].pc = "idle" /\ call[t].n < MaxCalls
  BY DEF Log
<1>2. call \in [Loggers -> Calls] /\ call' \in [Loggers -> Calls]
  <2>1. call \in [Loggers -> Calls] /\ call[t] \in Calls
    BY DEF LoggerInv, LoggerTypeOK
  <2>2. call[t].n + 1 \in Nat /\ len \in Nat
    BY <2>1 DEF Calls
  <2>3. \A p \in Places : [call[t] EXCEPT !.n = @ + 1, !.len = len, !.pc = p] \in Calls
    BY <2>1, <2>2 DEF Calls
  <2>4. (IF Passes(level) THEN "lock" ELSE "idle") \in Places
    BY DEF Places
  <2>. QED
    BY <2>1, <2>3, <2>4 DEF Log
<1>3. \A u \in Loggers : u # t => call'[u] = call[u]
  BY <1>2 DEF Log
<1>4. /\ call'[t].n = call[t].n + 1 /\ call'[t].pc \in {"idle", "lock"}
      /\ call'[t].pc = "lock" => elog.enabled
  BY <1>2 DEF Log, Calls, Passes
<1>5. LoggerTypeOK'
  BY <1>1, <1>2 DEF LoggerInv, LoggerTypeOK
<1>6. LockInv'
  BY <1>1, <1>3, <1>4 DEF LoggerInv, LockInv, Holding
<1>7. HandInv'
  <2>1. call[t].n \in Nat
    BY <1>2 DEF Calls
  <2>2. call'[t].n \in 1..MaxCalls
    BY <2>1, <1>1, <1>4
  <2>. QED
    BY <2>2, <1>1, <1>3, <1>4 DEF LoggerInv, HandInv, Begun
<1>8. LinesWhole'
  BY <1>1 DEF LoggerInv, LinesWhole
<1>. QED
  BY <1>5, <1>6, <1>7, <1>8 DEF LoggerInv

\* The lock is taken by one thread when no other has it.
LEMMA LockKeeps ==
    ASSUME LoggerInv, NEW t \in Loggers, Lock(t) PROVE LoggerInv'
<1> USE LoggerAssumption DEF LoggerAssumption
<1>1. /\ UNCHANGED <<logfile, elog, log_buf, text>> /\ lock' = lock \cup {t}
      /\ call[t].pc = "lock"
  BY DEF Lock
<1>2. call \in [Loggers -> Calls] /\ call' \in [Loggers -> Calls]
  <2>1. call \in [Loggers -> Calls] /\ call[t] \in Calls
    BY DEF LoggerInv, LoggerTypeOK
  <2>2. [call[t] EXCEPT !.pc = "package", !.log_len = 0] \in Calls
    BY <2>1 DEF Calls, Places
  <2>3. call' = [call EXCEPT ![t] = [call[t] EXCEPT !.pc = "package", !.log_len = 0]]
    BY <2>1 DEF Lock, Calls
  <2>. QED
    BY <2>1, <2>2, <2>3
<1>3. \A u \in Loggers : u # t => call'[u] = call[u]
  BY <1>2 DEF Lock
<1>4. call'[t].n = call[t].n /\ call'[t].pc = "package" /\ call'[t].log_len = 0
  BY <1>2 DEF Lock, Calls
<1>5. lock = {}
  BY <1>1 DEF LoggerInv, LockInv, Lock, LockFree
<1>6. LoggerTypeOK'
  BY <1>1, <1>2 DEF LoggerInv, LoggerTypeOK
<1>7. LockInv'
  BY <1>1, <1>3, <1>4, <1>5 DEF LoggerInv, LockInv, Holding
<1>8. HandInv'
  BY <1>1, <1>3, <1>4 DEF LoggerInv, HandInv, Begun
<1>9. LinesWhole'
  BY <1>1 DEF LoggerInv, LinesWhole
<1>. QED
  BY <1>6, <1>7, <1>8, <1>9 DEF LoggerInv

\* Only the holder has anything in hand.
LEMMA OneHolder ==
    ASSUME LoggerInv, NEW t \in Loggers, NEW u \in Loggers, call[t].pc \in Holding, u # t
    PROVE  call[u].pc \notin Holding
BY DEF LoggerInv, LockInv

\* A piece is added to the holder's line, or the newline sign that ends it.
LEMMA PackageKeeps ==
    ASSUME LoggerInv, NEW t \in Loggers, Package(t) PROVE LoggerInv'
<1> USE LoggerAssumption DEF LoggerAssumption
<1> DEFINE k == call[t].log_len
<1>1. /\ UNCHANGED <<logfile, elog, lock, text>>
      /\ call[t].pc = "package" /\ k + 1 < Size
      /\ log_buf' = [log_buf EXCEPT ![k + 1] = <<t, call[t].n>>]
  BY DEF Package, Fits
<1>2. call \in [Loggers -> Calls] /\ call' \in [Loggers -> Calls]
  <2>1. call \in [Loggers -> Calls] /\ call[t] \in Calls
    BY DEF LoggerInv, LoggerTypeOK
  <2>2. [call[t] EXCEPT !.log_len = @ + 1] \in Calls
    BY <2>1 DEF Calls
  <2>. QED
    BY <2>1, <2>2 DEF Package
<1>3. \A u \in Loggers : u # t => call'[u] = call[u]
  BY <1>2 DEF Package
<1>4. call'[t].n = call[t].n /\ call'[t].pc = "package" /\ call'[t].log_len = k + 1
  BY <1>1, <1>2 DEF Package, Calls
<1>5. k \in Nat /\ call[t].n \in Nat
  BY <1>2 DEF Calls
<1>6. log_buf \in [1..Size -> Cells] /\ log_buf' \in [1..Size -> Cells]
  BY <1>1, <1>5 DEF LoggerInv, LoggerTypeOK, Cells
<1>7. LoggerTypeOK'
  BY <1>1, <1>2, <1>6 DEF LoggerInv, LoggerTypeOK
<1>8. LockInv'
  BY <1>1, <1>3, <1>4 DEF LoggerInv, LockInv, Holding
<1>9. HandInv'
  <2>1. \A u \in Loggers : u # t => call'[u].pc \notin Holding
    BY <1>1, <1>3, OneHolder DEF Holding
  <2>2. \A i \in 1..(k + 1) : log_buf'[i] = <<t, call'[t].n>>
    <3>1. \A i \in 1..k : log_buf'[i] = <<t, call[t].n>>
      BY <1>1, <1>5, <1>6 DEF LoggerInv, HandInv, Begun
    <3>2. log_buf'[k + 1] = <<t, call[t].n>>
      BY <1>1, <1>5, <1>6
    <3>. QED
      BY <1>4, <1>5, <3>1, <3>2
  <2>3. \A u \in Loggers : call'[u].pc # "idle" => call'[u].n \in 1..MaxCalls
    BY <1>1, <1>3, <1>4 DEF LoggerInv, HandInv
  <2>. QED
    BY <1>1, <1>4, <1>5, <2>1, <2>2, <2>3 DEF HandInv, Holding, Begun
<1>10. LinesWhole'
  BY <1>1 DEF LoggerInv, LinesWhole
<1>. QED
  BY <1>7, <1>8, <1>9, <1>10 DEF LoggerInv

\* The newline sign goes behind the cells of the call that holds the lock.
LEMMA PackageNewlineKeeps ==
    ASSUME LoggerInv, NEW t \in Loggers, PackageNewline(t) PROVE LoggerInv'
<1> USE LoggerAssumption DEF LoggerAssumption
<1> DEFINE k == call[t].log_len
<1>1. /\ UNCHANGED <<logfile, elog, lock, text>>
      /\ call[t].pc = "package"
      /\ log_buf' = [log_buf EXCEPT ![k + 1] = Newline]
  BY DEF PackageNewline
<1>2. call \in [Loggers -> Calls] /\ call' \in [Loggers -> Calls]
  <2>1. call \in [Loggers -> Calls] /\ call[t] \in Calls
    BY DEF LoggerInv, LoggerTypeOK
  <2>2. [call[t] EXCEPT !.log_len = @ + 1, !.pc = "output"] \in Calls
    <3>1. call[t].log_len + 1 \in Nat /\ "output" \in Places
      BY <2>1 DEF Calls, Places
    <3>. QED
      BY <2>1, <3>1 DEF Calls
  <2>. QED
    BY <2>1, <2>2 DEF PackageNewline
<1>3. \A u \in Loggers : u # t => call'[u] = call[u]
  BY <1>2 DEF PackageNewline
<1>4. call'[t].n = call[t].n /\ call'[t].pc = "output" /\ call'[t].log_len = k + 1
  BY <1>1, <1>2 DEF PackageNewline, Calls
<1>5. k \in Nat /\ call[t].n \in Nat /\ k < Size
  BY <1>1, <1>2 DEF Calls, LoggerInv, HandInv
<1>6. log_buf \in [1..Size -> Cells] /\ log_buf' \in [1..Size -> Cells]
  BY <1>1, <1>5 DEF LoggerInv, LoggerTypeOK, Cells
<1>7. LoggerTypeOK'
  BY <1>1, <1>2, <1>6 DEF LoggerInv, LoggerTypeOK
<1>8. LockInv'
  BY <1>1, <1>3, <1>4 DEF LoggerInv, LockInv, Holding
<1>9. HandInv'
  <2>1. \A u \in Loggers : u # t => call'[u].pc \notin Holding
    BY <1>1, <1>3, OneHolder DEF Holding
  <2>2. /\ log_buf'[k + 1] = Newline
        /\ \A i \in 1..k : log_buf'[i] = <<t, call'[t].n>>
    BY <1>1, <1>4, <1>5, <1>6 DEF LoggerInv, HandInv, Begun
  <2>3. \A u \in Loggers : call'[u].pc # "idle" => call'[u].n \in 1..MaxCalls
    BY <1>1, <1>3, <1>4 DEF LoggerInv, HandInv
  <2>4. call'[t].log_len \in 1..Size /\ call'[t].log_len - 1 = k
    BY <1>4, <1>5
  <2>. QED
    BY <1>4, <2>1, <2>2, <2>3, <2>4 DEF HandInv, Holding, Begun
<1>10. LinesWhole'
  BY <1>1 DEF LoggerInv, LinesWhole
<1>. QED
  BY <1>7, <1>8, <1>9, <1>10 DEF LoggerInv

\* The line is written in one piece, from the holder's hand.
LEMMA OutputKeeps ==
    ASSUME LoggerInv, NEW t \in Loggers, Output(t) PROVE LoggerInv'
<1> USE LoggerAssumption DEF LoggerAssumption
<1> DEFINE k == call[t].log_len
<1>1. UNCHANGED <<logfile, elog, lock, log_buf>> /\ call[t].pc = "output"
  BY DEF Output
<1>2. call \in [Loggers -> Calls] /\ call' \in [Loggers -> Calls]
  BY DEF LoggerInv, LoggerTypeOK, Output, Step, Calls, Places
<1>3. \A u \in Loggers : u # t => call'[u] = call[u]
  BY <1>2 DEF Output, Step
<1>4. call'[t].n = call[t].n /\ call'[t].pc = "unlock"
  BY <1>2 DEF Output, Step, Calls
<1>5. /\ k \in 1..Size /\ log_buf[k] = Newline /\ call[t].n \in 1..MaxCalls
      /\ \A i \in 1..(k - 1) : log_buf[i] = <<t, call[t].n>>
  BY <1>1 DEF LoggerInv, HandInv, Begun
<1>6. ASSUME text' # text
      PROVE  /\ text' \in Seq(Cells) /\ Len(text') = k
             /\ \A i \in 1..k : text'[i] = log_buf[i]
  <2>1. text' = SubSeq(log_buf, 1, k)
    BY <1>6 DEF Output
  <2>2. log_buf \in [1..Size -> Cells]
    BY DEF LoggerInv, LoggerTypeOK
  <2>3. log_buf \in Seq(Cells) /\ Len(log_buf) = Size
    BY <2>2
  <2>. QED
    BY <2>1, <2>2, <2>3, <1>5
<1>7. LoggerTypeOK'
  BY <1>1, <1>2, <1>6 DEF LoggerInv, LoggerTypeOK
<1>8. LockInv'
  BY <1>1, <1>3, <1>4 DEF LoggerInv, LockInv, Holding
<1>9. HandInv'
  BY <1>1, <1>3, <1>4, <1>5 DEF LoggerInv, HandInv, Begun
<1>10. LinesWhole'
  <2>1. CASE text' = text
    BY <2>1 DEF LoggerInv, LinesWhole
  <2>2. CASE text' # text
    <3>1. Len(text') = k /\ text'[k] = Newline
      BY <2>2, <1>5, <1>6
    <3>2. \A i \in 1..(Len(text') - 1) : text'[i] = <<t, call[t].n>>
      <4>1. \A i \in 1..(k - 1) : i \in 1..k
        BY <1>5
      <4>2. /\ \A i \in 1..k : text'[i] = log_buf[i]
            /\ \A i \in 1..(k - 1) : log_buf[i] = <<t, call[t].n>>
        BY <2>2, <1>5, <1>6
      <4> HIDE DEF k
      <4>. QED
        BY <3>1, <4>1, <4>2
    <3>. QED
      BY <1>5, <3>1, <3>2 DEF LinesWhole
  <2>. QED
    BY <2>1, <2>2
<1>. QED
  BY <1>7, <1>8, <1>9, <1>10 DEF LoggerInv

\* Giving the lock back ends the call, and its line has been written by then.
LEMMA UnlockKeeps ==
    ASSUME LoggerInv, NEW t \in Loggers, Unlock(t) PROVE LoggerInv'
<1>1. /\ UNCHANGED <<logfile, elog, log_buf, text>> /\ lock' = lock \ {t}
      /\ call[t].pc = "unlock"
  BY DEF Unlock, Released
<1>2. call \in [Loggers -> Calls] /\ call' \in [Loggers -> Calls]
  BY DEF LoggerInv, LoggerTypeOK, Unlock, Step, Calls, Places
<1>3. \A u \in Loggers : u # t => call'[u] = call[u]
  BY <1>2 DEF Unlock, Step
<1>4. call'[t].n = call[t].n /\ call'[t].pc = "idle"
  BY <1>2 DEF Unlock, Step, Calls
<1>5. LoggerTypeOK'
  BY <1>1, <1>2 DEF LoggerInv, LoggerTypeOK
<1>6. LockInv'
  BY <1>1, <1>3, <1>4 DEF LoggerInv, LockInv, Holding
<1>7. HandInv'
  BY <1>1, <1>3, <1>4 DEF LoggerInv, HandInv, Begun
<1>8. LinesWhole'
  BY <1>1 DEF LoggerInv, LinesWhole
<1>. QED
  BY <1>5, <1>6, <1>7, <1>8 DEF LoggerInv

\* Every step of the logger keeps the invariant: the lemmas above, by cases.
LEMMA LoggerKeeps ==
    ASSUME LoggerInv, [LoggerNext]_logVars PROVE LoggerInv'
<1>1. CASE UNCHANGED logVars
  <2>1. UNCHANGED <<logfile, elog, lock, log_buf, call, text>>
    BY <1>1 DEF logVars
  <2>2. LoggerTypeOK' /\ LockInv'
    BY <2>1 DEF LoggerInv, LoggerTypeOK, LockInv
  <2>3. HandInv' /\ LinesWhole'
    BY <2>1 DEF LoggerInv, HandInv, Begun, LinesWhole
  <2>. QED
    BY <2>2, <2>3 DEF LoggerInv
<1>2. CASE LoggerNext
  BY <1>2, RestartKeeps, OpenCloseKeep, LogKeeps, LockKeeps, PackageKeeps, PackageNewlineKeeps,
     OutputKeeps, UnlockKeeps DEF LoggerNext, ElogOutput
<1>. QED
  BY <1>1, <1>2

\* The logger is well typed and its cells stay within log_buf (elog_output).
THEOREM LoggerTyped == LoggerSpec => []LoggerTypeOK
<1>1. LoggerInit => LoggerInv
  BY LoggerStart
<1>2. LoggerInv /\ [LoggerNext]_logVars => LoggerInv'
  BY LoggerKeeps
<1>3. LoggerInv => LoggerTypeOK
  BY DEF LoggerInv
<1>. QED
  BY <1>1, <1>2, <1>3, PTL DEF LoggerSpec

\* Whatever threads log what at which level, over restarts, every line of the log is one
\* call from its first cell to its newline sign (elog_output, elog_output_lock).
THEOREM LinesAreWhole == LoggerSpec => []LinesWhole
<1>1. LoggerInit => LoggerInv
  BY LoggerStart
<1>2. LoggerInv /\ [LoggerNext]_logVars => LoggerInv'
  BY LoggerKeeps
<1>3. LoggerInv => LinesWhole
  BY DEF LoggerInv
<1>. QED
  BY <1>1, <1>2, <1>3, PTL DEF LoggerSpec

-----------------------------------------------------------------------------
(* The log of the daemon *)

\* What the daemon does with its log is what the logger offers.
LEMMA StepLogs ==
    ASSUME [Next]_vars PROVE [LoggerNext]_logVars
<1> USE ResourcesAssumption DEF ResourcesAssumption, LoggerNext
<1>1. \A level \in Levels, len \in Lengths :
         Log("main", level, len) \/ Log("command", level, len) => LoggerNext
  OBVIOUS
<1>2. CASE UNCHANGED vars
  BY <1>2 DEF vars
<1>3. CASE MainSteps
  <2>1. CASE Launch
    BY <2>1 DEF Launch
  <2>2. CASE OpenLog
    BY <2>2 DEF OpenLog, Ends
  <2>3. CASE StartLog
    BY <2>3 DEF StartLog
  <2>4. CASE Wait
    BY <2>4, <1>1 DEF Wait
  <2>5. CASE NoSharedMemory
    BY <2>5, <1>1 DEF NoSharedMemory
  <2>6. CASE CloseLog
    BY <2>6 DEF CloseLog
  <2>7. CASE Report
    BY <2>7, <1>1 DEF Report
  <2>8. CASE ReadSettings \/ NewRtu \/ Connect \/ Configure \/ CheckParameters \/ ServoOn
    BY <2>8 DEF ReadSettings, NewRtu, Connect, Configure, CheckParameters, ServoOn
  <2>9. CASE OpenUart \/ SetSpeed \/ SetParity \/ Listen \/ LoopEnds \/ ServeOff
    BY <2>9 DEF OpenUart, SetSpeed, SetParity, Listen, Fails, Ends, LoopEnds, ServeOff
  <2>10. CASE CloseRtu \/ CloseUart \/ Return \/ GiveBack
    BY <2>10 DEF CloseRtu, CloseUart, Return, Ends, GiveBack
  <2>. QED
    BY <1>3, <2>1, <2>2, <2>3, <2>4, <2>5, <2>6, <2>7, <2>8, <2>9, <2>10 DEF MainSteps
<1>4. CASE CommandSteps \/ WritesClosed
  BY <1>4 DEF CommandSteps, Stop, Transact, Answered, UsesFreed, WritesClosed
<1>5. CASE LogFailure
  BY <1>5, <1>1 DEF LogFailure
<1>6. CASE \E t \in Loggers : Logs(t)
  BY <1>6 DEF Logs
<1>7. CASE Crash \/ Edit \/ Reset
  BY <1>7 DEF Crash, Ends, Edit, Reset
<1>. QED
  BY <1>2, <1>3, <1>4, <1>5, <1>6, <1>7 DEF Next

\* The daemon implements the logger: it opens and closes the file at the right places and
\* no thread is in two calls (main, run_cmd, elog_output).
THEOREM DaemonLogs == Spec => LoggerSpec
<1>1. Init => LoggerInit
  BY DEF Init
<1>2. [Next]_vars => [LoggerNext]_logVars
  BY StepLogs
<1>. QED
  BY <1>1, <1>2, PTL DEF Spec, LoggerSpec

\* The lines of the daemon's log are whole, though main and the command thread log at once,
\* the process is killed and the file is closed under a line (elog_output, elog_close).
THEOREM DaemonLinesWhole == Spec => []LinesWhole
BY DaemonLogs, LinesAreWhole, PTL

-----------------------------------------------------------------------------
(* The freed context *)

Serving == {"serve", "serve_off", "close_rtu", "close_uart", "close_log", "return"}
LettingGo == {"close_rtu", "close_uart", "close_log", "return"}

\* Only a process that serves has a command thread, main releases the servo before it gives
\* anything back, and the context is freed at the two ends of main only.
ReleaseInv ==
    /\ command # "none" => boot \in Serving
    /\ boot \in LettingGo => released
    /\ ctx = "freed" => boot \in {"report", "give_back", "close_uart", "close_log", "return"}
    /\ FaultsOnlyReleased

\* Every step of main and the command thread keeps what is said of release and context.
LEMMA ReleaseKeeps ==
    ASSUME ReleaseInv, [Next]_vars PROVE ReleaseInv'
<1> USE DEF ReleaseInv, FaultsOnlyReleased, Serving, LettingGo, At, To, Well, Fails, Ends, Gone,
            lines, past
<1>1. CASE UNCHANGED vars
  BY <1>1 DEF vars, resVars
<1>2. CASE MainSteps
  <2>1. CASE Launch \/ OpenLog \/ StartLog \/ ReadSettings
    BY <2>1 DEF Launch, OpenLog, StartLog, ReadSettings
  <2>2. CASE NewRtu \/ Connect \/ Configure \/ CheckParameters \/ ServoOn
    BY <2>2 DEF NewRtu, Connect, Configure, CheckParameters, ServoOn
  <2>3. CASE OpenUart \/ SetSpeed \/ SetParity \/ Wait \/ Listen \/ NoSharedMemory
    BY <2>3 DEF OpenUart, SetSpeed, SetParity, Wait, Listen, NoSharedMemory
  <2>4. CASE LoopEnds \/ ServeOff \/ CloseRtu
    BY <2>4 DEF LoopEnds, AfterLoop, ServeOff, CloseRtu, GivesBackRtu
  <2>5. CASE CloseUart \/ CloseLog \/ Return \/ Report \/ GiveBack
    BY <2>5 DEF CloseUart, CloseLog, Return, Report, GiveBack
  <2>. QED
    BY <1>2, <2>1, <2>2, <2>3, <2>4, <2>5 DEF MainSteps
<1>3. CASE CommandSteps \/ LogFailure \/ WritesClosed
  <2>1. CASE Stop \/ Transact \/ Answered \/ LogFailure
    BY <2>1 DEF Stop, Transact, Answered, LogFailure, rest
  <2>2. CASE UsesFreed \/ WritesClosed
    BY <2>2 DEF UsesFreed, WritesClosed, rest
  <2>. QED
    BY <1>3, <2>1, <2>2 DEF CommandSteps
<1>4. CASE \E t \in Loggers : Logs(t)
  BY <1>4 DEF Logs, resVars
<1>5. CASE Crash \/ Edit \/ Reset
  BY <1>5 DEF Crash, Edit, Reset
<1>. QED
  BY <1>1, <1>2, <1>3, <1>4, <1>5 DEF Next

\* Whatever the command thread is doing when main frees the context and closes the log, a
\* process that ends in either has asked the amplifier to let go of the shaft (main after its
\* loop).
THEOREM FaultsAreReleased == Spec => []FaultsOnlyReleased
<1>1. Init => ReleaseInv
  BY DEF Init, ReleaseInv, FaultsOnlyReleased, LettingGo
<1>2. ReleaseInv /\ [Next]_vars => ReleaseInv'
  BY ReleaseKeeps
<1>3. ReleaseInv => FaultsOnlyReleased
  BY DEF ReleaseInv
<1>. QED
  BY <1>1, <1>2, <1>3, PTL DEF Spec

-----------------------------------------------------------------------------
(* The settings *)

\* What the two lines are set to by a configuration, whatever was there before.
RtuMade(a)   == RtuSetting(a, Kernel)
UartKnown(a) == a.speed \in UartSpeeds /\ UartTakes(a)
UartMade(a)  == [speed |-> a.speed, bits |-> a.bits,
                 parity |-> IF a.parity = "S" THEN "N" ELSE a.parity,
                 stop |-> a.stop, raw |-> TRUE]

RtuGood(c)  == RtuMade(c.rtu) = Amplifier
UartGood(c) == UartKnown(c.uart) => UartMade(c.uart) = Encoder

\* modbus_new_rtu and its connect set the whole line: nothing is left of what the kernel had.
LEMMA RtuForgets ==
    ASSUME NEW a, NEW line PROVE RtuSetting(a, line) = RtuMade(a)
BY DEF RtuMade, RtuSetting, RtuSpeed

\* A speed set_speed knows and a frame set_Parity knows leave nothing of the old setting either.
LEMMA UartForgets ==
    ASSUME NEW a \in Asked, NEW line \in Setting, UartKnown(a), line.speed = a.speed
    PROVE  UartFrame(a, line) = UartMade(a)
BY DEF UartKnown, UartMade, UartFrame, UartTakes, Setting, Asked

\* Whatever is asked for, the line has some setting afterwards.
LEMMA UartStays ==
    ASSUME NEW a \in Asked, NEW line \in Setting
    PROVE  UartSpeed(a, line) \in Setting /\ UartFrame(a, line) \in Setting
<1>1. UartSpeed(a, line) \in Setting
  BY DEF UartSpeed, Setting, Asked
<1>2. UartFrame(a, line) \in Setting
  BY DEF UartFrame, UartTakes, Setting, Asked, Parities
<1>. QED
  BY <1>1, <1>2

Checked == {"servo", "uart", "speed", "frame", "wait", "listen"}

\* From main's check on the amplifier's line is known to be good, from its wait on the
\* encoder's; only a configuration of which both are known comes to serve.
SettingsInv ==
    /\ conf \in [rtu : RtuConfs, uart : UartConfs] /\ given \in [rtu : RtuConfs, uart : UartConfs]
    /\ "uart" \in DOMAIN tty /\ "rtu" \in DOMAIN tty /\ tty.uart \in Setting
    /\ boot = "check" => tty.rtu = RtuMade(given.rtu)
    /\ boot \in Checked => RtuGood(given)
    /\ boot = "frame" /\ UartKnown(given.uart) => tty.uart.speed = given.uart.speed
    /\ boot = "wait" /\ UartKnown(given.uart) => tty.uart = UartMade(given.uart)
    /\ boot = "listen" /\ ~g_stop => UartGood(given)
    /\ command # "none" => boot \in Serving
    /\ \A c \in served : RtuGood(c) /\ UartGood(c)

\* Every step keeps what is said of the two lines.
LEMMA SettingsKeep ==
    ASSUME SettingsInv, [Next]_vars PROVE SettingsInv'
<1> USE SettingsAssumption DEF SettingsAssumption, SettingsInv, Checked, Serving, At, To, Well, Fails,
        lines, past
<1>1. CASE UNCHANGED vars
  BY <1>1 DEF vars, resVars
<1>2. CASE Launch \/ OpenLog \/ StartLog \/ ReadSettings
  BY <1>2 DEF Launch, OpenLog, StartLog, ReadSettings, Ends, Gone
<1>3. CASE NewRtu \/ Connect
  BY <1>3 DEF NewRtu, Connect
<1>4. CASE Configure
  BY <1>4, RtuForgets DEF Configure
<1>5. CASE CheckParameters \/ ServoOn \/ OpenUart
  BY <1>5 DEF CheckParameters, RtuGood, ServoOn, OpenUart
<1>6. CASE SetSpeed
  BY <1>6, UartStays DEF SetSpeed, UartSpeed, UartKnown, Setting, RtuGood
<1>7. CASE SetParity
  BY <1>7, UartStays, UartForgets DEF SetParity, RtuGood
<1>8. CASE Wait
  BY <1>8 DEF Wait, UartGood, RtuGood
<1>9. CASE Listen
  BY <1>9 DEF Listen, Ends, Gone, UartGood, RtuGood
<1>10. CASE NoSharedMemory \/ LoopEnds \/ ServeOff \/ CloseUart \/ CloseLog \/ Return \/ Report
  BY <1>10 DEF NoSharedMemory, LoopEnds, AfterLoop, ServeOff, CloseUart, CloseLog, Return, Report, Ends, Gone
<1>11. CASE CloseRtu \/ GiveBack
  BY <1>11 DEF CloseRtu, GivesBackRtu, GiveBack, Gone
<1>12. CASE CommandSteps \/ LogFailure \/ WritesClosed
  BY <1>12 DEF CommandSteps, Stop, Transact, Answered, UsesFreed, LogFailure, WritesClosed, rest, Gone
<1>13. CASE \E t \in Loggers : Logs(t)
  BY <1>13 DEF Logs, resVars
<1>14. CASE Crash \/ Edit \/ Reset
  BY <1>14 DEF Crash, Edit, Reset, Ends, Gone
<1>. QED
  BY <1>1, <1>2, <1>3, <1>4, <1>5, <1>6, <1>7, <1>8, <1>9, <1>10, <1>11, <1>12, <1>13, <1>14
     DEF Next, MainSteps

\* A configuration the daemon has served with is good for every later start, whatever
\* other configurations, kills and resets of the board have left in the kernel
\* (_modbus_rtu_connect, set_speed, set_Parity).
THEOREM ServedWorksAgain == Spec => []WorksAgain
<1>1. Init => SettingsInv
  BY SettingsAssumption DEF SettingsAssumption, Init, SettingsInv, Checked, Serving
<1>2. SettingsInv /\ [Next]_vars => SettingsInv'
  BY SettingsKeep
<1>3. SettingsInv => WorksAgain
  BY DEF SettingsInv, WorksAgain, RtuGood, UartGood, UartKnown
<1>. QED
  BY <1>1, <1>2, <1>3, PTL DEF Spec

=============================================================================
