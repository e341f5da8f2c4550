------------------------------- MODULE Logger -------------------------------
(***************************************************************************)
(* EasyLogger as this daemon compiles and calls it (elog.c, elog_port.c):   *)
(* every thread formats its line in the one buffer log_buf under the output *)
(* lock and writes it to the log file, which main opens first of all and    *)
(* closes last.  Asynchronous and buffered output are off in elog_cfg.h.    *)
(*                                                                          *)
(* A line is a sequence of cells.  A cell holds the call that wrote it,     *)
(* the last one the newline sign.                                           *)
(***************************************************************************)
EXTENDS Integers, Sequences

CONSTANTS Loggers,     \* the threads that log
          Levels,      \* the levels they log at, ERROR and less severe ones
          Lengths,     \* cells of the level, tag, time and text of a line
          Size,        \* ELOG_LINE_BUF_SIZE
          Newline,     \* ELOG_NEWLINE_SIGN, a cell that is no call
          MaxCalls     \* bound: lines logged by a thread in one life

ASSUME LoggerAssumption ==
    /\ Levels \subseteq Nat
    /\ Lengths \subseteq Nat \ {0}
    /\ Size \in Nat \ {0}
    /\ MaxCalls \in Nat
    /\ Newline \notin Loggers \X Nat

VARIABLES
    logfile,   \* the FILE: "null", "open", "closed"
    elog,      \* the flags output_enabled, output_lock_enabled and the filter's level
    lock,      \* output_lock: who holds it, a set of at most one thread
    log_buf,   \* the buffer every line is made in
    call,      \* what each thread is doing in elog_output
    text       \* the last line of log.txt

logVars == <<logfile, elog, lock, log_buf, call, text>>

Cells  == (Loggers \X Nat) \cup {Newline}
Places == {"idle", "lock", "package", "output", "unlock"}
Idle   == [pc |-> "idle", n |-> 0, len |-> 0, log_len |-> 0]
Calls  == [pc : Places, n : Nat, len : Nat, log_len : Nat]

LoggerTypeOK ==
    /\ logfile \in {"null", "open", "closed"}
    /\ elog \in [enabled : BOOLEAN, locking : BOOLEAN, level : Nat]
    /\ lock \subseteq Loggers
    /\ log_buf \in [1..Size -> Cells]
    /\ call \in [Loggers -> Calls]
    /\ text \in Seq(Cells)

\* The static elog and log_buf are zero when a process starts.
ElogOff  == [enabled |-> FALSE, locking |-> FALSE, level |-> 0]
EmptyBuf == [i \in 1..Size |-> Newline]
NoCalls  == [t \in Loggers |-> Idle]

LoggerInit ==
    /\ logfile = "null" /\ elog = ElogOff /\ lock = {}
    /\ log_buf = EmptyBuf /\ call = NoCalls /\ text = <<>>

-----------------------------------------------------------------------------
(* Begin and end, by main.  VERBOSE is the highest level. *)

VERBOSE == 5

\* elog_port_init leaves the process when the file does not open: see the caller.
ElogInit ==
    /\ logfile = "null" /\ logfile' = "open"
    /\ elog' = [elog EXCEPT !.locking = TRUE, !.level = VERBOSE]
    /\ UNCHANGED <<lock, log_buf, call, text>>

ElogStart ==
    /\ logfile = "open" /\ elog' = [elog EXCEPT !.enabled = TRUE]
    /\ UNCHANGED <<logfile, lock, log_buf, call, text>>

ElogClose ==
    /\ logfile = "open" /\ logfile' = "closed"
    /\ UNCHANGED <<elog, lock, log_buf, call, text>>

-----------------------------------------------------------------------------
(* elog_output *)

Step(t, pc) == call' = [call EXCEPT ![t].pc = pc]

\* Output off or a level that is filtered: the call returns, nothing is packed.
Passes(level) == elog.enabled /\ level <= elog.level

Log(t, level, len) ==
    /\ call[t].pc = "idle" /\ call[t].n < MaxCalls
    /\ call' = [call EXCEPT ![t].n = @ + 1, ![t].len = len,
                            ![t].pc = IF Passes(level) THEN "lock" ELSE "idle"]
    /\ UNCHANGED <<logfile, elog, lock, log_buf, text>>

LockFreeAlways == TRUE
LockFree == elog.locking => lock = {}
Lock(t) ==
    /\ call[t].pc = "lock" /\ LockFree
    /\ lock' = lock \cup {t}
    /\ call' = [call EXCEPT ![t].pc = "package", ![t].log_len = 0]
    /\ UNCHANGED <<logfile, elog, log_buf, text>>

\* One piece after the other goes where log_len says; what does not fit with the newline
\* sign is left out.
Fits(c) == c.log_len < c.len /\ c.log_len + 1 < Size
Package(t) ==
    LET c == call[t] IN
    /\ c.pc = "package" /\ Fits(c)
    /\ log_buf' = [log_buf EXCEPT ![c.log_len + 1] = <<t, c.n>>]
    /\ call' = [call EXCEPT ![t].log_len = @ + 1]
    /\ UNCHANGED <<logfile, elog, lock, text>>

PackageNewline(t) ==
    LET c == call[t] IN
    /\ c.pc = "package" /\ ~Fits(c)
    /\ log_buf' = [log_buf EXCEPT ![c.log_len + 1] = Newline]
    /\ call' = [call EXCEPT ![t].log_len = @ + 1, ![t].pc = "output"]
    /\ UNCHANGED <<logfile, elog, lock, text>>

\* The stream has no buffer of its own: a line is one write.  On a FILE that was closed
\* the write is lost, when the process survives it.
Output(t) ==
    /\ call[t].pc = "output" /\ Step(t, "unlock")
    /\ text' = IF logfile = "open" THEN SubSeq(log_buf, 1, call[t].log_len) ELSE text
    /\ UNCHANGED <<logfile, elog, lock, log_buf>>

ReleasedNever(t) == lock
Released(t) == lock \ {t}
Unlock(t) ==
    /\ call[t].pc = "unlock" /\ Step(t, "idle")
    /\ lock' = Released(t)
    /\ UNCHANGED <<logfile, elog, log_buf, text>>

ElogOutput(t) ==
    \/ Lock(t) \/ Package(t) \/ PackageNewline(t) \/ Output(t) \/ Unlock(t)

\* A process ends and another begins; the file is opened to append.
LoggerRestart ==
    /\ logfile' = "null" /\ elog' = ElogOff /\ lock' = {}
    /\ log_buf' = EmptyBuf /\ call' = NoCalls
    /\ UNCHANGED text

LoggerNext ==
    \/ ElogInit \/ ElogStart \/ ElogClose \/ LoggerRestart
    \/ \E t \in Loggers :
         \/ \E level \in Levels, len \in Lengths : Log(t, level, len)
         \/ ElogOutput(t)

LoggerSpec == LoggerInit /\ [][LoggerNext]_logVars

-----------------------------------------------------------------------------
(* Properties *)

\* A line of the log is one call from its first cell to its newline sign, though threads log
\* at the same time, lines are too long for the buffer and the process is killed at any step
\* (elog_output, elog_output_lock, elog_port_output).
LinesWhole ==
    text # <<>> =>
        /\ text[Len(text)] = Newline
        /\ \E t \in Loggers, n \in 1..MaxCalls : \A i \in 1..(Len(text) - 1) : text[i] = <<t, n>>

=============================================================================
