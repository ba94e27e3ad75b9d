------------------------------ MODULE ELogProofs ------------------------------
(***************************************************************************)
(* The log and the descriptors of its process: for any number of           *)
(* descriptors, and any sizes of the buffers, levels and messages.         *)
(***************************************************************************)
EXTENDS ELog, FiniteSetTheorems, TLAPS

(* What the proofs ask of the constants: the levels that callers pass to   *)
(* the loggers are not negative, and the header of a datagram fits it.     *)
Sound ==
  /\ MaxFd \in Int /\ SetLevels \subseteq Int /\ Levels \subseteq Nat
  /\ Lengths \subseteq Int /\ LineSize \in Nat
  /\ DatagramSize \in Nat /\ HeaderSize \in Nat /\ HeaderSize <= DatagramSize

(* The descriptors: what they are open on, and that only log_fd can be a   *)
(* file of the log, whatever failed.  Nobody closes stdout.                *)
FdsInv ==
  /\ fds \in [Fds -> {"free", "stdout", "app", "log", "sock"}]
  /\ failed \in BOOLEAN
  /\ fds[Stdout] = "stdout" /\ sock_fd # Stdout
  /\ \A d \in Fds : fds[d] = "log" => d = log_fd

IInv == TypeOK /\ FdsInv /\ OwnsItsFds

LEMMA StdoutIsFd == Stdout \in Fds /\ -1 \notin Fds
BY DEF Stdout, Fds

LEMMA InitInv == ASSUME Sound PROVE Init => IInv
<1>. SUFFICES ASSUME Init PROVE IInv
  OBVIOUS
<1>1. TypeOK
  BY StdoutIsFd DEF Init, TypeOK, Nothing, Debug, Error, Info
<1>2. FdsInv /\ OwnsItsFds
  BY StdoutIsFd DEF Init, FdsInv, OwnsItsFds, Stdout
<1>3. QED BY <1>1, <1>2 DEF IInv

-----------------------------------------------------------------------------
(* The steps that open and close descriptors keep the invariant.           *)
LEMMA AppOpensInv == ASSUME Sound, IInv, AppOpens PROVE IInv'
<1>. USE DEF AppOpens, statics
<1>1. TypeOK'
  BY DEF IInv, TypeOK
<1>2. FdsInv'
  BY DEF IInv, FdsInv, FreeFds
<1>3. OwnsItsFds'
  BY StdoutIsFd DEF IInv, TypeOK, FdsInv, OwnsItsFds, FreeFds
<1>4. QED BY <1>1, <1>2, <1>3 DEF IInv

LEMMA AppClosesInv == ASSUME Sound, IInv, NEW d \in Fds, AppCloses(d) PROVE IInv'
<1>. USE DEF AppCloses, statics
<1>1. TypeOK'
  BY DEF IInv, TypeOK
<1>2. FdsInv'
  BY StdoutIsFd DEF IInv, FdsInv
<1>3. OwnsItsFds'
  BY StdoutIsFd DEF IInv, TypeOK, FdsInv, OwnsItsFds
<1>4. QED BY <1>1, <1>2, <1>3 DEF IInv

(* Closing the old file leaves no file of the log, and touches no other.   *)
LEMMA OldClosedClosesFile ==
  ASSUME IInv
  PROVE  /\ OldClosed \in [Fds -> {"free", "stdout", "app", "log", "sock"}]
         /\ OldClosed[Stdout] = "stdout"
         /\ \A d \in Fds : OldClosed[d] # "log"
         /\ \A d \in Fds : d # log_fd \/ log_fd = Stdout => OldClosed[d] = fds[d]
BY StdoutIsFd DEF IInv, TypeOK, FdsInv, OldClosed

LEMMA SetFileInv == ASSUME Sound, IInv, SetFile PROVE IInv'
<1>. PICK d \in {e \in Fds : OldClosed[e] = "free"} :
       /\ fds' = [OldClosed EXCEPT ![d] = "log"] /\ log_fd' = d /\ log_dst' = "file"
       /\ UNCHANGED <<log_level, sock_fd, sent, failed>>
  BY DEF SetFile
<1>1. TypeOK'
  BY DEF IInv, TypeOK
<1>2. FdsInv'
  BY OldClosedClosesFile, StdoutIsFd DEF IInv, FdsInv
<1>3. OwnsItsFds'
  <2>. SUFFICES ASSUME ~failed PROVE OwnsItsFds'
    BY DEF OwnsItsFds
  <2>1. fds'[log_fd'] = "log" /\ log_fd' # Stdout
    BY OldClosedClosesFile
  <2>2. ASSUME sock_fd # -1 PROVE fds'[sock_fd] = "sock"
    BY <2>2, OldClosedClosesFile DEF IInv, TypeOK, FdsInv, OwnsItsFds
  <2>3. QED BY <2>1, <2>2 DEF OwnsItsFds
<1>4. QED BY <1>1, <1>2, <1>3 DEF IInv

LEMMA SetFileFailsInv == ASSUME Sound, IInv, SetFileFails PROVE IInv'
<1>. USE DEF SetFileFails, statics
<1>1. TypeOK'
  BY DEF IInv, TypeOK
<1>2. FdsInv'
  BY OldClosedClosesFile DEF IInv, FdsInv
<1>3. OwnsItsFds'
  BY OldClosedClosesFile, StdoutIsFd DEF IInv, TypeOK, FdsInv, OwnsItsFds
<1>4. QED BY <1>1, <1>2, <1>3 DEF IInv

LEMMA SyslogOpenInv == ASSUME Sound, IInv, SyslogOpen PROVE IInv'
<1>. PICK d \in FreeFds :
       /\ sock_fd' = d /\ fds' = [fds EXCEPT ![d] = "sock"] /\ log_dst' = "syslog"
       /\ UNCHANGED <<log_fd, log_level, sent, failed>>
  BY DEF SyslogOpen
<1>1. TypeOK'
  BY DEF IInv, TypeOK, FreeFds
<1>2. FdsInv'
  BY DEF IInv, FdsInv, FreeFds
<1>3. OwnsItsFds'
  BY DEF IInv, TypeOK, FdsInv, OwnsItsFds, FreeFds
<1>4. QED BY <1>1, <1>2, <1>3 DEF IInv

LEMMA LogCloseInv == ASSUME Sound, IInv, LogClose PROVE IInv'
<1>. USE DEF LogClose
<1>1. TypeOK'
  BY StdoutIsFd DEF IInv, TypeOK
<1>2. FdsInv'
  BY StdoutIsFd DEF IInv, TypeOK, FdsInv, Stdout
<1>3. OwnsItsFds'
  BY StdoutIsFd DEF IInv, TypeOK, FdsInv, OwnsItsFds, Stdout
<1>4. QED BY <1>1, <1>2, <1>3 DEF IInv

LEMMA SyslogCloseInv == ASSUME Sound, IInv, SyslogClose PROVE IInv'
<1>. USE DEF SyslogClose
<1>1. TypeOK'
  BY DEF IInv, TypeOK
<1>2. FdsInv'
  BY StdoutIsFd DEF IInv, TypeOK, FdsInv, Stdout
<1>3. OwnsItsFds'
  BY StdoutIsFd DEF IInv, TypeOK, FdsInv, OwnsItsFds
<1>4. QED BY <1>1, <1>2, <1>3 DEF IInv

-----------------------------------------------------------------------------
(* A message touches no descriptor, and its level is in the tables.        *)
LEMMA LogInv ==
  ASSUME Sound, IInv, NEW l \in Nat, NEW n \in Lengths, Log(l, n) PROVE IInv'
<1>1. UNCHANGED <<fds, log_fd, log_dst, log_level, sock_fd, failed>>
  BY DEF Log, statics
<1>2. sent'.index = Clamped(l)
  BY DEF Log, ToFile, ToSyslog, Emit
<1>3. Clamped(l) \in Debug..Error
  BY DEF Clamped, Debug, Error
<1>4. TypeOK'
  BY <1>1, <1>2, <1>3 DEF IInv, TypeOK
<1>5. FdsInv' /\ OwnsItsFds'
  BY <1>1 DEF IInv, FdsInv, OwnsItsFds
<1>6. QED BY <1>4, <1>5 DEF IInv

(* Every call of the five loggers is a call of Log.                        *)
LEMMA LoggersLog ==
  ASSUME Sound, NEW n \in Lengths,
         \/ \E l \in Levels : log_by_level(l, n)
         \/ log_debug(n) \/ log_info(n) \/ log_warn(n) \/ log_error(n)
  PROVE  \E l \in Nat : Log(l, n)
BY DEF Sound, log_by_level, log_debug, log_info, log_warn, log_error,
       Debug, Info, Warn, Error

LEMMA SetLevelInv == ASSUME Sound, IInv, NEW l \in SetLevels, SetLevel(l) PROVE IInv'
<1>1. log_level' \in Int
  BY DEF SetLevel, Sound, IInv, TypeOK, Debug, Error
<1>2. QED BY <1>1 DEF SetLevel, IInv, TypeOK, FdsInv, OwnsItsFds

LEMMA NextInv == ASSUME Sound, IInv, [Next]_vars PROVE IInv'
<1>1. CASE AppOpens
  BY <1>1, AppOpensInv
<1>2. ASSUME NEW d \in Fds, AppCloses(d) PROVE IInv'
  BY <1>2, AppClosesInv
<1>3. CASE SetFile
  BY <1>3, SetFileInv
<1>4. CASE SetFileFails
  BY <1>4, SetFileFailsInv
<1>5. CASE SyslogOpen
  BY <1>5, SyslogOpenInv
<1>6. CASE SyslogOpenFails
  BY <1>6 DEF SyslogOpenFails, IInv, TypeOK, FdsInv, OwnsItsFds, Stdout
<1>7. CASE LogClose
  BY <1>7, LogCloseInv
<1>8. CASE SyslogClose
  BY <1>8, SyslogCloseInv
<1>9. ASSUME NEW l \in SetLevels, SetLevel(l) PROVE IInv'
  BY <1>9, SetLevelInv
<1>10. ASSUME NEW n \in Lengths,
              \/ \E l \in Levels : log_by_level(l, n)
              \/ log_debug(n) \/ log_info(n) \/ log_warn(n) \/ log_error(n)
       PROVE  IInv'
  BY <1>10, LoggersLog, LogInv
<1>11. CASE UNCHANGED vars
  BY <1>11 DEF vars, statics, IInv, TypeOK, FdsInv, OwnsItsFds
<1>12. QED BY <1>1, <1>2, <1>3, <1>4, <1>5, <1>6, <1>7, <1>8, <1>9, <1>10, <1>11 DEF Next

LEMMA Invariance == ASSUME Sound PROVE Spec => []IInv
BY InitInv, NextInv, PTL DEF Spec

-----------------------------------------------------------------------------
(* The log's descriptors are its own, and the levels that reach the tables *)
(* of names are in them, after every sequence of calls, of the log and of  *)
(* the application, that had no log_set_file close a file and then fail.   *)
THEOREM LogOwnsItsFds == ASSUME Sound PROVE Spec => [](TypeOK /\ OwnsItsFds)
<1>1. IInv => TypeOK /\ OwnsItsFds
  BY DEF IInv
<1>2. QED BY <1>1, Invariance, PTL

(* However often the destination changes, at most one file is open.        *)
THEOREM LogHasOneFile == ASSUME Sound PROVE Spec => []OneLogFile
<1>1. ASSUME IInv PROVE OneLogFile
  <2>1. {d \in Fds : fds[d] = "log"} \subseteq {log_fd}
    BY <1>1 DEF IInv, FdsInv
  <2>2. IsFiniteSet({log_fd}) /\ Cardinality({log_fd}) = 1
    BY FS_Singleton
  <2>3. QED BY <2>1, <2>2, FS_Subset DEF OneLogFile
<1>2. QED BY <1>1, Invariance, PTL

(* No call of the log closes a descriptor of the application.              *)
THEOREM LogClosesItsOwn == ASSUME Sound PROVE Spec => [][ClosesItsOwn]_vars
<1>1. ASSUME IInv, Next PROVE ClosesItsOwn
  <2>. SUFFICES ASSUME NEW d \in Fds, fds[d] = "app", fds'[d] # "app", ~failed
                PROVE  AppCloses(d)
    BY DEF ClosesItsOwn
  <2>. fds \in [Fds -> {"free", "stdout", "app", "log", "sock"}]
    BY <1>1 DEF IInv, FdsInv
  <2>. d # log_fd /\ d # sock_fd
    BY <1>1, StdoutIsFd DEF IInv, TypeOK, OwnsItsFds
  <2>1. CASE AppOpens
    BY <2>1 DEF AppOpens, FreeFds
  <2>2. ASSUME NEW e \in Fds, AppCloses(e) PROVE AppCloses(d)
    BY <2>2 DEF AppCloses
  <2>3. CASE SetFile \/ SetFileFails
    BY <2>3, OldClosedClosesFile, <1>1 DEF SetFile, SetFileFails
  <2>4. CASE SyslogOpen \/ SyslogOpenFails
    BY <2>4 DEF SyslogOpen, SyslogOpenFails, FreeFds
  <2>5. CASE LogClose \/ SyslogClose
    BY <2>5 DEF LogClose, SyslogClose
  <2>6. CASE UNCHANGED fds
    BY <2>6
  <2>7. QED
    BY <1>1, <2>1, <2>2, <2>3, <2>4, <2>5, <2>6
       DEF Next, SetLevel, Log, statics,
           log_by_level, log_debug, log_info, log_warn, log_error
<1>2. IInv /\ [Next]_vars => [ClosesItsOwn]_vars
  BY <1>1
<1>3. QED BY <1>2, Invariance, PTL DEF Spec

-----------------------------------------------------------------------------
(* A line of n bytes takes no more than the buffer, and all of its text    *)
(* when that fits.                                                         *)
LEMMA LineFits ==
  ASSUME NEW n \in Int, n > 0, LineSize \in Nat
  PROVE  /\ LineLen(n) \in Int /\ LineLen(n) <= LineSize
         /\ n <= LineSize - 3 => LineLen(n) = n + 1 /\ Stored(n) = n
BY DEF LineLen, Stored

LEMMA DatagramFits ==
  ASSUME NEW n \in Int, Sound PROVE Datagram(n) <= DatagramSize
BY DEF Datagram, Sound

LEMMA LogFits ==
  ASSUME Sound, NEW l \in Nat, NEW n \in Lengths, Log(l, n) PROVE LineInBuffer'
<1>. n \in Int /\ n > 0 /\ LineSize \in Nat
  BY DEF Sound, Log, ToFile, ToSyslog
<1>1. CASE ToFile(Clamped(l), n)
  <2>1. sent'.call = "write" /\ sent'.text = n /\ sent'.len = LineLen(n)
        /\ sent'.nul = (LineLen(n) > Stored(n) + 1)
    BY <1>1 DEF ToFile, Emit
  <2>2. n <= LineSize - 3 => ~(LineLen(n) > Stored(n) + 1)
    BY LineFits
  <2>3. QED BY <2>1, <2>2, LineFits DEF LineInBuffer
<1>2. CASE ToSyslog(Clamped(l), n)
  <2>1. sent'.call = "sendto" /\ sent'.len = Datagram(LineLen(n))
    BY <1>2 DEF ToSyslog, Emit
  <2>2. QED BY <2>1, LineFits, DatagramFits DEF LineInBuffer
<1>3. QED BY <1>1, <1>2 DEF Log

(* No message, of any length, is written from beyond the line buffer or    *)
(* the datagram; one that fits comes out whole, with its line end; and its *)
(* level is in the tables.                                                 *)
THEOREM LogLinesFit == ASSUME Sound PROVE Spec => [](TypeOK /\ LineInBuffer)
<1>1. Init => LineInBuffer
  BY DEF Init, Nothing, LineInBuffer, Sound
<1>2. LineInBuffer /\ [Next]_vars => LineInBuffer'
  <2>. SUFFICES ASSUME LineInBuffer, [Next]_vars PROVE LineInBuffer'
    OBVIOUS
  <2>1. CASE sent' = sent
    BY <2>1 DEF LineInBuffer
  <2>2. ASSUME NEW n \in Lengths,
               \/ \E l \in Levels : log_by_level(l, n)
               \/ log_debug(n) \/ log_info(n) \/ log_warn(n) \/ log_error(n)
        PROVE  LineInBuffer'
    BY <2>2, LoggersLog, LogFits
  <2>3. QED
    BY <2>1, <2>2 DEF Next, vars, AppOpens, AppCloses, SetFile, SetFileFails,
       SyslogOpen, SyslogOpenFails, LogClose, SyslogClose, SetLevel
<1>3. IInv => TypeOK
  BY DEF IInv
<1>4. QED BY <1>1, <1>2, <1>3, Invariance, PTL DEF Spec
=============================================================================
