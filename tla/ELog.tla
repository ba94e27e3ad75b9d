--------------------------------- MODULE ELog ---------------------------------
(***************************************************************************)
(* elog.c and esyslog.c: three statics say where the messages of the       *)
(* process go, and a fourth holds the socket of the syslog.  They name     *)
(* descriptors, which the kernel hands out again, the lowest first, to     *)
(* whatever the process opens next.  The log is not thread safe: an        *)
(* operation is one step.                                                  *)
(*                                                                         *)
(* A message is its level and the length of the text that vsnprintf makes  *)
(* of it.  For the file its format has been cut to FORMAT_BUFFER_SIZE      *)
(* before, with level and time in front; what that leaves of a longer one, *)
(* the wording, the time stamp and the peer's address are left out.        *)
(***************************************************************************)
EXTENDS Integers, FiniteSets

CONSTANTS
  MaxFd,        \* the process has the descriptors 1 and 3..MaxFd
  SetLevels,    \* the levels given to log_set_level, log_level_int's -1 too
  Levels,       \* the levels given to log_by_level
  Lengths,      \* the lengths of formatted messages, of formats as cut
  LineSize,     \* LINE_BUFFER_SIZE
  DatagramSize, \* the buffer of syslog_write
  HeaderSize    \* what syslog_write puts before the text

VARIABLES
  fds,         \* fds[d]: what descriptor d is open on, or "free"
  log_fd, log_dst, log_level,
  sock_fd,     \* syslog_sock_fd
  sent,        \* history: the last message that left, where to and how long
  failed       \* history: log_set_file closed log_fd and then failed

statics == <<log_fd, log_dst, log_level, sock_fd>>
vars == <<fds, statics, sent, failed>>

Debug == 0
Info == 1
Warn == 2
Error == 3
Stdout == 1
Fds == {1} \cup 3..MaxFd
Nothing == [call |-> "none", to |-> "nowhere", index |-> 0, text |-> 0, len |-> 0, nul |-> FALSE]

FreeFds == {d \in Fds : fds[d] = "free"}
Lowest(d, ds) == d \in ds /\ \A e \in ds : d <= e

-----------------------------------------------------------------------------
Init ==
  /\ fds = [d \in Fds |-> IF d = Stdout THEN "stdout" ELSE "free"]
  /\ log_fd = Stdout /\ log_dst = "console" /\ log_level = Info
  /\ sock_fd = -1
  /\ sent = Nothing /\ failed = FALSE

(* The rest of the process opens and closes files of its own.              *)
AppOpens ==
  /\ \E d \in FreeFds : Lowest(d, FreeFds) /\ fds' = [fds EXCEPT ![d] = "app"]
  /\ UNCHANGED <<statics, sent, failed>>

AppCloses(d) ==
  /\ fds[d] = "app" /\ fds' = [fds EXCEPT ![d] = "free"]
  /\ UNCHANGED <<statics, sent, failed>>

(* Mutant: the old file is closed only while it is the destination.        *)
OldClosedIfFile == IF log_dst = "file" THEN [fds EXCEPT ![log_fd] = "free"] ELSE fds

(* log_set_file closes what log_fd names, whatever that is by now ...      *)
OldClosed == IF log_fd # Stdout THEN [fds EXCEPT ![log_fd] = "free"] ELSE fds

(* ... before it opens the new file ...                                    *)
SetFile ==
  LET left == {d \in Fds : OldClosed[d] = "free"} IN
  \E d \in left :
    /\ Lowest(d, left) /\ fds' = [OldClosed EXCEPT ![d] = "log"]
    /\ log_fd' = d /\ log_dst' = "file"
    /\ UNCHANGED <<log_level, sock_fd, sent, failed>>

(* ... and when that fails log_fd is not a file of the log any more.       *)
SetFileFails ==
  /\ fds' = OldClosed /\ failed' = (failed \/ log_fd # Stdout)
  /\ UNCHANGED <<statics, sent>>

(* log_set_syslog: every answer of syslog_open but 0 counts as success.    *)
(* The socket of an earlier syslog_open is not closed.  A bad facility is  *)
(* noticed when the socket is there.                                       *)
SyslogOpen ==
  /\ \E d \in FreeFds : /\ Lowest(d, FreeFds) /\ sock_fd' = d
                        /\ fds' = [fds EXCEPT ![d] = "sock"]
  /\ log_dst' = "syslog"
  /\ UNCHANGED <<log_fd, log_level, sent, failed>>

SyslogOpenFails ==
  /\ sock_fd' = -1 /\ log_dst' = "syslog"
  /\ UNCHANGED <<fds, log_fd, log_level, sent, failed>>

(* Mutant: log_fd keeps the number of the closed descriptor.               *)
LogCloseKeepsFd ==
  /\ log_dst # "syslog" /\ log_fd >= 3
  /\ fds' = [fds EXCEPT ![log_fd] = "free"]
  /\ UNCHANGED <<statics, sent, failed>>

(* log_close: the file, unless the destination is the syslog ...           *)
LogClose ==
  /\ log_dst # "syslog" /\ log_fd >= 3
  /\ fds' = [fds EXCEPT ![log_fd] = "free"] /\ log_fd' = Stdout
  /\ UNCHANGED <<log_dst, log_level, sock_fd, sent, failed>>

(* ... and then syslog_close, the destination being what it was.           *)
SyslogClose ==
  /\ log_dst = "syslog" /\ sock_fd >= 0
  /\ fds' = [fds EXCEPT ![sock_fd] = "free"] /\ sock_fd' = -1
  /\ UNCHANGED <<log_fd, log_dst, log_level, sent, failed>>

(* log_set_level looks at the level it replaces, not at the one it stores. *)
SetLevel(l) ==
  /\ log_level' = IF log_level < Debug THEN Debug
                  ELSE IF log_level > Error THEN Error ELSE l
  /\ UNCHANGED <<fds, log_fd, log_dst, sock_fd, sent, failed>>

-----------------------------------------------------------------------------
(* Mutant: the length vsnprintf asked for is believed.                     *)
LineLenBelieved(n) == n + 1

(* vsnprintf stores at most LineSize - 3 bytes and a 0, and answers what   *)
(* it would have liked to store; the line end goes behind that, or behind  *)
(* the 0 when it was cut.                                                  *)
LineLen(n) == (IF n > LineSize - 2 THEN LineSize - 2 ELSE n) + 1
Stored(n)  == IF n > LineSize - 3 THEN LineSize - 3 ELSE n

Datagram(n) == HeaderSize + (IF DatagramSize - HeaderSize > n THEN n
                             ELSE DatagramSize - HeaderSize)

Clamped(l) == IF l > Error THEN Error ELSE l

Emit(call, d, l, n, len) ==
  sent' = [call |-> call, to |-> fds[d], index |-> l, text |-> n, len |-> len,
           nul |-> LineLen(n) > Stored(n) + 1]

(* A message that passes: to the descriptor log_fd names ...               *)
ToFile(l, n) ==
  /\ log_dst # "syslog" /\ n > 0
  /\ Emit("write", log_fd, l, n, LineLen(n))

(* ... or to the syslog, which answers 0 when its socket is not open.      *)
ToSyslog(l, n) ==
  /\ log_dst = "syslog" /\ n > 0 /\ sock_fd >= 0
  /\ Emit("sendto", sock_fd, l, n, Datagram(LineLen(n)))

Log(l, n) ==
  /\ l >= log_level
  /\ ToFile(Clamped(l), n) \/ ToSyslog(Clamped(l), n)
  /\ UNCHANGED <<fds, statics, failed>>

log_by_level(l, n) == Log(l, n)
log_debug(n) == Log(Debug, n)
log_info(n)  == Log(Info, n)
log_warn(n)  == Log(Warn, n)
log_error(n) == Log(Error, n)

Next ==
  \/ AppOpens \/ \E d \in Fds : AppCloses(d)
  \/ SetFile \/ SetFileFails \/ SyslogOpen \/ SyslogOpenFails
  \/ LogClose \/ SyslogClose
  \/ \E l \in SetLevels : SetLevel(l)
  \/ \E n \in Lengths :
       \/ \E l \in Levels : log_by_level(l, n)
       \/ log_debug(n) \/ log_info(n) \/ log_warn(n) \/ log_error(n)

Spec == Init /\ [][Next]_vars

-----------------------------------------------------------------------------
(* Whatever level was stored, by however many calls, a message's level     *)
(* that the caller did not make negative is an index of log_level_map and  *)
(* of syslog_level_map.                                                    *)
TypeOK ==
  /\ log_fd \in Fds /\ sock_fd \in Fds \cup {-1}
  /\ log_dst \in {"console", "file", "syslog"} /\ log_level \in Int
  /\ sent.index \in Debug..Error

(* The descriptors the log names are its own: stdout, its file, its        *)
(* socket.  Only a log_set_file that failed leaves it with one that is     *)
(* closed, and soon another's.                                             *)
OwnsItsFds ==
  ~failed =>
    /\ fds[log_fd] = IF log_fd = Stdout THEN "stdout" ELSE "log"
    /\ sock_fd # -1 => fds[sock_fd] = "sock"

(* No call of the log, in any order, closes a descriptor of the rest of    *)
(* the process, unless a log_set_file has failed before.                   *)
ClosesItsOwn ==
  \A d \in Fds : fds[d] = "app" /\ fds'[d] # "app" => failed \/ AppCloses(d)

(* Changing the destination to and fro leaks no file.                      *)
OneLogFile == Cardinality({d \in Fds : fds[d] = "log"}) <= 1

(* What is handed to write and sendto lies in the buffers; the text of the *)
(* format, as it was cut, comes out whole, with its line end, when it fits *)
(* the line, and is cut there when it does not.                            *)
LineInBuffer ==
  /\ sent.len <= (IF sent.call = "sendto" THEN DatagramSize ELSE LineSize)
  /\ sent.call = "write" /\ sent.text <= LineSize - 3
       => sent.len = sent.text + 1 /\ ~sent.nul
=============================================================================
