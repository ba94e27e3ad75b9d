------------------------------- MODULE Library --------------------------------
(***************************************************************************)
(* The parts of the library that share no state, in one specification: a   *)
(* behaviour is one of one part, which Init picks, and the variables of    *)
(* the others are 0.  MCLibrary adds the parts that are written with       *)
(* recursion and the digest, and checks them all; LibraryProofs proves     *)
(* what is said here.                                                      *)
(***************************************************************************)
EXTENDS Integers, Sequences

CONSTANTS
  CR, LF, Garbage, Chunks, Rooms, InitSizes, MaxWritten,   \* EBuffer
  Procs, Sizes, MaxSegs, NoSegment,                        \* EShm
  LogMaxFd, SetLevels, Levels, Lengths, LineSize,          \* ELog
  DatagramSize, HeaderSize,
  Paths, Cut, Files,                                       \* EFiles, and Procs
  Keys, NoData, Slots, nrows,                              \* HashMap
  Ids, Ips, Names, GroupFiles,                             \* ServerConhash
  MaxFd,                                                   \* Sockets
  FileTexts, BufferSize, Urls, Spaces, FileNames, Strings, \* EProperty
  ClockTimes, Steps, Thousand, IntSize

VARIABLES
  part,
  mem, pos, last, out, room, torn, fault,
  named, size, freed, attached, shmPc, handle, told, unlucky,
  logFds, log_fd, log_dst, log_level, sock_fd, sent, failed,
  file, call, pc, depth, during, refused,
  made, userfree, rowOf, table, node, live, count, crow, cnode, owed,
  steady, stayed, seen, mapFault,
  groups, state, gi, gj, names, conhashs, ips, answer, lost,
  fds, op, todo, sock, epoll, got,
  text, comment_char, at, items, result, closed, arg, reply

B == INSTANCE EBuffer
Shm == INSTANCE EShm WITH pc <- shmPc, None <- NoSegment
Log == INSTANCE ELog WITH fds <- logFds, MaxFd <- LogMaxFd
F == INSTANCE EFiles
H == INSTANCE HashMap WITH fault <- mapFault, Null <- NoData
G == INSTANCE ServerConhash WITH file <- groups, i <- gi, j <- gj, ring <- names
N == INSTANCE Sockets
P == INSTANCE EProperty WITH
  file <- text, got <- reply, Names <- FileNames, Times <- ClockTimes, K <- Thousand

Parts == {"buffer", "shm", "log", "files", "map", "groups", "net", "text"}
bufVars == <<mem, pos, last, out, room, torn, fault>>
shmVars == <<named, size, freed, attached, shmPc, handle, told, unlucky>>
logVars == <<logFds, log_fd, log_dst, log_level, sock_fd, sent, failed>>
fileVars == <<file, call, pc, depth, during, refused>>
mapVars == <<made, userfree, rowOf, table, node, live, count, crow, cnode, owed,
             steady, stayed, seen, mapFault>>
groupVars == <<groups, state, gi, gj, names, conhashs, ips, answer, lost>>
netVars == <<fds, op, todo, sock, epoll, got>>
textVars == <<text, comment_char, at, items, result, closed, arg, reply>>
vars == <<part, bufVars, shmVars, logVars, fileVars, mapVars, groupVars, netVars,
          textVars>>

(* The part that a behaviour is of.                                        *)
InBuffer == part = "buffer"
InShm == part = "shm"
InLog == part = "log"
InFiles == part = "files"
InMap == part = "map"
InGroups == part = "groups"
InNet == part = "net"
InText == part = "text"

-----------------------------------------------------------------------------
NoBuffer == mem = 0 /\ pos = 0 /\ last = 0 /\ out = 0 /\ room = 0 /\ torn = 0 /\ fault = 0
NoShm == /\ named = 0 /\ size = 0 /\ freed = 0 /\ attached = 0 /\ shmPc = 0
         /\ handle = 0 /\ told = 0 /\ unlucky = 0
NoLog == /\ logFds = 0 /\ log_fd = 0 /\ log_dst = 0 /\ log_level = 0 /\ sock_fd = 0
         /\ sent = 0 /\ failed = 0
NoFiles == /\ file = 0 /\ call = 0 /\ pc = 0 /\ depth = 0 /\ during = 0
           /\ refused = 0
NoMap == /\ made = 0 /\ userfree = 0 /\ rowOf = 0 /\ table = 0 /\ node = 0 /\ live = 0
         /\ count = 0 /\ crow = 0 /\ cnode = 0 /\ owed = 0 /\ steady = 0 /\ stayed = 0
         /\ seen = 0 /\ mapFault = 0
NoGroups == /\ groups = 0 /\ state = 0 /\ gi = 0 /\ gj = 0 /\ names = 0 /\ conhashs = 0
            /\ ips = 0 /\ answer = 0 /\ lost = 0
NoNet == fds = 0 /\ op = 0 /\ todo = 0 /\ sock = 0 /\ epoll = 0 /\ got = 0
NoText == /\ text = 0 /\ comment_char = 0 /\ at = 0 /\ items = 0 /\ result = 0
          /\ closed = 0 /\ arg = 0 /\ reply = 0

Begin ==
  /\ IF InBuffer THEN B!Init   ELSE NoBuffer
  /\ IF InShm    THEN Shm!Init ELSE NoShm
  /\ IF InLog    THEN Log!Init ELSE NoLog
  /\ IF InFiles  THEN F!Init   ELSE NoFiles
  /\ IF InMap    THEN H!Init   ELSE NoMap
  /\ IF InGroups THEN G!Init   ELSE NoGroups
  /\ IF InNet    THEN N!Init   ELSE NoNet
  /\ IF InText   THEN P!Init   ELSE NoText

Init == part \in Parts /\ Begin

Next ==
  \/ /\ InBuffer /\ B!Next
     /\ UNCHANGED <<part, shmVars, logVars, fileVars, mapVars, groupVars,
                    netVars, textVars>>
  \/ /\ InShm /\ Shm!Next
     /\ UNCHANGED <<part, bufVars, logVars, fileVars, mapVars, groupVars,
                    netVars, textVars>>
  \/ /\ InLog /\ Log!Next
     /\ UNCHANGED <<part, bufVars, shmVars, fileVars, mapVars, groupVars,
                    netVars, textVars>>
  \/ /\ InFiles /\ F!Next
     /\ UNCHANGED <<part, bufVars, shmVars, logVars, mapVars, groupVars,
                    netVars, textVars>>
  \/ /\ InMap /\ H!Next
     /\ UNCHANGED <<part, bufVars, shmVars, logVars, fileVars, groupVars,
                    netVars, textVars>>
  \/ /\ InGroups /\ G!Next
     /\ UNCHANGED <<part, bufVars, shmVars, logVars, fileVars, mapVars,
                    netVars, textVars>>
  \/ /\ InNet /\ N!Next
     /\ UNCHANGED <<part, bufVars, shmVars, logVars, fileVars, mapVars,
                    groupVars, textVars>>
  \/ /\ InText /\ P!Next
     /\ UNCHANGED <<part, bufVars, shmVars, logVars, fileVars, mapVars,
                    groupVars, netVars>>

Spec == Init /\ [][Next]_vars

-----------------------------------------------------------------------------
(* ebuffer: the cursors stay in the array, the buffer implements           *)
(* LineStream, and what is copied fits the caller's space.                 *)
IsStream ==
  /\ InBuffer => B!Stream!StreamInit
  /\ [](InBuffer => B!TypeOK)
  /\ [][InBuffer => B!IsStream /\ B!FitsCaller]_vars

(* eshm: whoever has a segment mapped has a handle of it, one process is   *)
(* told that it is new, and it has the size that its users believe in.     *)
SegmentsAreTrue == InShm => Shm!SegmentsAreTrue

(* elog, esyslog: log_fd and syslog_sock_fd are the log's own, there is at *)
(* most one log file, and no descriptor of the application is closed.      *)
(* enetwork, udp, tcp_server: nor by a socket's creation, which leaves     *)
(* open what it answers and, but for nic_get_ip, nothing else.             *)
OwnsItsFds ==
  /\ [](InLog => Log!OwnsItsFds /\ Log!OneLogFile)
  /\ [](InNet => N!FailureLeavesNothing /\ N!SuccessHasItsOwn)
  /\ [][InLog => Log!ClosesItsOwn]_vars
  /\ [][InNet => N!ClosesItsOwn]_vars

(* elog, esyslog: lines stay in their buffers, whole or cut, and levels in *)
(* their tables.                                                           *)
LineInBuffer == InLog => Log!TypeOK /\ Log!LineInBuffer

(* eother, create_dir: 1 means that the directories are there, or a file   *)
(* for the last of them, and racing makers make what their paths share.    *)
DirsAreMade == InFiles => F!DirsAreMade

(* eother: what the file functions answer was true during the call, and    *)
(* create_file_if_not_existed empties no file.                             *)
FileAnswersAreTrue ==
  /\ [](InFiles => F!FileAnswersAreTrue)
  /\ [][InFiles => F!KeepsWhatIsThere]_vars

(* eproperty: the lines come once each and in order, and keys and values   *)
(* are what the grammar of a line makes them.  estring, etime: path and    *)
(* name make up the url, str_cmp orders strings, and differences, sums and *)
(* comparisons of times agree.                                             *)
TextsAreRight ==
  InText => /\ P!ItemsFollowGrammar /\ P!LinesInOrder
            /\ P!SplitIsRight /\ P!OrderIsRight /\ P!TimeIsRight

(* hashmap: rows, links, count and memory agree, the table implements      *)
(* Dictionary, and data is freed once, when it goes.                       *)
IsDictionary ==
  /\ InMap => H!Dict!Start
  /\ [](InMap => H!ListsAgree /\ H!FreesWhatGoes)
  /\ [][InMap => H!IsDictionary]_vars

(* hashmap: a walk meets all keys though the table changes.                *)
WalkMeetsAll == InMap => H!WalkMeetsAll

(* server_conhash: the rings are those of the file, a lookup answers a     *)
(* server of the group, and servers of different names all serve, but for  *)
(* what memory was short for and loading did not notice.                   *)
GroupsAnswer == InGroups => G!GroupsAnswer
=============================================================================
