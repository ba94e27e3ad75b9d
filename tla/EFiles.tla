-------------------------------- MODULE EFiles --------------------------------
(***************************************************************************)
(* The helpers of eother.c that look at the file system and then change    *)
(* it, each in system calls of its own, between which other processes run. *)
(* Files and directories share one name space.  Nobody removes directories *)
(* and all directories may be read.  Each process makes one call; the data *)
(* of a file comes from whoever uses it.                                   *)
(***************************************************************************)
EXTENDS Integers, Sequences, FiniteSets

CONSTANTS
  Procs,     \* the processes, each making one call
  Paths,     \* the paths given to create_dir, as sequences of names
  Cut,       \* Cut[path]: what strncpy takes of it into str, which ends
             \* within the last name, or before, when 1023 bytes are full
  Files      \* the paths given to the other functions

VARIABLES
  file,      \* file[d]: "absent", "dir", or a regular file that is "empty",
             \* has "data" or is "hidden" (may not be read)
  call,      \* call[p]: function and argument of p
  pc,        \* pc[p]: "idle", "next", "tested", "opened", "yes" or "no"
             \* (returned)
  depth,     \* depth[p]: the component create_dir is at
  during,    \* history: during[p], the states of its target while p ran
  refused    \* history: a mkdir failed, not for a directory of that name

vars == <<file, call, pc, depth, during, refused>>

Prefix(path, n) == SubSeq(path, 1, n)
Prefixes(path) == {Prefix(path, n) : n \in 1..Len(path)}
Entries == UNION {Prefixes(s) : s \in {Cut[path] : path \in Paths} \cup Files}

Regular == {"empty", "data", "hidden"}
Returned(p) == pc[p] \in {"yes", "no"}
Fn(p) == call[p].fn
Calls == [fn : {"create_dir"}, arg : Paths]
         \cup [fn : {"create_file", "create_if", "remove"}, arg : Files]

(* What a call is about, and the component that create_dir is at.          *)
Target(p) == IF Fn(p) = "create_dir" THEN Cut[call[p].arg] ELSE call[p].arg
Component(p) == Prefix(Target(p), depth[p])

There(d) == file[d] # "absent"
InDir(d) == \A n \in 1..(Len(d) - 1) : file[Prefix(d, n)] = "dir"

(* What is there is in a directory.                                        *)
IsTree(f) == \A d \in Entries : f[d] # "absent" =>
               \A n \in 1..(Len(d) - 1) : f[Prefix(d, n)] = "dir"

Goto(p, l) == pc' = [pc EXCEPT ![p] = l]
Set(d, c) == file' = [file EXCEPT ![d] = c]

(* Every step shows each running call the state of its target, a returning *)
(* one for the last time.                                                  *)
Watch ==
  during' = [p \in Procs |->
    IF Returned(p) \/ pc'[p] = "idle" \/ Target(p) = <<>> THEN during[p]
    ELSE during[p] \cup {file[Target(p)], file'[Target(p)]}]

-----------------------------------------------------------------------------
Init ==
  /\ file \in {f \in [Entries -> {"absent", "dir", "data", "hidden"}] :
                 IsTree(f) /\ \A d \in Entries \ Files : f[d] \in {"absent", "dir"}}
  /\ call \in [Procs -> Calls]
  /\ pc = [p \in Procs |-> "idle"] /\ depth = [p \in Procs |-> 1]
  /\ during = [p \in Procs |-> {}] /\ refused = FALSE

InLoop(p) == Fn(p) = "create_dir" /\ pc[p] \in {"idle", "next"}

(* access(F_OK) says that the component is there, a directory or a regular *)
(* file: then the next, or return 1.                                       *)
DirThere(p) ==
  /\ InLoop(p) /\ depth[p] <= Len(Target(p)) /\ There(Component(p))
  /\ Goto(p, "next") /\ depth' = [depth EXCEPT ![p] = @ + 1]
  /\ UNCHANGED <<file, call, refused>> /\ Watch

DirMissing(p) ==
  /\ InLoop(p) /\ depth[p] <= Len(Target(p)) /\ ~There(Component(p))
  /\ Goto(p, "tested")
  /\ UNCHANGED <<file, call, depth, refused>> /\ Watch

DirDone(p) ==
  /\ InLoop(p) /\ depth[p] > Len(Target(p))
  /\ Goto(p, "yes")
  /\ UNCHANGED <<file, call, depth, refused>> /\ Watch

(* Mutant: the component after the one that was looked at is passed over.  *)
MkdirNext(p) ==
  /\ Fn(p) = "create_dir" /\ pc[p] = "tested"
  /\ ~There(Component(p)) /\ InDir(Component(p))
  /\ Set(Component(p), "dir")
  /\ Goto(p, "next") /\ depth' = [depth EXCEPT ![p] = @ + 2]
  /\ UNCHANGED <<call, refused>> /\ Watch

Mkdir(p) ==
  /\ Fn(p) = "create_dir" /\ pc[p] = "tested"
  /\ ~There(Component(p)) /\ InDir(Component(p))
  /\ Set(Component(p), "dir")
  /\ Goto(p, "next") /\ depth' = [depth EXCEPT ![p] = @ + 1]
  /\ UNCHANGED <<call, refused>> /\ Watch

(* mkdir fails when another process has made something of that name        *)
(* meanwhile, and below a regular file, or one that was there.             *)
MkdirFails(p) ==
  /\ Fn(p) = "create_dir" /\ pc[p] = "tested"
  /\ There(Component(p)) \/ ~InDir(Component(p))
  /\ Goto(p, "no") /\ refused' = (refused \/ file[Component(p)] # "dir")
  /\ UNCHANGED <<file, call, depth>> /\ Watch

(* Any system call may fail for reasons of its own; after an access that   *)
(* does, mkdir fails likewise.                                             *)
Refused(p) ==
  /\ \/ pc[p] \in {"tested", "opened"}
     \/ InLoop(p) /\ depth[p] <= Len(Target(p))
     \/ pc[p] = "idle" /\ Fn(p) = "create_file"
  /\ Goto(p, "no") /\ refused' = (refused \/ Fn(p) = "create_dir")
  /\ UNCHANGED <<file, call, depth>> /\ Watch

-----------------------------------------------------------------------------
(* access(R_OK): a file that may not be read is taken for none, and a      *)
(* directory for a file.                                                   *)
Readable(f) == file[f] \in {"dir", "empty", "data"}

(* Mutant: the answer of access is taken the wrong way round.              *)
IfThereInverted(p) == Fn(p) = "create_if" /\ ~Readable(Target(p))

IfThere(p) == Fn(p) = "create_if" /\ Readable(Target(p))

(* Mutant: what access says of the file is not asked.                      *)
RemoveNeedlessAlways(p) == Fn(p) = "remove"

RemoveNeedless(p) == Fn(p) = "remove" /\ ~Readable(Target(p))

Test(p) ==
  /\ pc[p] = "idle" /\ Fn(p) \in {"create_if", "remove"}
  /\ Goto(p, IF IfThere(p) \/ RemoveNeedless(p) THEN "yes" ELSE "tested")
  /\ UNCHANGED <<file, call, depth, refused>> /\ Watch

(* create_file opens without a test.                                       *)
Opening(p) == \/ pc[p] = "tested" /\ Fn(p) = "create_if"
              \/ pc[p] = "idle" /\ Fn(p) = "create_file"

(* fopen "w" makes the file or empties it, readable or not.                *)
Opens(f) == InDir(f) /\ file[f] # "dir"
Emptied(f) == IF file[f] = "hidden" THEN "hidden" ELSE "empty"

OpenIf(p) ==
  /\ Fn(p) = "create_if" /\ Opening(p) /\ Opens(Target(p))
  /\ Set(Target(p), Emptied(Target(p))) /\ Goto(p, "yes")
  /\ UNCHANGED <<call, depth, refused>> /\ Watch

(* create_file then sets the size.                                         *)
Open(p) ==
  /\ Fn(p) = "create_file" /\ Opening(p) /\ Opens(Target(p))
  /\ Set(Target(p), Emptied(Target(p))) /\ Goto(p, "opened")
  /\ UNCHANGED <<call, depth, refused>> /\ Watch

OpenFails(p) ==
  /\ Opening(p) /\ ~Opens(Target(p))
  /\ Goto(p, "no")
  /\ UNCHANGED <<file, call, depth, refused>> /\ Watch

Truncate(p) ==
  /\ pc[p] = "opened"
  /\ Goto(p, IF file[Target(p)] \in Regular THEN "yes" ELSE "no")
  /\ UNCHANGED <<file, call, depth, refused>> /\ Watch

(* unlink, which fails when another process was faster, and of a directory.*)
Unlink(p) ==
  /\ pc[p] = "tested" /\ Fn(p) = "remove" /\ file[Target(p)] \in Regular
  /\ Goto(p, "yes") /\ Set(Target(p), "absent")
  /\ UNCHANGED <<call, depth, refused>> /\ Watch

UnlinkFails(p) ==
  /\ pc[p] = "tested" /\ Fn(p) = "remove" /\ file[Target(p)] \notin Regular
  /\ Goto(p, "no")
  /\ UNCHANGED <<file, call, depth, refused>> /\ Watch

(* The user of a file writes to it.                                        *)
Use(f) ==
  /\ file[f] = "empty" /\ Set(f, "data")
  /\ UNCHANGED <<call, pc, depth, refused>> /\ Watch

Next ==
  \/ \E p \in Procs :
       \/ DirThere(p) \/ DirMissing(p) \/ DirDone(p) \/ Mkdir(p) \/ MkdirFails(p)
       \/ Test(p) \/ OpenIf(p) \/ Open(p) \/ OpenFails(p)
       \/ Truncate(p) \/ Unlink(p) \/ UnlinkFails(p) \/ Refused(p)
  \/ \E f \in Files : Use(f)

Spec == Init /\ [][Next]_vars

-----------------------------------------------------------------------------
(* A regular file had the name that create_dir was asked to make.          *)
MetFile(p) == during[p] \cap Regular # {}

(* eother.h:52-62: an answer of 1 means that every directory above the     *)
(* last name of str is there, and so is the directory itself, unless a     *)
(* regular file had its name while create_dir ran, which counts as well.   *)
DirIsThere ==
  \A p \in Procs : Fn(p) = "create_dir" /\ pc[p] = "yes" =>
    \A n \in 1..Len(Target(p)) :
      \/ file[Prefix(Target(p), n)] = "dir"
      \/ n = Len(Target(p)) /\ MetFile(p)

(* A process that comes second to a component gives up, but another then   *)
(* goes on: when all have returned, and no mkdir failed for another        *)
(* reason, what all the paths in str have in common is there, unless one   *)
(* asked for no more than that and met a file of its name.                 *)
CommonPartIsMade ==
  LET Makers == {p \in Procs : Fn(p) = "create_dir"} IN
  (\A p \in Makers : Returned(p)) /\ ~refused =>
    \A p \in Makers : \A n \in 1..Len(Target(p)) :
      (\A q \in Makers : n <= Len(Target(q)) /\ Prefix(Target(q), n) = Prefix(Target(p), n))
        => \/ file[Prefix(Target(p), n)] = "dir"
           \/ \E q \in Makers : Len(Target(q)) = n /\ MetFile(q)

DirsAreMade == DirIsThere /\ CommonPartIsMade

(* eother.h:83-101: an answer of 1 was true at some instant of the call:   *)
(* there was a file, or something else of its name, or for remove_file     *)
(* there was none, or one that could not be read.                          *)
FileAnswersAreTrue ==
  \A p \in Procs : pc[p] = "yes" =>
    /\ Fn(p) = "create_file" => during[p] \cap Regular # {}
    /\ Fn(p) = "create_if" => during[p] \cap (Regular \cup {"dir"}) # {}
    /\ Fn(p) = "remove" => during[p] \cap {"absent", "hidden"} # {}

(* create_file_if_not_existed empties no file that was there, and could be *)
(* read, all the time it ran.                                              *)
KeepsWhatIsThere ==
  \A p \in Procs : OpenIf(p) /\ file[Target(p)] = "data" =>
    during[p] \cap {"absent", "hidden"} # {}
=============================================================================
