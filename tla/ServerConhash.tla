----------------------------- MODULE ServerConhash ----------------------------
(***************************************************************************)
(* server_conhash.c: groups of servers are loaded from a file by way of    *)
(* load_data.lua, a ring for each, and urls are looked up in them.  What   *)
(* matters of a ring (ConHash) is which names have points on it, any of    *)
(* which may be the first from the place of a url on; the tables (HashMap) *)
(* are dictionaries.                                                       *)
(***************************************************************************)
EXTENDS Integers, Sequences

CONSTANTS
  Ids,           \* the numbers of groups; 0 is what a group may not have
  Ips,           \* addresses
  Names,         \* the hash_ip of servers; some addresses are names too
  GroupFiles     \* the files: sequences of [id, servers]

Nil == "nil"                   \* a server without hash_ip
Null == "(null)"               \* what printf makes of it, or of a NULL iden
Servers == [ip : Ips, hash_ip : Names \cup {"", Nil}]

VARIABLES
  file,
  state,         \* "none", "load", "ready" or "failed"
  i, j,          \* group and server that group_load is at
  ring,          \* the ring of group i: the names that have points on it
  conhashs,      \* the rings, by id
  ips,           \* addresses, by <<id, name>>
  answer,        \* of server_conhash_find: [id, ip], ip "" for NULL
  lost           \* history: what loading went on without, as <<what, group,
                 \* server>>

vars == <<file, state, i, j, ring, conhashs, ips, answer, lost>>

NoAnswer == [id |-> -1, ip |-> ""]
Id == file[i].id
Server == file[i].servers[j]

Groups == INSTANCE Dictionary WITH Key <- Ids, Data <- SUBSET (Names \cup Ips \cup {Null}),
                                   dict <- conhashs
Hosts == INSTANCE Dictionary WITH Key <- Ids \X (Names \cup {Null}), Data <- Ips,
                                  dict <- ips

Init ==
  /\ file \in GroupFiles /\ state = "none" /\ i = 1 /\ j = 0 /\ ring = {}
  /\ conhashs = <<>> /\ ips = <<>> /\ answer = NoAnswer /\ lost = {}

-----------------------------------------------------------------------------
(* server_conhash_create, as far as group_load.  When load_data fails its  *)
(* message stays on the Lua stack, where get_group_count takes it for a    *)
(* count of 0.                                                             *)
server_conhash_create(loaded) ==
  /\ state = "none" /\ state' = IF loaded THEN "load" ELSE "ready"
  /\ UNCHANGED <<file, i, j, ring, conhashs, ips, answer, lost>>

(* Memory is short where group_load looks, or the id is 0.  The tables go, *)
(* the ring that is not in them yet is forgotten.                          *)
LoadFails ==
  /\ state = "load" /\ state' = "failed"
  /\ Groups!GiveUp /\ Hosts!GiveUp /\ ring' = {}
  /\ UNCHANGED <<file, i, j, answer, lost>>

GroupBegin ==
  /\ state = "load" /\ i <= Len(file) /\ j = 0 /\ Id # 0
  /\ j' = 1 /\ ring' = {}
  /\ UNCHANGED <<file, state, i, conhashs, ips, answer, lost>>

(* Mutant: the address is what the server is known by on the ring.         *)
NameByIp(s) == s.ip

(* get_server_by_seq and the choice of group_server_load between the two.  *)
Text(s) == IF s.hash_ip = Nil THEN Null ELSE s.hash_ip
NameOf(s) == IF Text(s) = "" THEN s.ip ELSE Text(s)

(* Mutant: the address is filed under its name alone, here with the group  *)
(* that has the least number.                                              *)
FiledUnderName(id, name) == <<CHOOSE n \in Ids : \A m \in Ids : n <= m, name>>

FiledUnder(id, name) == <<id, name>>

(* hashmap_add to ips, which keeps what it has.                            *)
FileAddress(s) ==
  IF Text(s) = "" THEN UNCHANGED ips
  ELSE Hosts!Put(FiledUnder(Id, Text(s)), s.ip) \/ Hosts!Keep(FiledUnder(Id, Text(s)))

(* It fails for want of memory, which group_server_load does not look at.  *)
AddressLost(s) ==
  Text(s) # "" /\ FiledUnder(Id, Text(s)) \notin DOMAIN ips /\ UNCHANGED ips

(* Nor at what conhash_add_node answers, which is the same when there is   *)
(* memory for all of the 500 points, for some, or for none.                *)
AddServer ==
  /\ state = "load" /\ i <= Len(file) /\ j \in 1..Len(file[i].servers)
  /\ \E missing \in SUBSET {"address", "points"} :
       /\ IF "address" \in missing THEN AddressLost(Server) ELSE FileAddress(Server)
       /\ ring' = IF "points" \in missing THEN ring ELSE ring \cup {NameOf(Server)}
       /\ lost' = lost \cup {<<what, i, j>> : what \in missing}
  /\ j' = j + 1
  /\ UNCHANGED <<file, state, i, conhashs, answer>>

(* hashmap_add to conhashs, which may fail unnoticed.  A second ring of    *)
(* the same id is forgotten.                                               *)
FileGroup == (Groups!Put(Id, ring) \/ Groups!Keep(Id)) /\ UNCHANGED lost
GroupLost ==
  /\ Id \notin DOMAIN conhashs /\ UNCHANGED conhashs
  /\ lost' = lost \cup {<<"group", i, 0>>}

GroupEnd ==
  /\ state = "load" /\ i <= Len(file) /\ j = Len(file[i].servers) + 1
  /\ FileGroup \/ GroupLost
  /\ i' = i + 1 /\ j' = 0 /\ ring' = {}
  /\ UNCHANGED <<file, state, ips, answer>>

(* Mutant: the last group is missed.                                       *)
LoadEndEarly ==
  /\ state = "load" /\ j = 0 /\ i >= Len(file) /\ state' = "ready"
  /\ UNCHANGED <<file, i, j, ring, conhashs, ips, answer, lost>>

LoadEnd ==
  /\ state = "load" /\ i > Len(file) /\ state' = "ready"
  /\ UNCHANGED <<file, i, j, ring, conhashs, ips, answer, lost>>

-----------------------------------------------------------------------------
(* The address filed under a name, or the name.                            *)
AddressOf(id, name) ==
  IF FiledUnder(id, name) \in DOMAIN ips THEN ips[FiledUnder(id, name)] ELSE name

(* What find may answer, by the place of the url.  The iden of the NULL    *)
(* that a ring without points answers is NULL: looked up as printf writes  *)
(* it, and answered when nothing is filed under that.                      *)
AnswersOf(id) ==
  IF id < 0 \/ id \notin DOMAIN conhashs THEN {""}
  ELSE IF conhashs[id] # {} THEN {AddressOf(id, name) : name \in conhashs[id]}
  ELSE IF FiledUnder(id, Null) \in DOMAIN ips THEN {AddressOf(id, Null)}
  ELSE {""}

Find(id) ==
  /\ state = "ready"
  /\ \E ip \in AnswersOf(id) : answer' = [id |-> id, ip |-> ip]
  /\ UNCHANGED <<file, state, i, j, ring, conhashs, ips, lost>>

server_conhash_destroy ==
  /\ state = "ready" /\ state' = "none" /\ Groups!GiveUp /\ Hosts!GiveUp
  /\ i' = 1 /\ j' = 0 /\ answer' = NoAnswer /\ lost' = {} /\ UNCHANGED <<file, ring>>

Next ==
  \/ \E loaded \in BOOLEAN : server_conhash_create(loaded)
  \/ GroupBegin \/ AddServer \/ GroupEnd \/ LoadEnd \/ LoadFails
  \/ \E id \in Ids : Find(id)
  \/ server_conhash_destroy

Spec == Init /\ [][Next]_vars

-----------------------------------------------------------------------------
ServersOf(n) == {file[n].servers[k] : k \in DOMAIN file[n].servers}
WithId(id) == {n \in DOMAIN file : file[n].id = id}
Listed(id) == UNION {ServersOf(n) : n \in WithId(id)}
Whole(n) == \A x \in lost : x[2] # n

(* The names of servers whose address is not filed for want of memory.     *)
Unfiled(id) ==
  {Text(file[x[2]].servers[x[3]]) :
     x \in {y \in lost : y[1] = "address" /\ y[2] \in WithId(id)}}

(* What a lookup answers is the address of a server that the file lists in *)
(* the group that was asked for, never an address of another; and a name   *)
(* only where memory was too short to file the address that belongs to it. *)
AnswersAreTheGroups ==
  answer.ip # "" =>
    answer.ip \in {s.ip : s \in Listed(answer.id)} \cup Unfiled(answer.id)

(* The names that group n's ring has: those of all servers but the ones    *)
(* that memory was short for, unless another of the same name has points.  *)
RingOf(n) ==
  {NameOf(file[n].servers[k]) :
     k \in {k \in DOMAIN file[n].servers : <<"points", n, k>> \notin lost}}

(* Once a file is loaded, each of its ids has the ring of the first group  *)
(* of that id which there was memory for.                                  *)
GroupsAreTheFiles ==
  state = "ready" /\ i > Len(file) =>
    \A n \in DOMAIN file :
      /\ <<"group", n, 0>> \notin lost
      /\ \A m \in 1..(n - 1) : file[m].id = file[n].id => <<"group", m, 0>> \in lost
      => file[n].id \in DOMAIN conhashs /\ conhashs[file[n].id] = RingOf(n)

Distinct(n) == \A s, t \in ServersOf(n) : s # t => NameOf(s) # NameOf(t)
FirstOfItsId(n) == \A m \in DOMAIN file : file[m].id = file[n].id => m = n

(* Servers that are known by different names all get urls, in a group that *)
(* memory sufficed for and whose id is not negative.                       *)
NamedServersServe ==
  state = "ready" /\ i > Len(file) =>
    \A n \in DOMAIN file :
      Distinct(n) /\ FirstOfItsId(n) /\ Whole(n)
        /\ file[n].id >= 0 /\ ServersOf(n) # {} =>
        AnswersOf(file[n].id) = {s.ip : s \in ServersOf(n)}

GroupsAnswer == AnswersAreTheGroups /\ GroupsAreTheFiles /\ NamedServersServe
=============================================================================
