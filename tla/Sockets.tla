------------------------------- MODULE Sockets --------------------------------
(***************************************************************************)
(* enetwork.c, udp.c, network_util.c and the life of a tcp_server.c: each  *)
(* function makes a few system calls, one after the other, any of which    *)
(* may fail, and answers a descriptor, or -1 with everything closed.  The  *)
(* rest of the process opens and closes descriptors meanwhile; the kernel  *)
(* gives the lowest free number.                                           *)
(***************************************************************************)
EXTENDS Integers, Sequences, FiniteSetsExt

CONSTANT MaxFd

VARIABLES
  fds,         \* whose each descriptor is: "free", "app", "own", "lost"
  op, todo,    \* the function that runs, <<>> when its caller has what it
               \* answered, and the calls before it
  sock, epoll, \* its descriptors; listen_fd and epoll_fd of a tcp server
  got          \* what it answered: "none" before, "ok" or "failed"

vars == <<fds, op, todo, sock, epoll, got>>

(* What each function calls.                                               *)
udp_server_create == <<"socket", "nonblock", "bind">>
udp_client_create == <<"socket", "nonblock">>
unix_udp_server_create == <<"socket", "nonblock", "unlink", "bind">>
unix_udp_client_create == <<"socket", "nonblock">>
udp_unix_socket_create == <<"socket", "unlink", "bind">>
nic_get_ip == <<"socket", "ioctl">>
tcp_server_create ==
  <<"server", "streams", "socket", "nonblock", "reuse", "bind", "listen",
    "epoll", "stream">>

Functions ==
  {udp_server_create, udp_client_create, unix_udp_server_create,
   udp_unix_socket_create, nic_get_ip, tcp_server_create}

IsTcp == op = tcp_server_create

(* What these do not look at, or cannot fail.                              *)
Ignored == {"unlink", "ioctl", "stream"}

Free == {f \in 0..MaxFd : fds[f] = "free"}
Opened == [fds EXCEPT ![Min(Free)] = "own"]
Without(S) == [f \in 0..MaxFd |-> IF f \in S THEN "free" ELSE fds[f]]

(* Mutant: a descriptor is 0 where it is not known.                        *)
UnknownZero == 0
Unknown == -1

-----------------------------------------------------------------------------
Init ==
  /\ fds = [f \in 0..MaxFd |-> IF f = 0 THEN "app" ELSE "free"]
  /\ op = <<>> /\ todo = <<>> /\ sock = Unknown /\ epoll = Unknown
  /\ got = "ok"

Call(f) ==
  /\ got # "none" /\ "own" \notin {fds[d] : d \in DOMAIN fds}
  /\ op' = f /\ todo' = f /\ got' = "none"
  /\ sock' = Unknown /\ epoll' = Unknown /\ UNCHANGED fds

(* bzero makes the descriptors of a new tcp server 0.                      *)
Succeed ==
  /\ todo # <<>>
  /\ Head(todo) \in {"socket", "epoll"} => Free # {}
  /\ todo' = Tail(todo)
  /\ got' = IF Tail(todo) = <<>> THEN "ok" ELSE got
  /\ fds' = IF Head(todo) \in {"socket", "epoll"} THEN Opened ELSE fds
  /\ sock' = IF Head(todo) = "server" THEN 0
             ELSE IF Head(todo) = "socket" THEN Min(Free) ELSE sock
  /\ epoll' = IF Head(todo) = "server" THEN 0
              ELSE IF Head(todo) = "epoll" THEN Min(Free) ELSE epoll
  /\ UNCHANGED op

(* Mutant: what has been opened stays open.                                *)
ClosedNothing(s, e) == {}

(* close(fd) of the error paths, tcp_server_destroy(server).               *)
Closed(s, e) == {s, e} \ {-1}

(* What fails leaves -1 where it would have left its descriptor.           *)
Fail ==
  /\ todo # <<>> /\ Head(todo) \notin Ignored
  /\ sock' = IF Head(todo) = "socket" THEN -1 ELSE sock
  /\ epoll' = IF Head(todo) = "epoll" THEN -1 ELSE epoll
  /\ fds' = Without(Closed(sock', epoll'))
  /\ todo' = <<>> /\ got' = "failed" /\ UNCHANGED op

(* The caller has the descriptor it was answered; nic_get_ip answers an    *)
(* address, and its socket stays open for ever.                            *)
Take ==
  /\ got = "ok" /\ ~IsTcp /\ op # <<>> /\ fds[sock] = "own"
  /\ fds' = [fds EXCEPT ![sock] = IF op = nic_get_ip THEN "lost" ELSE "app"]
  /\ op' = <<>> /\ UNCHANGED <<todo, sock, epoll, got>>

tcp_server_destroy ==
  /\ got = "ok" /\ IsTcp
  /\ fds' = Without(Closed(sock, epoll)) /\ got' = "failed"
  /\ UNCHANGED <<op, todo, sock, epoll>>

AppOpens ==
  /\ Free # {} /\ fds' = [fds EXCEPT ![Min(Free)] = "app"]
  /\ UNCHANGED <<op, todo, sock, epoll, got>>
AppCloses ==
  /\ \E f \in 0..MaxFd : fds[f] = "app" /\ fds' = [fds EXCEPT ![f] = "free"]
  /\ UNCHANGED <<op, todo, sock, epoll, got>>

Next ==
  \/ \E f \in Functions : Call(f)
  \/ Succeed \/ Fail \/ Take \/ tcp_server_destroy \/ AppOpens \/ AppCloses

Spec == Init /\ [][Next]_vars

-----------------------------------------------------------------------------
(* Any of the functions: when it has failed, or a server has been          *)
(* destroyed, nothing that it opened is open.                              *)
FailureLeavesNothing == got = "failed" => \A f \in 0..MaxFd : fds[f] # "own"

(* The descriptors that a function answers, or keeps in its answer, and    *)
(* the one that nic_get_ip leaves open though it answers an address.       *)
Answered == IF IsTcp THEN {sock, epoll} ELSE IF op = nic_get_ip THEN {} ELSE {sock}
Leaked == IF op = nic_get_ip THEN {sock} ELSE {}

(* A call that succeeds leaves open what it answers, all of it, and nothing*)
(* else, but for the socket of nic_get_ip.                                 *)
SuccessHasItsOwn ==
  (todo = <<>> /\ got = "ok" /\ op # <<>>) =>
    {f \in 0..MaxFd : fds[f] = "own"} = Answered \cup Leaked

(* No step of the functions closes a descriptor of the rest of the         *)
(* process.  Excepted is tcp_server_create that fails before it has set    *)
(* listen_fd or epoll_fd, which closes descriptor 0.                       *)
ClosesItsOwn ==
  (todo' # todo \/ got' # got) =>
    \A f \in 0..MaxFd :
      (fds[f] = "app" /\ fds'[f] = "free") =>
        f = 0 /\ IsTcp /\ 0 \in {sock, epoll}
=============================================================================
