------------------------------ MODULE MCLibrary -------------------------------
(***************************************************************************)
(* Library, the parts that are written with recursion and the digest, for  *)
(* TLC.  v1, v2, ... stand for the variables of these, in the order of the *)
(* part's INSTANCE, and are 0 where it has fewer.                          *)
(***************************************************************************)
EXTENDS Library, TLC

CONSTANTS X, Y, Z        \* bytes, and the names of nodes

VARIABLES v1, v2, v3, v4, v5, v6

more == <<v1, v2, v3, v4, v5, v6>>

-----------------------------------------------------------------------------
Seqs(S, n) == UNION {[1..k -> S] : k \in 0..n}
Alike == Permutations(Procs)

(* Chunks of at most two bytes, and one whole line with CR LF.             *)
SmallChunks ==
  {<<X>>, <<Y>>, <<CR>>, <<LF>>, <<>>, <<X, Y>>, <<X, LF>>, <<Y, CR>>,
   <<LF, X>>, <<CR, LF>>, <<X, CR, LF>>}

(* -1 is what log_level_int makes of an unknown name.                      *)
SomeSetLevels == {-1, 0, 5}

(* Paths that share one component and two; one ends behind the last byte   *)
(* of str, and a file lies above one and where another should be.          *)
SomePaths == {<<"a", "b">>, <<"a", "b", "c">>, <<"a", "dd">>}
SomeCut == [path \in SomePaths |-> IF path = <<"a", "dd">> THEN <<"a", "d">> ELSE path]
SomeFiles == {<<"a", "b">>}

(* Every text of four characters, and pairs of longer lines.               *)
SomeFileTexts ==
  Seqs({"a", "=", "#", "blank", "eol"}, 4)
  \cup {f \o <<"eol">> \o g : f, g \in {<<"a", "=", "b">>, <<"blank", "#", "a">>,
          <<"=", "b">>, <<"a", "=", "#", "b">>, <<"a", "=", "b", "=", "a", "b">>}}

SomeUrls == Seqs({"a", "/"}, 4)
SomeFileNames == Seqs({"a", "."}, 3)
SomeStrings == Seqs({0, 1}, 3)
SomeClockTimes == [sec : 0..3, usec : {0, 1, 2, 3, 8}]
SomeSteps == {-4, -1, 0, 1, 5}

Tree == INSTANCE RbTree WITH
  root <- v1, node <- v2, held <- v3, walk <- v4,
  Keys <- 8

(* Every order of the points of three names with two replicas each in      *)
(* which a name's replicas ascend, but for an exchange of names, and some  *)
(* in which names share points.                                            *)
Ascend(f) == \A s \in {X, Y, Z} : f[<<s, 1>>] < f[<<s, 2>>]
Injective(f) == \A s, t \in DOMAIN f : s # t => f[s] # f[t]
OneOrder(f) == f[<<X, 1>>] < f[<<Y, 1>>] /\ f[<<Y, 1>>] < f[<<Z, 1>>]
Shares(f) == /\ f[<<X, 1>>] = f[<<Y, 1>>] /\ f[<<X, 2>>] \in {f[<<Y, 2>>], f[<<Z, 1>>]}
             /\ f[<<X, 1>>] = 2 /\ f[<<Y, 2>>] = 4 /\ f[<<Z, 2>>] = 5
SomeHashFunctions ==
  {[x \in {X, Y, Z} \X (0..2) |-> IF x[2] = 0 THEN 2 ELSE f[x]] :
     f \in {g \in [{X, Y, Z} \X (1..2) -> 1..6] :
              Ascend(g) /\ ((Injective(g) /\ OneOrder(g)) \/ Shares(g))}}

Con == INSTANCE ConHash WITH
  hash <- v1, conhash <- v2, node <- v3, ending <- v4, partial <- v5,
  Slots <- 6, Idens <- {X, Y, Z}, Replicas <- 2, Lacking <- {{}, {2}},
  Points <- 1..6, HashFunctions <- SomeHashFunctions

(* A group of up to two servers, and a second of up to one; one address is *)
(* also the name of a server.                                              *)
SomeIds == -1..2
SomeServers ==
  {[ip |-> "x", hash_ip |-> ""], [ip |-> "x", hash_ip |-> "h"],
   [ip |-> "y", hash_ip |-> "h"], [ip |-> "y", hash_ip |-> "x"],
   [ip |-> "x", hash_ip |-> "nil"], [ip |-> "y", hash_ip |-> "nil"]}
GroupsOf(ids, n) == [id : ids, servers : Seqs(SomeServers, n)]
SomeGroupFiles ==
  {<<>>} \cup {<<g>> : g \in GroupsOf(SomeIds, 2)}
  \cup {<<g, h>> : g \in GroupsOf({1}, 2), h \in GroupsOf({1, 2}, 1)}

(* Affine permutations of blocks of two bytes below four; the keys are all *)
(* those of up to three parts.                                             *)
SomeCiphers ==
  {[b \in (0..3) \X (0..3) |->
      LET n == (a * (4 * b[1] + b[2]) + c) % 16 IN <<n \div 4, n % 4>>] :
     a \in {1, 5, 11}, c \in 0..15}
SomeTexts == Seqs({1, 3}, 6) \cup Seqs({0, 2}, 4)

Secret == INSTANCE EasyCrypt WITH
  cipher <- v1, arg <- v2, mi <- v3, got <- v4,
  Rounds <- 2, Block <- 2, Hex <- 2, MaxDigits <- 10, Ciphers <- SomeCiphers,
  Texts <- SomeTexts, Keys <- Seqs({"k", "l", "m"}, 3)

(* Blocks of four bytes, of which two are the length: a word of it wraps   *)
(* after eight bytes, the whole length after 128.                          *)
Digest == INSTANCE Md5 WITH
  lo <- v1, hi <- v2, abcd <- v3, buf <- v4, len <- v5, digested <- v6,
  BlockSize <- 4, LenSize <- 2, ByteBits <- 2, WordSize <- 16,
  Pieces <- 0..9, MaxBytes <- 18

(* The ends of the tables and of their slots.                              *)
SomeRows ==
  LET Kilo == 1024  Mega == 1024 * 1024
      Ends == {1, 8, 8 * Kilo, 64 * Kilo, 1022 * Kilo, 1023 * Kilo, Mega,
               122 * Mega, 1022 * 128 * Kilo, 1023 * 128 * Kilo, 128 * Mega,
               1023 * Mega, 1024 * Mega}
  IN UNION {{n - 1, n, n + 7} : n \in Ends} \cup {-16, 100, 1000, 1024}

Rows == INSTANCE HashFcn WITH
  asked <- v1, nrows <- v2, seed <- v3, scale <- v4, hardener <- v5,
  Word <- 256, Asked <- SomeRows, Randoms <- {0, 1044000},
  Strings <- Seqs({0, 1, 128}, 2)

-----------------------------------------------------------------------------
MoreParts == {"tree", "con", "crypt", "digest", "rows"}

None6 == v6 = 0
None5 == v5 = 0 /\ None6

MCInit ==
  /\ part \in Parts \cup MoreParts /\ Begin
  /\ \/ part = "tree"   /\ Tree!Init   /\ None5
     \/ part = "con"    /\ Con!Init    /\ None6
     \/ part = "crypt"  /\ Secret!Init /\ None5
     \/ part = "digest" /\ Digest!Init
     \/ part = "rows"   /\ Rows!Init   /\ None6
     \/ part \in Parts  /\ v1 = 0 /\ v2 = 0 /\ v3 = 0 /\ v4 = 0 /\ None5

MCNext ==
  \/ Next /\ UNCHANGED more
  \/ /\ \/ part = "tree"   /\ Tree!Next   /\ UNCHANGED <<v5, v6>>
        \/ part = "con"    /\ Con!Next    /\ UNCHANGED v6
        \/ part = "crypt"  /\ Secret!Next /\ UNCHANGED <<v5, v6>>
        \/ part = "digest" /\ Digest!Next
        \/ part = "rows"   /\ Rows!Next   /\ UNCHANGED v6
     /\ UNCHANGED vars

MCSpec == MCInit /\ [][MCNext]_<<vars, more>>

-----------------------------------------------------------------------------
(* md5, easy_lua, 3des: a digest is that of the padded message however it  *)
(* was cut, and texts, tokens and blocks come back from encryption; hash   *)
(* tables have about the rows they were asked for, and a hash function     *)
(* that tells keys apart.                                                  *)
HelpersAreRight ==
  /\ part = "crypt" =>
       Secret!TextComesBack /\ Secret!TokenComesBack /\ Secret!BlockComesBack
  /\ part = "digest" => Digest!NothingSkipped /\ Digest!DigestIsPadded
  /\ part = "rows" => Rows!RowsAreNear /\ Rows!OneByteTells

(* rbtree, ip_zone: the tree is red-black, its walks go through the keys   *)
(* in order, and destroying it while walking meets every node.             *)
IsSearchTree ==
  part = "tree" => Tree!IsRedBlack /\ Tree!WalksAreSorted /\ Tree!DestroyMeetsAll

(* conhash, util_rbtree: the tree is red-black, sorted and counted, no     *)
(* virtual node outlives its node_s, nodes have all their points, none is  *)
(* left behind, a lookup answers the next point's node: it implements Ring.*)
IsRing ==
  /\ part = "con" => Con!R!Start
  /\ [](part = "con" => /\ Con!TreeIsSound /\ Con!VnodesBelong
                        /\ Con!RingIsWhole /\ Con!LookupIsClockwise)
  /\ [][part = "con" => Con!IsRing]_more
=============================================================================
