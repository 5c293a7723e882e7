----------------------------- MODULE KnownServers -----------------------------
(***************************************************************************)
(* The list of known servers and what the functions of network_tools.c and *)
(* client.c do to it. A list is written from sentinel->next on; an entry   *)
(* is an address and what is known of the parts (API, mining) that the     *)
(* server runs: Unknown stands for the pair -1, -1.                        *)
(***************************************************************************)
EXTENDS Lists, FiniteSetsExt

CONSTANTS
  Node,      \* addresses
  Parts,     \* which parts a server may run
  Unknown

ASSUME PartsAssumption == Unknown \notin Parts

Entry == [addr : Node, parts : Parts \cup {Unknown}]
List  == Seq(Entry)

-------------------------------------------------------------------------------
Positions(list, a) == {k \in DOMAIN list : list[k].addr = a}

Listed(list, a) == Positions(list, a) # {}

\* FindClient: the first entry with this address.
FindClient(list, a) == Min(Positions(list, a))

\* addClient tries to connect before it adds at the head.
AddClient(list, a, parts, reachable) ==
  IF a \in reachable THEN <<[addr |-> a, parts |-> parts]>> \o list ELSE list

NoteBlindly(list, e, reachable) == AddClient(list, e.addr, e.parts, reachable)

NoteOverwrites(list, e, reachable) ==
  IF Listed(list, e.addr)
    THEN [list EXCEPT ![FindClient(list, e.addr)].parts = e.parts]
    ELSE AddClient(list, e.addr, e.parts, reachable)

NoteNewOnly(list, e, reachable) ==
  IF Listed(list, e.addr) THEN list ELSE AddClient(list, e.addr, e.parts, reachable)

\* One turn of addServerFromMessage: a new server is added, a listed one updated.
Note(list, e, reachable) ==
  IF Listed(list, e.addr)
    THEN [list EXCEPT ![FindClient(list, e.addr)].parts =
            IF e.parts = Unknown THEN @ ELSE e.parts]
    ELSE AddClient(list, e.addr, e.parts, reachable)

-------------------------------------------------------------------------------
(* SendMessage starts one thread per entry, then walks the list again and  *)
(* joins thread i at its i-th step. When it removes an entry it moves on   *)
(* twice, so that from then on the steps look further than the entries     *)
(* their threads were started for.                                         *)

Failed(list, reachable) == {k \in DOMAIN list : list[k].addr \notin reachable}

\* The entry that follows position k when these are gone; 0 is the sentinel.
Following(list, k, gone) ==
  LET left == (k + 1 .. Len(list)) \ gone
  IN  IF left = {} THEN 0 ELSE Min(left)

\* What the walk may come to: the positions it removed, and the entries whose threads
\* were joined with their arguments still allocated. Removing the last entry takes the
\* walk past the sentinel. Once i is beyond the array of threads, what lies there decides
\* whether the entry in front of it is removed, and so does, for a thread whose entry was
\* freed before it was joined, whatever it read of it.
Walks(list, reachable) ==
  LET walk[i \in Nat, k \in Nat, gone \in SUBSET DOMAIN list, safe \in SUBSET DOMAIN list] ==
        LET found == safe \cup ({i} \cap (DOMAIN list \ gone))
            less  == gone \cup {k}
            kept  == walk[i + 1, Following(list, k, gone), gone, found]
            cut   == walk[i + 1, Following(list, Following(list, k, gone), less), less, found]
        IN  IF k = 0 THEN {[gone |-> gone, safe |-> safe]}
            ELSE IF i > Len(list) \/ i \in gone THEN kept \cup cut
            ELSE IF i \in Failed(list, reachable) THEN cut ELSE kept
  IN  walk[1, Following(list, 0, {}), {}, {}]

\* removeClient, for each of these positions.
Without(list, K) == Pick(list, DOMAIN list \ K)

===============================================================================
