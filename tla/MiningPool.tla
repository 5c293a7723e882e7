------------------------------ MODULE MiningPool ------------------------------
(***************************************************************************)
(* mine_from_string (src/Projet/Noeud_de_minage/minage.c): nbthread        *)
(* threads look for a proof, each on the candidates of its own stride,     *)
(* until one of them raises a flag that the others read without a lock.    *)
(*                                                                         *)
(* SHA-256 is any function from candidates to hashes. A candidate is an    *)
(* ull_t, and Modulus stands for 2^64.                                     *)
(***************************************************************************)
EXTENDS Integers, Sequences, FiniteSets

CONSTANTS
  nbthread,
  Modulus,
  Diff,               \* the difficulties, and
  Hash,               \* the hashes that may be met
  SHA256_BLOCK_SIZE   \* bytes in a hash

ASSUME PoolAssumption ==
  /\ {nbthread, Modulus, SHA256_BLOCK_SIZE} \subseteq Nat \ {0}
  /\ nbthread <= Modulus
  /\ Hash \subseteq [1 .. SHA256_BLOCK_SIZE -> 0 .. 255]
  \* nothing keeps a node from being given a greater one, and then from reading beyond
  \* the hash
  /\ Diff \subseteq 0 .. 2 * SHA256_BLOCK_SIZE

Candidate == 0 .. Modulus - 1
Thread    == 0 .. nbthread - 1

VARIABLES
  diff, sha256,  \* what this call looks for
  ismining,      \* the flag
  created,       \* how many threads were created
  tpc,           \* where each thread is
  candidate,     \* its *proof
  joined,        \* how many threads were joined
  proof,         \* of mine_from_string
  returned

task == <<diff, sha256>>
pool == <<tpc, candidate>>
vars == <<task, ismining, created, pool, joined, proof, returned>>

Init ==
  /\ diff \in Diff
  /\ sha256 \in [Candidate -> Hash]
  /\ ismining = 0
  /\ created = 0 /\ joined = 0
  /\ tpc = [n \in Thread |-> "none"]
  /\ candidate = [n \in Thread |-> n]
  /\ proof = 0
  /\ returned = FALSE

-------------------------------------------------------------------------------
(* The test of thread_mining and testproof: so many bytes at the end are 0, *)
(* and for an odd difficulty half of the byte before them.                 *)

PassesHigh(d, buf) ==
  /\ \A i \in SHA256_BLOCK_SIZE - d \div 2 + 1 .. SHA256_BLOCK_SIZE : buf[i] = 0
  /\ d % 2 = 1 => buf[SHA256_BLOCK_SIZE - d \div 2] \div 16 = 0

Passes(d, buf) ==
  /\ \A i \in SHA256_BLOCK_SIZE - d \div 2 + 1 .. SHA256_BLOCK_SIZE : buf[i] = 0
  /\ d % 2 = 1 => buf[SHA256_BLOCK_SIZE - d \div 2] % 16 = 0

Testproof(p) == Passes(diff, sha256[p])

-------------------------------------------------------------------------------
(* thread_mining.                                                          *)

Goes(n, from, to) == tpc[n] = from /\ tpc' = [tpc EXCEPT ![n] = to]

ReadFlag(n) ==
  /\ Goes(n, "loop", IF ismining = 0 THEN "hash" ELSE "done")
  /\ UNCHANGED <<task, ismining, created, candidate, joined, proof, returned>>

HashMiss(n) ==
  /\ ~ Testproof(candidate[n])
  /\ Goes(n, "hash", "loop")
  /\ candidate' = [candidate EXCEPT ![n] = (@ + nbthread) % Modulus]
  /\ UNCHANGED <<task, ismining, created, joined, proof, returned>>

HashHit(n) ==
  /\ Testproof(candidate[n])
  /\ Goes(n, "hash", "flag")
  /\ UNCHANGED <<task, ismining, created, candidate, joined, proof, returned>>

RaiseNoFlag(n) ==
  /\ Goes(n, "flag", "done")
  /\ UNCHANGED <<task, ismining, created, candidate, joined, proof, returned>>

RaiseFlag(n) ==
  /\ Goes(n, "flag", "done")
  /\ ismining' = 1
  /\ UNCHANGED <<task, created, candidate, joined, proof, returned>>

ThreadMining(n) == ReadFlag(n) \/ HashMiss(n) \/ HashHit(n) \/ RaiseFlag(n)

-------------------------------------------------------------------------------
(* mine_from_string.                                                       *)

CreateThread ==
  /\ created < nbthread
  /\ created' = created + 1
  /\ tpc' = [tpc EXCEPT ![created] = "loop"]
  /\ UNCHANGED <<task, ismining, candidate, joined, proof, returned>>

JoinUntested ==
  /\ created = nbthread /\ joined < nbthread
  /\ tpc[joined] = "done"
  /\ joined' = joined + 1
  /\ proof' = candidate[joined]
  /\ UNCHANGED <<task, ismining, created, pool, returned>>

\* The threads are joined in order. A thread that the flag stopped gives back a candidate
\* it did not test.
Join ==
  /\ created = nbthread /\ joined < nbthread
  /\ tpc[joined] = "done"
  /\ joined' = joined + 1
  /\ proof' = IF Testproof(candidate[joined]) THEN candidate[joined] ELSE proof
  /\ UNCHANGED <<task, ismining, created, pool, returned>>

Return ==
  /\ joined = nbthread /\ ~ returned
  /\ returned' = TRUE
  /\ UNCHANGED <<task, ismining, created, pool, joined, proof>>

MineFromString == CreateThread \/ Join \/ Return

Next == MineFromString \/ \E n \in Thread : ThreadMining(n)

Spec == Init /\ [][Next]_vars

FairSpec == Spec /\ WF_vars(MineFromString) /\ \A n \in Thread : WF_vars(ThreadMining(n))

-------------------------------------------------------------------------------
(* Properties.                                                             *)

\* The variables keep to their types; the candidates, however far they are carried on,
\* stay ull_t.
TypeOK ==
  /\ diff \in Diff /\ sha256 \in [Candidate -> Hash]
  /\ ismining \in {0, 1}
  /\ created \in 0 .. nbthread /\ joined \in 0 .. nbthread
  /\ tpc \in [Thread -> {"none", "loop", "hash", "flag", "done"}]
  /\ candidate \in [Thread -> Candidate]
  /\ proof \in Candidate
  /\ returned \in BOOLEAN

\* sha256ToAscii: two hexadecimal digits for each byte.
Ascii(buf) ==
  [k \in 1 .. 2 * SHA256_BLOCK_SIZE |->
     IF k % 2 = 1 THEN buf[(k + 1) \div 2] \div 16 ELSE buf[k \div 2] % 16]

EndsInZeros(d, text) == \A k \in Len(text) - d + 1 .. Len(text) : text[k] = 0

\* Whichever threads hit a proof, were stopped by the flag or did not even start before it
\* was raised, what mine_from_string returns has a hash whose text ends in as many zeros as
\* the difficulty asks for; it never is the 0 that stands for nothing found, unless 0 is a
\* proof.
ReturnsAProof == returned => EndsInZeros(diff, Ascii(sha256[proof]))

\* When there is a proof at all mine_from_string returns: no thread passes by a proof on
\* its stride, and every thread sees the flag.
ReturnsIfThereIsAProof ==
  (\E p \in Candidate : Testproof(p)) => <>returned

===============================================================================
