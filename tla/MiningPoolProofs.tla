--------------------------- MODULE MiningPoolProofs ---------------------------
(* That mine_from_string returns a proof, for any number of threads, any   *)
(* difficulty up to the digits of a hash, and any hash function.           *)
EXTENDS MiningPool, TLAPS

\* What the flag, the threads and the joins know of each other. ReturnsAProof alone is not
\* inductive: that a proof was found has to be carried from the thread that hit it,
\* through the flag, to the join of that thread.
PoolInv ==
  /\ TypeOK
  /\ \A n \in Thread : tpc[n] = "none" <=> n >= created
  /\ \A n \in Thread : tpc[n] = "flag" => Testproof(candidate[n])
  /\ \A n \in Thread : tpc[n] = "done" => ismining = 1
  /\ ismining = 1 => \E n \in Thread : tpc[n] = "done" /\ Testproof(candidate[n])
  /\ \A n \in Thread : n < joined => tpc[n] = "done"
  /\ \A n \in Thread : n < joined /\ Testproof(candidate[n]) => Testproof(proof)
  /\ returned => joined = nbthread

\* The two readings of a difficulty agree: bytes and a half of zeros at the end of a hash
\* are as many zeros at the end of its text.
LEMMA PassingEndsInZeros ==
  ASSUME NEW d \in 0 .. 2 * SHA256_BLOCK_SIZE,
         NEW buf \in [1 .. SHA256_BLOCK_SIZE -> 0 .. 255],
         Passes(d, buf)
  PROVE  EndsInZeros(d, Ascii(buf))
<1> DEFINE S == SHA256_BLOCK_SIZE
           text == Ascii(buf)
<1>1. S \in Nat \ {0}
  BY PoolAssumption
<1>2. Len(text) = 2 * S
  BY <1>1 DEF Ascii
<1>3. SUFFICES ASSUME NEW k \in Nat, 2 * S - d + 1 <= k, k <= 2 * S
               PROVE  text[k] = 0
  BY <1>1, <1>2 DEF EndsInZeros
<1>4. k \in 1 .. 2 * S
  BY <1>1, <1>3
<1>5. CASE k % 2 = 1
  <2>1. text[k] = buf[(k + 1) \div 2] \div 16
    BY <1>4, <1>5 DEF Ascii
  <2>2. (k + 1) \div 2 \in S - d \div 2 + 1 .. S
    BY <1>1, <1>3, <1>5, SMTT(30)
  <2> QED
    BY <2>1, <2>2 DEF Passes
<1>6. CASE k % 2 = 0
  <2>1. text[k] = buf[k \div 2] % 16
    BY <1>4, <1>6 DEF Ascii
  <2>2. \/ k \div 2 \in S - d \div 2 + 1 .. S
        \/ d % 2 = 1 /\ k \div 2 = S - d \div 2
    BY <1>1, <1>3, <1>6, SMTT(30)
  <2> QED
    BY <2>1, <2>2 DEF Passes
<1> QED
  BY <1>5, <1>6, <1>3

\* At the start the flag is down and no thread has a result.
LEMMA PoolInit == Init => PoolInv
<1> SUFFICES ASSUME Init PROVE PoolInv
  OBVIOUS
<1>1. /\ nbthread \in Nat \ {0} /\ Modulus \in Nat \ {0} /\ nbthread <= Modulus
  BY PoolAssumption
<1>2. TypeOK
  <2>1. candidate \in [Thread -> Candidate]
    BY <1>1 DEF Init, Thread, Candidate
  <2>2. tpc \in [Thread -> {"none", "loop", "hash", "flag", "done"}]
    BY DEF Init
  <2>3. proof \in Candidate /\ created \in 0 .. nbthread /\ joined \in 0 .. nbthread
    BY <1>1 DEF Init, Candidate
  <2> QED
    BY <2>1, <2>2, <2>3 DEF Init, TypeOK
<1> QED
  BY <1>1, <1>2 DEF PoolInv, Init, Thread

\* Every thread keeps the candidate that made it raise the flag; the invariant is inductive.
LEMMA PoolStep == PoolInv /\ [Next]_vars => PoolInv'
<1> SUFFICES ASSUME PoolInv, [Next]_vars PROVE PoolInv'
  OBVIOUS
<1>0. /\ nbthread \in Nat \ {0} /\ Modulus \in Nat \ {0} /\ nbthread <= Modulus
  BY PoolAssumption
<1> USE DEF PoolInv
<1>1. ASSUME NEW n \in Thread, ReadFlag(n) PROVE PoolInv'
  <2>1. TypeOK'
    BY <1>1 DEF TypeOK, ReadFlag, Goes, task
  <2>2. Testproof(candidate[n])' = Testproof(candidate[n])
    BY <1>1 DEF ReadFlag, Testproof, task
  <2> QED
    BY <1>1, <2>1 DEF TypeOK, ReadFlag, Goes, task, Testproof
<1>2. ASSUME NEW n \in Thread, HashMiss(n) PROVE PoolInv'
  <2>1. (candidate[n] + nbthread) % Modulus \in Candidate
    BY <1>0 DEF TypeOK, Candidate
  <2>2. TypeOK'
    BY <1>2, <2>1 DEF TypeOK, HashMiss, Goes, task
  <2> QED
    BY <1>0, <1>2, <2>2 DEF TypeOK, HashMiss, Goes, task, Testproof
<1>3. ASSUME NEW n \in Thread, HashHit(n) PROVE PoolInv'
  <2>1. TypeOK'
    BY <1>3 DEF TypeOK, HashHit, Goes, task
  <2> QED
    BY <1>0, <1>3, <2>1 DEF TypeOK, HashHit, Goes, task, Testproof
<1>4. ASSUME NEW n \in Thread, RaiseFlag(n) PROVE PoolInv'
  <2>1. TypeOK'
    BY <1>4 DEF TypeOK, RaiseFlag, Goes, task
  <2> QED
    BY <1>0, <1>4, <2>1 DEF TypeOK, RaiseFlag, Goes, task, Testproof
<1>5. CASE CreateThread
  <2>0. created' \in 0 .. nbthread
    BY <1>0, <1>5 DEF TypeOK, CreateThread
  <2>1. TypeOK'
    BY <1>5, <2>0 DEF TypeOK, CreateThread, task
  <2> QED
    BY <1>0, <1>5, <2>1 DEF TypeOK, CreateThread, task, Testproof, Thread
<1>6. CASE Join
  <2>1. joined \in Thread /\ candidate[joined] \in Candidate
    BY <1>0, <1>6 DEF TypeOK, Join, Thread
  <2>2. TypeOK'
    BY <1>0, <1>6, <2>1 DEF TypeOK, Join, task, pool
  <2>3. \A n \in Thread : n < joined' => n < joined \/ n = joined
    BY <1>0, <1>6 DEF TypeOK, Join, Thread
  <2>4. \A n \in Thread : n < joined' => tpc[n] = "done"
    BY <1>6, <2>3 DEF Join
  <2>5. \A n \in Thread : n < joined' /\ Testproof(candidate[n]) => Testproof(proof')
    BY <1>6, <2>3 DEF Join
  <2> QED
    BY <1>0, <1>6, <2>1, <2>2, <2>4, <2>5 DEF TypeOK, Join, task, pool, Testproof
<1>7. CASE Return
  BY <1>0, <1>7 DEF TypeOK, Return, task, pool, Testproof
<1>8. CASE UNCHANGED vars
  BY <1>8 DEF vars, task, pool, TypeOK, Testproof
<1> QED
  BY <1>1, <1>2, <1>3, <1>4, <1>5, <1>6, <1>7, <1>8 DEF Next, MineFromString, ThreadMining

\* The variables of a pool keep to their types.
THEOREM PoolTypeOK == Spec => []TypeOK
<1>1. PoolInv => TypeOK
  BY DEF PoolInv
<1> QED
  BY <1>1, PoolInit, PoolStep, PTL DEF Spec

\* What mine_from_string returns has a hash whose text ends in the zeros of the difficulty:
\* when all threads were joined one of them is done, so the flag was raised, so some thread
\* that hit a proof is done, and it was joined.
THEOREM MiningReturnsAProof == Spec => []ReturnsAProof
<1>1. PoolInv => ReturnsAProof
  <2> SUFFICES ASSUME PoolInv, returned PROVE EndsInZeros(diff, Ascii(sha256[proof]))
    BY DEF ReturnsAProof
  <2>1. joined = nbthread /\ nbthread \in Nat \ {0}
    BY PoolAssumption DEF PoolInv
  <2>2. 0 \in Thread /\ \A n \in Thread : n < joined
    BY <2>1 DEF Thread
  <2>3. ismining = 1
    BY <2>1, <2>2 DEF PoolInv
  <2>4. Testproof(proof)
    BY <2>2, <2>3 DEF PoolInv
  <2>5. diff \in 0 .. 2 * SHA256_BLOCK_SIZE
    BY PoolAssumption DEF PoolInv, TypeOK
  <2>6. sha256[proof] \in [1 .. SHA256_BLOCK_SIZE -> 0 .. 255]
    BY PoolAssumption DEF PoolInv, TypeOK
  <2> QED
    BY <2>4, <2>5, <2>6, PassingEndsInZeros DEF Testproof
<1> QED
  BY <1>1, PoolInit, PoolStep, PTL DEF Spec

===============================================================================
