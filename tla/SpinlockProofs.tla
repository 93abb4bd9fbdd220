---- MODULE SpinlockProofs ----
\* Proofs that the spinlocks of lock.c are mutually exclusive, never panic and
\* keep the interrupt state, for any number of CPUs and locks.
EXTENDS Spinlock, FiniteSetTheorems, TLAPS

\* The locks a context holds are finitely many: Cardinality counts them.
LEMMA HeldFinite ==
    ASSUME TypeOK, NEW c \in CPU, NEW m \in Mode
    PROVE  /\ IsFiniteSet(held[c][m])
           /\ Cardinality(held[c][m]) \in Nat
           /\ Cardinality(held[c][m]) = 0 <=> held[c][m] = {}
<1>1. held[c][m] \subseteq Lock
  BY DEF TypeOK
<1>2. IsFiniteSet(held[c][m])
  BY <1>1, LockAssumption, FS_Subset
<1>. QED BY <1>2, FS_CardinalityType, FS_EmptySet

\* noff is zero exactly when the running context holds nothing and is not in
\* the middle of acquire or release.
LEMMA DepthZero ==
    ASSUME IInv, NEW c \in CPU
    PROVE  noff[c] = 0 <=> Held(c) = {} /\ pc[c][M(c)] \in Before
<1>1. /\ Cardinality(Held(c)) \in Nat
      /\ Cardinality(Held(c)) = 0 <=> Held(c) = {}
  BY HeldFinite DEF IInv, Held, M, Mode
<1>2. noff[c] = Cardinality(Held(c)) + (IF pc[c][M(c)] \in Counted THEN 1 ELSE 0)
  BY DEF IInv, DepthInv, Held
<1>3. noff[c] = 0 <=> Held(c) = {} /\ pc[c][M(c)] \notin Counted
  BY <1>1, <1>2
<1>4. pc[c][M(c)] \in {"release", "unlock"} => Held(c) # {}
  BY DEF IInv, ArgInv, Held, M, Mode
<1>5. pc[c][M(c)] \in PC /\ pc[c][M(c)] # "panic"
  BY DEF IInv, TypeOK, NoPanic, M, Mode
<1>. QED BY <1>3, <1>4, <1>5 DEF Before, Counted, PC

\* The caller holds only locks below l, hence not l.
LEMMA Step_acquire ==
    ASSUME IInv, NEW c \in CPU, NEW l \in Lock, acquire(c, l)
    PROVE  IInv'
<1>0. TypeOK /\ NoPanic /\ DepthInv /\ SuspendedInv /\ IntrInv /\ ArgInv
      /\ MutualExclusion /\ LockedInv /\ CpuInv
  BY DEF IInv
<1>a. l \notin Held(c)
  BY DEF acquire
<1>1. TypeOK'
  BY <1>0, <1>a DEF TypeOK, acquire, PC, At, Goto, Arg, Held, M, Mode
<1>2. NoPanic'
  BY <1>0, <1>a DEF TypeOK, NoPanic, acquire, At, Goto, Arg, Held, M, Mode
<1>3. DepthInv'
  BY <1>0, <1>a DEF TypeOK, DepthInv, Counted, acquire, At, Goto, Arg, Held, M, Mode
<1>4. SuspendedInv'
  BY <1>0, <1>a DEF TypeOK, SuspendedInv, Before, acquire, At, Goto, Arg, Held, M, Mode
<1>5. IntrInv'
  BY <1>0, <1>a DEF TypeOK, IntrInv, acquire, At, Goto, Arg, Held, M, Mode
<1>6. ArgInv'
  BY <1>0, <1>a DEF TypeOK, ArgInv, Acquiring, acquire, At, Goto, Arg, Held, M, Mode
<1>7. MutualExclusion'
  BY <1>0, <1>a DEF TypeOK, MutualExclusion, Inside, acquire, At, Goto, Arg, Held, M, Mode
<1>8. LockedInv'
  <2>1. \A d \in CPU, m \in Mode, k \in Lock : Inside(d, m, k)' <=> Inside(d, m, k)
    BY <1>0, <1>a DEF TypeOK, Inside, acquire, At, Goto, Arg, Held, M, Mode
  <2>2. locked' = locked
    BY DEF acquire
  <2>. QED BY <1>0, <2>1, <2>2 DEF LockedInv
<1>9. CpuInv'
  BY <1>0, <1>a DEF TypeOK, CpuInv, Owns, acquire, At, Goto, Arg, Held, M, Mode
<1>. QED BY <1>1, <1>2, <1>3, <1>4, <1>5, <1>6, <1>7, <1>8, <1>9 DEF IInv

\* The read of SIE in push_off.
LEMMA Step_intr_get ==
    ASSUME IInv, NEW c \in CPU, intr_get(c)
    PROVE  IInv'
<1>0. TypeOK /\ NoPanic /\ DepthInv /\ SuspendedInv /\ IntrInv /\ ArgInv
      /\ MutualExclusion /\ LockedInv /\ CpuInv
  BY DEF IInv
<1>1. TypeOK'
  BY <1>0, DepthZero DEF TypeOK, intr_get, PC, At, Goto, Arg, Held, M, Mode
<1>2. NoPanic'
  BY <1>0, DepthZero DEF TypeOK, NoPanic, intr_get, At, Goto, Arg, Held, M, Mode
<1>3. DepthInv'
  BY <1>0, DepthZero DEF TypeOK, DepthInv, Counted, intr_get, At, Goto, Arg, Held, M, Mode
<1>4. SuspendedInv'
  BY <1>0, DepthZero DEF TypeOK, SuspendedInv, Before, intr_get, At, Goto, Arg, Held, M, Mode
<1>5. IntrInv'
  BY <1>0, DepthZero DEF Before, TypeOK, IntrInv, intr_get, At, Goto, Arg, Held, M, Mode
<1>6. ArgInv'
  BY <1>0, DepthZero DEF TypeOK, ArgInv, Acquiring, intr_get, At, Goto, Arg, Held, M, Mode
<1>7. MutualExclusion'
  BY <1>0, DepthZero DEF TypeOK, MutualExclusion, Inside, intr_get, At, Goto, Arg, Held, M, Mode
<1>8. LockedInv'
  <2>1. \A d \in CPU, m \in Mode, k \in Lock : Inside(d, m, k)' <=> Inside(d, m, k)
    BY <1>0, DepthZero DEF TypeOK, Inside, intr_get, At, Goto, Arg, Held, M, Mode
  <2>2. locked' = locked
    BY DEF intr_get
  <2>. QED BY <1>0, <2>1, <2>2 DEF LockedInv
<1>9. CpuInv'
  BY <1>0, DepthZero DEF TypeOK, CpuInv, Owns, intr_get, At, Goto, Arg, Held, M, Mode
<1>. QED BY <1>1, <1>2, <1>3, <1>4, <1>5, <1>6, <1>7, <1>8, <1>9 DEF IInv

\* The outermost push_off records SIE, which is what the thread wanted.
LEMMA Step_push_off ==
    ASSUME IInv, NEW c \in CPU, push_off(c)
    PROVE  IInv'
<1>0. TypeOK /\ NoPanic /\ DepthInv /\ SuspendedInv /\ IntrInv /\ ArgInv
      /\ MutualExclusion /\ LockedInv /\ CpuInv
  BY DEF IInv
<1>a. noff[c] \in Nat /\ (noff[c] = 0 <=> Held(c) = {})
  BY <1>0, DepthZero DEF push_off, At, Before, TypeOK
<1>b. Cardinality(Held(c)) \in Nat
  BY <1>0, HeldFinite DEF Held, M, Mode
<1>1. TypeOK'
  BY <1>0, <1>a, <1>b DEF TypeOK, push_off, PC, At, Goto, Arg, Held, M, Mode
<1>2. NoPanic'
  BY <1>0, <1>a, <1>b DEF TypeOK, NoPanic, push_off, At, Goto, Arg, Held, M, Mode
<1>3. DepthInv'
  BY <1>0, <1>a, <1>b DEF TypeOK, DepthInv, Counted, push_off, At, Goto, Arg, Held, M, Mode
<1>4. SuspendedInv'
  BY <1>0, <1>a, <1>b DEF TypeOK, SuspendedInv, Before, push_off, At, Goto, Arg, Held, M, Mode
<1>5. IntrInv'
  <2>1. noff'[c] # 0 /\ ~sie'[c] /\ M(c)' = M(c)
    BY <1>0, <1>a DEF TypeOK, push_off, M
  <2>2. interrupt_on'[c] = (wanted[c] /\ ~inkernel_trap[c])
    BY <1>0, <1>a DEF TypeOK, IntrInv, push_off, At, Held, M, Mode
  <2>3. pc'[c]["trap"] # "intr_off" \/ ~inkernel_trap[c]
    BY <1>0 DEF TypeOK, push_off, Goto, M, Mode
  <2>4. pc'[c]["thread"] # "intr_off" \/ inkernel_trap[c]
    BY <1>0 DEF TypeOK, push_off, Goto, M, Mode
  <2>5. UNCHANGED <<wanted, inkernel_trap, held>>
    BY DEF push_off
  <2>6. \A d \in CPU \ {c} :
           UNCHANGED <<noff[d], sie[d], interrupt_on[d], pc[d], old[d]>>
    BY <1>0 DEF TypeOK, push_off, Goto
  <2>7. /\ pc'[c]["trap"] = "intr_off" => ~old'[c]["trap"]
        /\ pc'[c]["thread"] = "intr_off" /\ held[c]["thread"] = {} => old'[c]["thread"] = wanted[c]
    <3>1. CASE inkernel_trap[c]
      BY <1>0, <2>3, <3>1 DEF TypeOK, IntrInv, push_off, Goto, M, Mode
    <3>2. CASE ~inkernel_trap[c]
      <4>1. pc[c]["trap"] = "idle"
        BY <1>0, <3>2 DEF SuspendedInv
      <4>2. pc' = [pc EXCEPT ![c]["thread"] = "locked?"]
        BY <3>2 DEF push_off, Goto, M
      <4>. QED BY <1>0, <2>4, <3>2, <4>1, <4>2 DEF TypeOK, Mode
    <3>. QED BY <3>1, <3>2
  <2>. QED BY <1>0, <2>1, <2>2, <2>5, <2>6, <2>7 DEF IntrInv
<1>6. ArgInv'
  BY <1>0, <1>a, <1>b DEF TypeOK, ArgInv, Acquiring, push_off, At, Goto, Arg, Held, M, Mode
<1>7. MutualExclusion'
  BY <1>0, <1>a, <1>b DEF TypeOK, MutualExclusion, Inside, push_off, At, Goto, Arg, Held, M, Mode
<1>8. LockedInv'
  <2>1. \A d \in CPU, m \in Mode, k \in Lock : Inside(d, m, k)' <=> Inside(d, m, k)
    BY <1>0, <1>a, <1>b DEF TypeOK, Inside, push_off, At, Goto, Arg, Held, M, Mode
  <2>2. locked' = locked
    BY DEF push_off
  <2>. QED BY <1>0, <2>1, <2>2 DEF LockedInv
<1>9. CpuInv'
  BY <1>0, <1>a, <1>b DEF TypeOK, CpuInv, Owns, push_off, At, Goto, Arg, Held, M, Mode
<1>. QED BY <1>1, <1>2, <1>3, <1>4, <1>5, <1>6, <1>7, <1>8, <1>9 DEF IInv

\* The read of lk->locked in holding().
LEMMA Step_holding_locked ==
    ASSUME IInv, NEW c \in CPU, holding_locked(c)
    PROVE  IInv'
<1>0. TypeOK /\ NoPanic /\ DepthInv /\ SuspendedInv /\ IntrInv /\ ArgInv
      /\ MutualExclusion /\ LockedInv /\ CpuInv
  BY DEF IInv
<1>1. TypeOK'
  BY <1>0 DEF TypeOK, holding_locked, PC, At, Goto, Arg, Held, M, Mode
<1>2. NoPanic'
  BY <1>0 DEF TypeOK, NoPanic, holding_locked, At, Goto, Arg, Held, M, Mode
<1>3. DepthInv'
  BY <1>0 DEF TypeOK, DepthInv, Counted, holding_locked, At, Goto, Arg, Held, M, Mode
<1>4. SuspendedInv'
  BY <1>0 DEF TypeOK, SuspendedInv, Before, holding_locked, At, Goto, Arg, Held, M, Mode
<1>5. IntrInv'
  BY <1>0 DEF TypeOK, IntrInv, holding_locked, At, Goto, Arg, Held, M, Mode
<1>6. ArgInv'
  BY <1>0 DEF TypeOK, ArgInv, Acquiring, holding_locked, At, Goto, Arg, Held, M, Mode
<1>7. MutualExclusion'
  BY <1>0 DEF TypeOK, MutualExclusion, Inside, holding_locked, At, Goto, Arg, Held, M, Mode
<1>8. LockedInv'
  <2>1. \A d \in CPU, m \in Mode, k \in Lock : Inside(d, m, k)' <=> Inside(d, m, k)
    BY <1>0 DEF TypeOK, Inside, holding_locked, At, Goto, Arg, Held, M, Mode
  <2>2. locked' = locked
    BY DEF holding_locked
  <2>. QED BY <1>0, <2>1, <2>2 DEF LockedInv
<1>9. CpuInv'
  BY <1>0 DEF TypeOK, CpuInv, Owns, holding_locked, At, Goto, Arg, Held, M, Mode
<1>. QED BY <1>1, <1>2, <1>3, <1>4, <1>5, <1>6, <1>7, <1>8, <1>9 DEF IInv

\* lk->cpu = c would mean that c holds the lock it is acquiring.
LEMMA Step_holding_cpu ==
    ASSUME IInv, NEW c \in CPU, holding_cpu(c)
    PROVE  IInv'
<1>0. TypeOK /\ NoPanic /\ DepthInv /\ SuspendedInv /\ IntrInv /\ ArgInv
      /\ MutualExclusion /\ LockedInv /\ CpuInv
  BY DEF IInv
<1>a. cpu[Arg(c)] # c
  <2>1. Arg(c) \notin Held(c) /\ Arg(c) \in Lock
    BY <1>0 DEF ArgInv, TypeOK, holding_cpu, At, Acquiring, Arg, Held, M, Mode
  <2>2. \A m \in Mode : Arg(c) \notin held[c][m]
    BY <1>0, <2>1 DEF SuspendedInv, Held, M, Mode
  <2>. QED BY <1>0, <2>1, <2>2 DEF CpuInv, Owns
<1>1. TypeOK'
  BY <1>0, <1>a DEF TypeOK, holding_cpu, PC, At, Goto, Arg, Held, M, Mode
<1>2. NoPanic'
  BY <1>0, <1>a DEF TypeOK, NoPanic, holding_cpu, At, Goto, Arg, Held, M, Mode
<1>3. DepthInv'
  BY <1>0, <1>a DEF TypeOK, DepthInv, Counted, holding_cpu, At, Goto, Arg, Held, M, Mode
<1>4. SuspendedInv'
  BY <1>0, <1>a DEF TypeOK, SuspendedInv, Before, holding_cpu, At, Goto, Arg, Held, M, Mode
<1>5. IntrInv'
  BY <1>0, <1>a DEF TypeOK, IntrInv, holding_cpu, At, Goto, Arg, Held, M, Mode
<1>6. ArgInv'
  BY <1>0, <1>a DEF TypeOK, ArgInv, Acquiring, holding_cpu, At, Goto, Arg, Held, M, Mode
<1>7. MutualExclusion'
  BY <1>0, <1>a DEF TypeOK, MutualExclusion, Inside, holding_cpu, At, Goto, Arg, Held, M, Mode
<1>8. LockedInv'
  <2>1. \A d \in CPU, m \in Mode, k \in Lock : Inside(d, m, k)' <=> Inside(d, m, k)
    BY <1>0, <1>a DEF TypeOK, Inside, holding_cpu, At, Goto, Arg, Held, M, Mode
  <2>2. locked' = locked
    BY DEF holding_cpu
  <2>. QED BY <1>0, <2>1, <2>2 DEF LockedInv
<1>9. CpuInv'
  BY <1>0, <1>a DEF TypeOK, CpuInv, Owns, holding_cpu, At, Goto, Arg, Held, M, Mode
<1>. QED BY <1>1, <1>2, <1>3, <1>4, <1>5, <1>6, <1>7, <1>8, <1>9 DEF IInv

\* A free lock has nobody inside.
LEMMA Step_test_and_set ==
    ASSUME IInv, NEW c \in CPU, test_and_set(c)
    PROVE  IInv'
<1>0. TypeOK /\ NoPanic /\ DepthInv /\ SuspendedInv /\ IntrInv /\ ArgInv
      /\ MutualExclusion /\ LockedInv /\ CpuInv
  BY DEF IInv
<1>1. TypeOK'
  BY <1>0 DEF TypeOK, test_and_set, PC, At, Goto, Arg, Held, M, Mode
<1>2. NoPanic'
  BY <1>0 DEF TypeOK, NoPanic, test_and_set, At, Goto, Arg, Held, M, Mode
<1>3. DepthInv'
  BY <1>0 DEF TypeOK, DepthInv, Counted, test_and_set, At, Goto, Arg, Held, M, Mode
<1>4. SuspendedInv'
  BY <1>0 DEF TypeOK, SuspendedInv, Before, test_and_set, At, Goto, Arg, Held, M, Mode
<1>5. IntrInv'
  BY <1>0 DEF TypeOK, IntrInv, test_and_set, At, Goto, Arg, Held, M, Mode
<1>6. ArgInv'
  BY <1>0 DEF TypeOK, ArgInv, Acquiring, test_and_set, At, Goto, Arg, Held, M, Mode
<1>7. MutualExclusion'
  BY <1>0 DEF LockedInv, TypeOK, MutualExclusion, Inside, test_and_set, At, Goto, Arg, Held, M, Mode
<1>8. LockedInv'
  <2>1. \A d \in CPU, m \in Mode, k \in Lock :
           Inside(d, m, k)' <=> Inside(d, m, k) \/ (d = c /\ m = M(c) /\ k = Arg(c))
    BY <1>0 DEF TypeOK, NoPanic, Inside, test_and_set, At, Goto, Arg, M, Mode
  <2>2. \A k \in Lock : locked'[k] <=> locked[k] \/ k = Arg(c)
    BY <1>0 DEF TypeOK, test_and_set, Arg, M, Mode
  <2>3. M(c) \in Mode /\ Arg(c) \in Lock
    BY <1>0 DEF TypeOK, M, Mode, Arg
  <2>. QED BY <1>0, <2>1, <2>2, <2>3 DEF LockedInv
<1>9. CpuInv'
  BY <1>0 DEF TypeOK, CpuInv, Owns, test_and_set, At, Goto, Arg, Held, M, Mode
<1>. QED BY <1>1, <1>2, <1>3, <1>4, <1>5, <1>6, <1>7, <1>8, <1>9 DEF IInv

\* The store of lk->cpu that ends acquire.
LEMMA Step_acquired ==
    ASSUME IInv, NEW c \in CPU, acquired(c)
    PROVE  IInv'
<1>0. TypeOK /\ NoPanic /\ DepthInv /\ SuspendedInv /\ IntrInv /\ ArgInv
      /\ MutualExclusion /\ LockedInv /\ CpuInv
  BY DEF IInv
<1>a. Arg(c) \notin Held(c) /\ Arg(c) \in Lock
  BY <1>0 DEF ArgInv, TypeOK, acquired, At, Acquiring, Arg, Held, M, Mode
<1>b. /\ Cardinality(Held(c)) \in Nat
      /\ Cardinality(Held(c) \cup {Arg(c)}) = Cardinality(Held(c)) + 1
  BY <1>0, <1>a, HeldFinite, FS_AddElement DEF Held, M, Mode
<1>1. TypeOK'
  BY <1>0, <1>a, <1>b DEF TypeOK, acquired, PC, At, Goto, Arg, Held, M, Mode
<1>2. NoPanic'
  BY <1>0, <1>a, <1>b DEF TypeOK, NoPanic, acquired, At, Goto, Arg, Held, M, Mode
<1>3. DepthInv'
  BY <1>0, <1>a, <1>b DEF TypeOK, DepthInv, Counted, acquired, At, Goto, Arg, Held, M, Mode
<1>4. SuspendedInv'
  BY <1>0, <1>a, <1>b DEF TypeOK, SuspendedInv, Before, acquired, At, Goto, Arg, Held, M, Mode
<1>5. IntrInv'
  BY <1>0, <1>a, <1>b DEF TypeOK, IntrInv, acquired, At, Goto, Arg, Held, M, Mode
<1>6. ArgInv'
  BY <1>0, <1>a, <1>b DEF TypeOK, ArgInv, Acquiring, acquired, At, Goto, Arg, Held, M, Mode
<1>7. MutualExclusion'
  BY <1>0, <1>a, <1>b DEF TypeOK, MutualExclusion, Inside, acquired, At, Goto, Arg, Held, M, Mode
<1>8. LockedInv'
  <2>1. \A d \in CPU, m \in Mode, k \in Lock : Inside(d, m, k)' <=> Inside(d, m, k)
    BY <1>0, <1>a, <1>b DEF TypeOK, Inside, acquired, At, Goto, Arg, Held, M, Mode
  <2>2. locked' = locked
    BY DEF acquired
  <2>. QED BY <1>0, <2>1, <2>2 DEF LockedInv
<1>9. CpuInv'
  <2>1. \A d \in CPU, m \in Mode, k \in Lock :
           Owns(d, m, k)' <=> Owns(d, m, k) \/ (d = c /\ m = M(c) /\ k = Arg(c))
    BY <1>0, <1>a DEF TypeOK, Owns, acquired, At, Goto, Arg, Held, M, Mode
  <2>2. \A d \in CPU, m \in Mode : Owns(d, m, Arg(c)) => d = c
    BY <1>0, <1>a DEF MutualExclusion, Owns, Inside, acquired, At, Arg, M, Mode
  <2>3. \A k \in Lock : cpu'[k] = IF k = Arg(c) THEN c ELSE cpu[k]
    BY <1>0, <1>a DEF TypeOK, acquired
  <2>4. M(c) \in Mode
    BY DEF M, Mode
  <2>. QED BY <1>0, <2>1, <2>2, <2>3, <2>4 DEF CpuInv
<1>. QED BY <1>1, <1>2, <1>3, <1>4, <1>5, <1>6, <1>7, <1>8, <1>9 DEF IInv

\* The call of release for a lock the context holds.
LEMMA Step_release ==
    ASSUME IInv, NEW c \in CPU, NEW l \in Lock, release(c, l)
    PROVE  IInv'
<1>0. TypeOK /\ NoPanic /\ DepthInv /\ SuspendedInv /\ IntrInv /\ ArgInv
      /\ MutualExclusion /\ LockedInv /\ CpuInv
  BY DEF IInv
<1>1. TypeOK'
  BY <1>0 DEF TypeOK, release, PC, At, Goto, Arg, Held, M, Mode
<1>2. NoPanic'
  BY <1>0 DEF TypeOK, NoPanic, release, At, Goto, Arg, Held, M, Mode
<1>3. DepthInv'
  BY <1>0 DEF TypeOK, DepthInv, Counted, release, At, Goto, Arg, Held, M, Mode
<1>4. SuspendedInv'
  BY <1>0 DEF TypeOK, SuspendedInv, Before, release, At, Goto, Arg, Held, M, Mode
<1>5. IntrInv'
  BY <1>0 DEF TypeOK, IntrInv, release, At, Goto, Arg, Held, M, Mode
<1>6. ArgInv'
  BY <1>0 DEF TypeOK, ArgInv, Acquiring, release, At, Goto, Arg, Held, M, Mode
<1>7. MutualExclusion'
  BY <1>0 DEF TypeOK, MutualExclusion, Inside, release, At, Goto, Arg, Held, M, Mode
<1>8. LockedInv'
  <2>1. \A d \in CPU, m \in Mode, k \in Lock : Inside(d, m, k)' <=> Inside(d, m, k)
    BY <1>0 DEF TypeOK, Inside, release, At, Goto, Arg, Held, M, Mode
  <2>2. locked' = locked
    BY DEF release
  <2>. QED BY <1>0, <2>1, <2>2 DEF LockedInv
<1>9. CpuInv'
  BY <1>0 DEF TypeOK, CpuInv, Owns, release, At, Goto, Arg, Held, M, Mode
<1>. QED BY <1>1, <1>2, <1>3, <1>4, <1>5, <1>6, <1>7, <1>8, <1>9 DEF IInv

\* A lock that is held is locked and names this CPU: release does not panic.
LEMMA Step_clear_cpu ==
    ASSUME IInv, NEW c \in CPU, clear_cpu(c)
    PROVE  IInv'
<1>0. TypeOK /\ NoPanic /\ DepthInv /\ SuspendedInv /\ IntrInv /\ ArgInv
      /\ MutualExclusion /\ LockedInv /\ CpuInv
  BY DEF IInv
<1>a. Arg(c) \in Held(c) /\ Arg(c) \in Lock
  BY <1>0 DEF ArgInv, TypeOK, clear_cpu, At, Arg, Held, M, Mode
<1>b. /\ locked[Arg(c)] /\ cpu[Arg(c)] = c
      /\ cpu' = [cpu EXCEPT ![Arg(c)] = NoCpu]
      /\ Goto(c, "unlock")
  <2>1. Inside(c, M(c), Arg(c)) /\ Owns(c, M(c), Arg(c))
    BY <1>a DEF Inside, Owns, clear_cpu, At, Held
  <2>2. locked[Arg(c)] /\ cpu[Arg(c)] = c
    BY <1>0, <1>a, <2>1 DEF LockedInv, CpuInv, M, Mode
  <2>. QED BY <2>2 DEF clear_cpu
<1>1. TypeOK'
  BY <1>0, <1>a, <1>b DEF TypeOK, clear_cpu, PC, At, Goto, Arg, Held, M, Mode
<1>2. NoPanic'
  BY <1>0, <1>a, <1>b DEF TypeOK, NoPanic, clear_cpu, At, Goto, Arg, Held, M, Mode
<1>3. DepthInv'
  BY <1>0, <1>a, <1>b DEF TypeOK, DepthInv, Counted, clear_cpu, At, Goto, Arg, Held, M, Mode
<1>4. SuspendedInv'
  BY <1>0, <1>a, <1>b DEF TypeOK, SuspendedInv, Before, clear_cpu, At, Goto, Arg, Held, M, Mode
<1>5. IntrInv'
  BY <1>0, <1>a, <1>b DEF TypeOK, IntrInv, clear_cpu, At, Goto, Arg, Held, M, Mode
<1>6. ArgInv'
  BY <1>0, <1>a, <1>b DEF TypeOK, ArgInv, Acquiring, clear_cpu, At, Goto, Arg, Held, M, Mode
<1>7. MutualExclusion'
  BY <1>0, <1>a, <1>b DEF TypeOK, MutualExclusion, Inside, clear_cpu, At, Goto, Arg, Held, M, Mode
<1>8. LockedInv'
  <2>1. \A d \in CPU, m \in Mode, k \in Lock : Inside(d, m, k)' <=> Inside(d, m, k)
    BY <1>0, <1>a, <1>b DEF TypeOK, Inside, clear_cpu, At, Goto, Arg, Held, M, Mode
  <2>2. locked' = locked
    BY DEF clear_cpu
  <2>. QED BY <1>0, <2>1, <2>2 DEF LockedInv
<1>9. CpuInv'
  <2>1. \A d \in CPU, m \in Mode, k \in Lock :
           Owns(d, m, k)' <=> Owns(d, m, k) /\ ~(d = c /\ m = M(c) /\ k = Arg(c))
    BY <1>0, <1>a, <1>b DEF TypeOK, Owns, clear_cpu, At, Goto, Arg, Held, M, Mode
  <2>2. \A d \in CPU, m \in Mode : Owns(d, m, Arg(c)) => d = c /\ m = M(c)
    BY <1>0, <1>a DEF MutualExclusion, Owns, Inside, Arg, Held, M, Mode
  <2>3. \A k \in Lock : cpu'[k] = IF k = Arg(c) THEN NoCpu ELSE cpu[k]
    BY <1>0, <1>a, <1>b DEF TypeOK
  <2>. QED BY <1>0, <2>1, <2>2, <2>3, NoCpuAssumption DEF CpuInv
<1>. QED BY <1>1, <1>2, <1>3, <1>4, <1>5, <1>6, <1>7, <1>8, <1>9 DEF IInv

\* The store that frees lk->locked.
LEMMA Step_lock_release ==
    ASSUME IInv, NEW c \in CPU, lock_release(c)
    PROVE  IInv'
<1>0. TypeOK /\ NoPanic /\ DepthInv /\ SuspendedInv /\ IntrInv /\ ArgInv
      /\ MutualExclusion /\ LockedInv /\ CpuInv
  BY DEF IInv
<1>a. Arg(c) \in Held(c) /\ Arg(c) \in Lock
  BY <1>0 DEF ArgInv, TypeOK, lock_release, At, Arg, Held, M, Mode
<1>b. /\ Cardinality(Held(c)) \in Nat
      /\ Cardinality(Held(c) \ {Arg(c)}) = Cardinality(Held(c)) - 1
  BY <1>0, <1>a, HeldFinite, FS_RemoveElement DEF Held, M, Mode
<1>1. TypeOK'
  BY <1>0, <1>a, <1>b DEF TypeOK, lock_release, PC, At, Goto, Arg, Held, M, Mode
<1>2. NoPanic'
  BY <1>0, <1>a, <1>b DEF TypeOK, NoPanic, lock_release, At, Goto, Arg, Held, M, Mode
<1>3. DepthInv'
  BY <1>0, <1>a, <1>b DEF TypeOK, DepthInv, Counted, lock_release, At, Goto, Arg, Held, M, Mode
<1>4. SuspendedInv'
  BY <1>0, <1>a, <1>b DEF TypeOK, SuspendedInv, Before, lock_release, At, Goto, Arg, Held, M, Mode
<1>5. IntrInv'
  BY <1>0, <1>a, <1>b DEF TypeOK, IntrInv, lock_release, At, Goto, Arg, Held, M, Mode
<1>6. ArgInv'
  BY <1>0, <1>a, <1>b DEF TypeOK, ArgInv, Acquiring, lock_release, At, Goto, Arg, Held, M, Mode
<1>7. MutualExclusion'
  BY <1>0, <1>a, <1>b DEF TypeOK, MutualExclusion, Inside, lock_release, At, Goto, Arg, Held, M, Mode
<1>8. LockedInv'
  <2>1. \A d \in CPU, m \in Mode, k \in Lock :
           Inside(d, m, k)' <=> Inside(d, m, k) /\ ~(d = c /\ m = M(c) /\ k = Arg(c))
    BY <1>0, <1>a DEF TypeOK, Inside, lock_release, At, Goto, Arg, Held, M, Mode
  <2>2. \A k \in Lock : locked'[k] <=> locked[k] /\ k # Arg(c)
    BY <1>0, <1>a DEF TypeOK, lock_release, Arg, M, Mode
  <2>3. Inside(c, M(c), Arg(c)) /\ M(c) \in Mode
    BY <1>a DEF Inside, Held, M, Mode
  <2>. QED BY <1>0, <1>a, <2>1, <2>2, <2>3 DEF LockedInv, MutualExclusion
<1>9. CpuInv'
  BY <1>0, <1>a, <1>b DEF TypeOK, CpuInv, Owns, lock_release, At, Goto, Arg, Held, M, Mode
<1>. QED BY <1>1, <1>2, <1>3, <1>4, <1>5, <1>6, <1>7, <1>8, <1>9 DEF IInv

\* Interrupts are off, the depth is positive, and in a trap interrupt_on is off.
LEMMA Step_pop_off ==
    ASSUME IInv, NEW c \in CPU, pop_off(c)
    PROVE  IInv'
<1>0. TypeOK /\ NoPanic /\ DepthInv /\ SuspendedInv /\ IntrInv /\ ArgInv
      /\ MutualExclusion /\ LockedInv /\ CpuInv
  BY DEF IInv
<1>a. noff[c] \in Nat /\ noff[c] # 0 /\ ~sie[c]
  BY <1>0, DepthZero DEF TypeOK, pop_off, At, Before, IntrInv
<1>b. Cardinality(Held(c)) \in Nat /\ noff[c] = Cardinality(Held(c)) + 1
  BY <1>0, HeldFinite DEF DepthInv, pop_off, At, Counted, Held, M, Mode
<1>c. /\ noff' = [noff EXCEPT ![c] = noff[c] - 1]
      /\ sie' = [sie EXCEPT ![c] = noff[c] = 1 /\ wanted[c] /\ ~inkernel_trap[c]]
      /\ Goto(c, "idle")
  BY <1>0, <1>a DEF pop_off, IntrInv, TypeOK
<1>1. TypeOK'
  BY <1>0, <1>a, <1>b, <1>c DEF TypeOK, pop_off, PC, At, Goto, Arg, Held, M, Mode
<1>2. NoPanic'
  BY <1>0, <1>a, <1>b, <1>c DEF TypeOK, NoPanic, pop_off, At, Goto, Arg, Held, M, Mode
<1>3. DepthInv'
  BY <1>0, <1>a, <1>b, <1>c DEF TypeOK, DepthInv, Counted, pop_off, At, Goto, Arg, Held, M, Mode
<1>4. SuspendedInv'
  BY <1>0, <1>a, <1>b, <1>c DEF TypeOK, SuspendedInv, Before, pop_off, At, Goto, Arg, Held, M, Mode
<1>5. IntrInv'
  BY <1>0, <1>a, <1>b, <1>c DEF TypeOK, IntrInv, pop_off, At, Goto, Arg, Held, M, Mode
<1>6. ArgInv'
  BY <1>0, <1>a, <1>b, <1>c DEF TypeOK, ArgInv, Acquiring, pop_off, At, Goto, Arg, Held, M, Mode
<1>7. MutualExclusion'
  BY <1>0, <1>a, <1>b, <1>c DEF TypeOK, MutualExclusion, Inside, pop_off, At, Goto, Arg, Held, M, Mode
<1>8. LockedInv'
  <2>1. \A d \in CPU, m \in Mode, k \in Lock : Inside(d, m, k)' <=> Inside(d, m, k)
    BY <1>0, <1>a, <1>b, <1>c DEF TypeOK, Inside, pop_off, At, Goto, Arg, Held, M, Mode
  <2>2. locked' = locked
    BY DEF pop_off
  <2>. QED BY <1>0, <2>1, <2>2 DEF LockedInv
<1>9. CpuInv'
  BY <1>0, <1>a, <1>b, <1>c DEF TypeOK, CpuInv, Owns, pop_off, At, Goto, Arg, Held, M, Mode
<1>. QED BY <1>1, <1>2, <1>3, <1>4, <1>5, <1>6, <1>7, <1>8, <1>9 DEF IInv

\* The thread turns its interrupts on or off outside every critical section.
LEMMA Step_set_intr ==
    ASSUME IInv, NEW c \in CPU, NEW on \in BOOLEAN, set_intr(c, on)
    PROVE  IInv'
<1>0. TypeOK /\ NoPanic /\ DepthInv /\ SuspendedInv /\ IntrInv /\ ArgInv
      /\ MutualExclusion /\ LockedInv /\ CpuInv
  BY DEF IInv
<1>1. TypeOK'
  BY <1>0, DepthZero DEF TypeOK, set_intr, PC, At, Goto, Arg, Held, M, Mode
<1>2. NoPanic'
  BY <1>0, DepthZero DEF TypeOK, NoPanic, set_intr, At, Goto, Arg, Held, M, Mode
<1>3. DepthInv'
  BY <1>0, DepthZero DEF TypeOK, DepthInv, Counted, set_intr, At, Goto, Arg, Held, M, Mode
<1>4. SuspendedInv'
  BY <1>0, DepthZero DEF TypeOK, SuspendedInv, Before, set_intr, At, Goto, Arg, Held, M, Mode
<1>5. IntrInv'
  BY <1>0, DepthZero DEF Before, TypeOK, IntrInv, set_intr, At, Goto, Arg, Held, M, Mode
<1>6. ArgInv'
  BY <1>0, DepthZero DEF TypeOK, ArgInv, Acquiring, set_intr, At, Goto, Arg, Held, M, Mode
<1>7. MutualExclusion'
  BY <1>0, DepthZero DEF TypeOK, MutualExclusion, Inside, set_intr, At, Goto, Arg, Held, M, Mode
<1>8. LockedInv'
  <2>1. \A d \in CPU, m \in Mode, k \in Lock : Inside(d, m, k)' <=> Inside(d, m, k)
    BY <1>0, DepthZero DEF TypeOK, Inside, set_intr, At, Goto, Arg, Held, M, Mode
  <2>2. locked' = locked
    BY DEF set_intr
  <2>. QED BY <1>0, <2>1, <2>2 DEF LockedInv
<1>9. CpuInv'
  BY <1>0, DepthZero DEF TypeOK, CpuInv, Owns, set_intr, At, Goto, Arg, Held, M, Mode
<1>. QED BY <1>1, <1>2, <1>3, <1>4, <1>5, <1>6, <1>7, <1>8, <1>9 DEF IInv

\* Interrupts are on, so the thread holds nothing and no trap is in progress.
LEMMA Step_kernel_trap ==
    ASSUME IInv, NEW c \in CPU, kernel_trap(c)
    PROVE  IInv'
<1>0. TypeOK /\ NoPanic /\ DepthInv /\ SuspendedInv /\ IntrInv /\ ArgInv
      /\ MutualExclusion /\ LockedInv /\ CpuInv
  BY DEF IInv
<1>a. /\ ~inkernel_trap[c] /\ noff[c] = 0 /\ wanted[c]
      /\ inkernel_trap' = [inkernel_trap EXCEPT ![c] = TRUE]
      /\ UNCHANGED pc
  BY <1>0 DEF kernel_trap, IntrInv, TypeOK
<1>b. /\ held[c]["thread"] = {} /\ pc[c]["thread"] \in Before
      /\ held[c]["trap"] = {} /\ pc[c]["trap"] = "idle"
  BY <1>0, <1>a, DepthZero DEF Held, M, SuspendedInv
<1>1. TypeOK'
  BY <1>0, <1>a, <1>b DEF TypeOK, kernel_trap, PC, At, Goto, Arg, Held, M, Mode
<1>2. NoPanic'
  BY <1>0, <1>a, <1>b DEF TypeOK, NoPanic, kernel_trap, At, Goto, Arg, Held, M, Mode
<1>3. DepthInv'
  <2>1. /\ M(c)' = "trap" /\ held'[c]["trap"] = {} /\ pc'[c]["trap"] \in Before
        /\ noff'[c] = 0
    BY <1>0, <1>a, <1>b DEF TypeOK, kernel_trap, M, Before
  <2>2. \A d \in CPU \ {c} : UNCHANGED <<noff[d], held[d], pc[d], M(d)>>
    BY <1>0, <1>a DEF TypeOK, kernel_trap, M
  <2>3. (noff[c] = Cardinality(held[c][M(c)]) + (IF pc[c][M(c)] \in Counted THEN 1 ELSE 0))'
    BY <2>1, FS_EmptySet DEF Counted, Before
  <2>4. ASSUME NEW d \in CPU \ {c}
        PROVE  (noff[d] = Cardinality(held[d][M(d)]) + (IF pc[d][M(d)] \in Counted THEN 1 ELSE 0))'
    BY <1>0, <2>2 DEF DepthInv
  <2>. QED BY <2>3, <2>4 DEF DepthInv
<1>4. SuspendedInv'
  BY <1>0, <1>a, <1>b DEF TypeOK, SuspendedInv, Before, kernel_trap, At, Goto, Arg, Held, M, Mode
<1>5. IntrInv'
  BY <1>0, <1>a, <1>b DEF TypeOK, IntrInv, kernel_trap, At, Goto, Arg, Held, M, Mode
<1>6. ArgInv'
  BY <1>0, <1>a, <1>b DEF TypeOK, ArgInv, Acquiring, kernel_trap, At, Goto, Arg, Held, M, Mode
<1>7. MutualExclusion'
  BY <1>0, <1>a, <1>b DEF TypeOK, MutualExclusion, Inside, kernel_trap, At, Goto, Arg, Held, M, Mode
<1>8. LockedInv'
  <2>1. \A d \in CPU, m \in Mode, k \in Lock : Inside(d, m, k)' <=> Inside(d, m, k)
    BY <1>0, <1>a, <1>b DEF TypeOK, Inside, kernel_trap, At, Goto, Arg, Held, M, Mode
  <2>2. locked' = locked
    BY DEF kernel_trap
  <2>. QED BY <1>0, <2>1, <2>2 DEF LockedInv
<1>9. CpuInv'
  BY <1>0, <1>a, <1>b DEF TypeOK, CpuInv, Owns, kernel_trap, At, Goto, Arg, Held, M, Mode
<1>. QED BY <1>1, <1>2, <1>3, <1>4, <1>5, <1>6, <1>7, <1>8, <1>9 DEF IInv

\* The handler is done: the thread resumes where noff was zero.
LEMMA Step_kernel_trap_ret ==
    ASSUME IInv, NEW c \in CPU, kernel_trap_ret(c)
    PROVE  IInv'
<1>0. TypeOK /\ NoPanic /\ DepthInv /\ SuspendedInv /\ IntrInv /\ ArgInv
      /\ MutualExclusion /\ LockedInv /\ CpuInv
  BY DEF IInv
<1>a. /\ inkernel_trap[c] /\ wanted[c] /\ ~sie[c] /\ noff[c] = 0
      /\ inkernel_trap' = [inkernel_trap EXCEPT ![c] = FALSE]
      /\ sie' = [sie EXCEPT ![c] = TRUE]
      /\ UNCHANGED pc
  BY <1>0, DepthZero DEF kernel_trap_ret, IntrInv, SuspendedInv, At, Before
<1>b. /\ held[c]["thread"] = {} /\ pc[c]["thread"] \in Before
      /\ held[c]["trap"] = {} /\ pc[c]["trap"] = "idle"
  BY <1>0, <1>a DEF kernel_trap_ret, At, Held, M, SuspendedInv
<1>1. TypeOK'
  BY <1>0, <1>a, <1>b DEF TypeOK, kernel_trap_ret, PC, At, Goto, Arg, Held, M, Mode
<1>2. NoPanic'
  BY <1>0, <1>a, <1>b DEF TypeOK, NoPanic, kernel_trap_ret, At, Goto, Arg, Held, M, Mode
<1>3. DepthInv'
  <2>1. /\ M(c)' = "thread" /\ held'[c]["thread"] = {} /\ pc'[c]["thread"] \in Before
        /\ noff'[c] = 0
    BY <1>0, <1>a, <1>b DEF TypeOK, kernel_trap_ret, M, Before
  <2>2. \A d \in CPU \ {c} : UNCHANGED <<noff[d], held[d], pc[d], M(d)>>
    BY <1>0, <1>a DEF TypeOK, kernel_trap_ret, M
  <2>3. (noff[c] = Cardinality(held[c][M(c)]) + (IF pc[c][M(c)] \in Counted THEN 1 ELSE 0))'
    BY <2>1, FS_EmptySet DEF Counted, Before
  <2>4. ASSUME NEW d \in CPU \ {c}
        PROVE  (noff[d] = Cardinality(held[d][M(d)]) + (IF pc[d][M(d)] \in Counted THEN 1 ELSE 0))'
    BY <1>0, <2>2 DEF DepthInv
  <2>. QED BY <2>3, <2>4 DEF DepthInv
<1>4. SuspendedInv'
  BY <1>0, <1>a, <1>b DEF TypeOK, SuspendedInv, Before, kernel_trap_ret, At, Goto, Arg, Held, M, Mode
<1>5. IntrInv'
  BY <1>0, <1>a, <1>b DEF TypeOK, IntrInv, kernel_trap_ret, At, Goto, Arg, Held, M, Mode
<1>6. ArgInv'
  BY <1>0, <1>a, <1>b DEF TypeOK, ArgInv, Acquiring, kernel_trap_ret, At, Goto, Arg, Held, M, Mode
<1>7. MutualExclusion'
  BY <1>0, <1>a, <1>b DEF TypeOK, MutualExclusion, Inside, kernel_trap_ret, At, Goto, Arg, Held, M, Mode
<1>8. LockedInv'
  <2>1. \A d \in CPU, m \in Mode, k \in Lock : Inside(d, m, k)' <=> Inside(d, m, k)
    BY <1>0, <1>a, <1>b DEF TypeOK, Inside, kernel_trap_ret, At, Goto, Arg, Held, M, Mode
  <2>2. locked' = locked
    BY DEF kernel_trap_ret
  <2>. QED BY <1>0, <2>1, <2>2 DEF LockedInv
<1>9. CpuInv'
  BY <1>0, <1>a, <1>b DEF TypeOK, CpuInv, Owns, kernel_trap_ret, At, Goto, Arg, Held, M, Mode
<1>. QED BY <1>1, <1>2, <1>3, <1>4, <1>5, <1>6, <1>7, <1>8, <1>9 DEF IInv

\* The invariant is inductive.
LEMMA IInvInductive == Spec => []IInv
<1>1. Init => IInv
  <2> SUFFICES ASSUME Init PROVE IInv
    OBVIOUS
  <2>1. TypeOK /\ NoPanic /\ SuspendedInv /\ IntrInv /\ ArgInv
    BY LockAssumption DEF Init, TypeOK, NoPanic, SuspendedInv, IntrInv, ArgInv, Mode, PC, Acquiring
  <2>2. DepthInv
    BY FS_EmptySet DEF Init, DepthInv, Counted, M, Mode
  <2>3. MutualExclusion /\ LockedInv
    BY DEF Init, MutualExclusion, LockedInv, Inside, Mode
  <2>4. CpuInv
    BY NoCpuAssumption DEF Init, CpuInv, Owns, Mode
  <2>. QED BY <2>1, <2>2, <2>3, <2>4 DEF IInv
<1>2. IInv /\ [Next]_vars => IInv'
  <2> SUFFICES ASSUME IInv, [Next]_vars PROVE IInv'
    OBVIOUS
  <2>1. CASE Next
    <3>1. PICK c \in CPU :
             \/ \E l \in Lock : acquire(c, l) \/ release(c, l)
             \/ \E on \in BOOLEAN : set_intr(c, on)
             \/ kernel_trap(c) \/ kernel_trap_ret(c)
             \/ intr_get(c) \/ push_off(c) \/ holding_locked(c) \/ holding_cpu(c)
             \/ test_and_set(c) \/ acquired(c)
             \/ clear_cpu(c) \/ lock_release(c) \/ pop_off(c)
      BY <2>1 DEF Next, Run
    <3>. QED BY <3>1, Step_acquire, Step_release, Step_set_intr, Step_kernel_trap,
                Step_kernel_trap_ret, Step_intr_get, Step_push_off, Step_holding_locked,
                Step_holding_cpu, Step_test_and_set, Step_acquired, Step_clear_cpu,
                Step_lock_release, Step_pop_off
  <2>2. CASE UNCHANGED vars
    BY <2>2 DEF vars, IInv, TypeOK, NoPanic, DepthInv, SuspendedInv, IntrInv, ArgInv,
                MutualExclusion, LockedInv, CpuInv, Inside, Owns, M
  <2>. QED BY <2>1, <2>2
<1>. QED BY <1>1, <1>2, PTL DEF Spec

\* The type invariant of the spinlocks and of the per-CPU interrupt state.
THEOREM TypeCorrect == Spec => []TypeOK
<1>1. IInv => TypeOK
  BY DEF IInv
<1>. QED BY <1>1, IInvInductive, PTL

\* acquire() and release() exclude each other: two contexts of one or of two
\* CPUs are never between acquire and release of the same lock.
THEOREM SpinlockMutualExclusion == Spec => []MutualExclusion
<1>1. IInv => MutualExclusion
  BY DEF IInv
<1>. QED BY <1>1, IInvInductive, PTL

\* No panic of acquire, release, pop_off or kernel_trap is reachable.
THEOREM SpinlockNoPanic == Spec => []NoPanic
<1>1. IInv => NoPanic
  BY DEF IInv
<1>. QED BY <1>1, IInvInductive, PTL

\* Interrupts are off inside a critical section and back to what the thread set
\* outside of all of them.
THEOREM SpinlockRestoresInterrupts == Spec => []InterruptStateRestored
<1>1. IInv => InterruptStateRestored
  <2> SUFFICES ASSUME IInv, NEW c \in CPU
               PROVE  IF ~inkernel_trap[c] /\ pc[c]["thread"] = "idle" /\ held[c]["thread"] = {}
                      THEN sie[c] = wanted[c] /\ noff[c] = 0
                      ELSE held[c][M(c)] # {} => ~sie[c] /\ noff[c] > 0
    BY DEF InterruptStateRestored
  <2>1. noff[c] \in Nat /\ (noff[c] = 0 <=> Held(c) = {} /\ pc[c][M(c)] \in Before)
    BY DepthZero DEF IInv, TypeOK
  <2>2. /\ sie[c] => noff[c] = 0 /\ ~inkernel_trap[c]
        /\ noff[c] = 0 /\ ~inkernel_trap[c] => sie[c] = wanted[c]
    BY DEF IInv, IntrInv
  <2>. QED BY <2>1, <2>2 DEF Held, M, Before
<1>. QED BY <1>1, IInvInductive, PTL

\* An interrupt handler finds the interrupted thread outside every lock.
THEOREM SpinlockTrapHoldsNothing == Spec => []TrapHoldsNothing
<1>1. IInv => TrapHoldsNothing
  BY DEF IInv, TrapHoldsNothing, SuspendedInv, Inside, Before
<1>. QED BY <1>1, IInvInductive, PTL
-----------------------------------------------------------------------------
\* The refinement of AbstractLock: the swap of acquire() is the abstract Acquire, the
\* swap of release() the abstract Release, and every other step a stutter.

\* The holder of a lock is the CPU of the one context that is inside.
LEMMA HolderIsInside ==
    MutualExclusion =>
        \A l \in Lock, c \in CPU, m \in Mode : Inside(c, m, l) => HolderOf(l) = c
<1>. SUFFICES ASSUME MutualExclusion, NEW l \in Lock, NEW c \in CPU, NEW m \in Mode, Inside(c, m, l)
              PROVE  HolderOf(l) = c
  OBVIOUS
<1>1. \A d \in CPU : (\E n \in Mode : Inside(d, n, l)) <=> d = c
  BY DEF MutualExclusion
<1>2. (CHOOSE d \in CPU : \E n \in Mode : Inside(d, n, l)) = c
  BY <1>1
<1>. QED BY <1>2 DEF HolderOf

\* The same in the next state.
LEMMA HolderIsInsideNext ==
    ASSUME MutualExclusion', NEW l \in Lock, NEW c \in CPU, NEW m \in Mode, Inside(c, m, l)'
    PROVE  HolderOf(l)' = c
<1>1. \A d \in CPU : (\E n \in Mode : Inside(d, n, l)') <=> d = c
  BY DEF MutualExclusion
<1>2. (CHOOSE d \in CPU : \E n \in Mode : Inside(d, n, l)') = c
  BY <1>1
<1>. QED BY <1>2 DEF HolderOf

\* Where a step lets nobody in or out of a lock, the lock keeps its holder.
LEMMA HolderStays ==
    ASSUME IInv, IInv', NEW l \in Lock,
           \A c \in CPU, m \in Mode : Inside(c, m, l)' <=> Inside(c, m, l)
    PROVE  HolderOf(l)' = HolderOf(l)
<1>1. CASE \E c \in CPU, m \in Mode : Inside(c, m, l)
  <2>1. PICK c \in CPU, m \in Mode : Inside(c, m, l)
    BY <1>1
  <2>2. HolderOf(l) = c
    BY <2>1, HolderIsInside DEF IInv
  <2>3. HolderOf(l)' = c
    BY <2>1, HolderIsInsideNext DEF IInv
  <2>. QED BY <2>2, <2>3
<1>2. CASE ~\E c \in CPU, m \in Mode : Inside(c, m, l)
  BY <1>2 DEF HolderOf
<1>. QED BY <1>1, <1>2

\* Only the two swaps change who is inside which lock.
LEMMA InsideStays ==
    ASSUME IInv, NEW c \in CPU,
           \/ \E l \in Lock : acquire(c, l) \/ release(c, l)
           \/ \E on \in BOOLEAN : set_intr(c, on)
           \/ kernel_trap(c) \/ kernel_trap_ret(c)
           \/ intr_get(c) \/ push_off(c) \/ holding_locked(c) \/ holding_cpu(c)
           \/ acquired(c) \/ clear_cpu(c) \/ pop_off(c)
    PROVE  \A d \in CPU, m \in Mode, k \in Lock : Inside(d, m, k)' <=> Inside(d, m, k)
<1>0. TypeOK /\ IntrInv
  BY DEF IInv
<1>1. CASE \E on \in BOOLEAN : set_intr(c, on)
  BY <1>1 DEF set_intr, Inside
<1>2. ASSUME NEW l \in Lock, acquire(c, l)
      PROVE  \A d \in CPU, m \in Mode, k \in Lock : Inside(d, m, k)' <=> Inside(d, m, k)
  BY <1>0, <1>2 DEF TypeOK, Inside, acquire, At, Goto, M, Mode
<1>3. ASSUME NEW l \in Lock, release(c, l)
      PROVE  \A d \in CPU, m \in Mode, k \in Lock : Inside(d, m, k)' <=> Inside(d, m, k)
  BY <1>0, <1>3 DEF TypeOK, Inside, release, At, Goto, M, Mode
<1>4. CASE intr_get(c)
  BY <1>0, <1>4 DEF TypeOK, Inside, intr_get, At, Goto, Arg, M, Mode
<1>5. CASE push_off(c)
  BY <1>0, <1>5 DEF TypeOK, Inside, push_off, At, Goto, Arg, M, Mode
<1>6. CASE holding_locked(c)
  BY <1>0, <1>6 DEF TypeOK, Inside, holding_locked, At, Goto, Arg, M, Mode
<1>7. CASE holding_cpu(c)
  BY <1>0, <1>7 DEF TypeOK, Inside, holding_cpu, At, Goto, Arg, M, Mode
<1>8. CASE acquired(c)
  BY <1>0, <1>8 DEF TypeOK, Inside, acquired, At, Goto, Arg, M, Mode
<1>9. CASE clear_cpu(c)
  <2>1. pc'[c] = pc[c] \/ (pc[c][M(c)] # "own" /\ pc'[c][M(c)] # "own")
    BY <1>0, <1>9 DEF TypeOK, clear_cpu, At, Goto, M, Mode
  <2>2. \A m \in Mode \ {M(c)} : pc'[c][m] = pc[c][m]
    BY <1>0, <1>9 DEF TypeOK, clear_cpu, Goto, M, Mode
  <2>3. \A d \in CPU \ {c} : pc'[d] = pc[d]
    BY <1>0, <1>9 DEF TypeOK, clear_cpu, Goto
  <2>4. UNCHANGED <<held, arg>>
    BY <1>9 DEF clear_cpu
  <2>. QED BY <2>1, <2>2, <2>3, <2>4 DEF Inside
<1>10. CASE pop_off(c)
  <2>1. pc'[c] = pc[c] \/ (pc[c][M(c)] # "own" /\ pc'[c][M(c)] # "own")
    BY <1>0, <1>10 DEF TypeOK, pop_off, At, Goto, M, Mode
  <2>2. \A m \in Mode \ {M(c)} : pc'[c][m] = pc[c][m]
    BY <1>0, <1>10 DEF TypeOK, pop_off, Goto, M, Mode
  <2>3. \A d \in CPU \ {c} : pc'[d] = pc[d]
    BY <1>0, <1>10 DEF TypeOK, pop_off, Goto
  <2>4. UNCHANGED <<held, arg>>
    BY <1>10 DEF pop_off
  <2>. QED BY <2>1, <2>2, <2>3, <2>4 DEF Inside
<1>11. CASE kernel_trap(c)
  <2>1. pc'[c] = pc[c] \/ (pc[c][M(c)] # "own" /\ pc'[c][M(c)] # "own")
    BY <1>0, <1>11 DEF IntrInv, kernel_trap
  <2>2. \A m \in Mode \ {M(c)} : pc'[c][m] = pc[c][m]
    BY <1>0, <1>11 DEF TypeOK, kernel_trap, Goto, M, Mode
  <2>3. \A d \in CPU \ {c} : pc'[d] = pc[d]
    BY <1>0, <1>11 DEF TypeOK, kernel_trap, Goto
  <2>4. UNCHANGED <<held, arg>>
    BY <1>11 DEF kernel_trap
  <2>. QED BY <2>1, <2>2, <2>3, <2>4 DEF Inside
<1>12. CASE kernel_trap_ret(c)
  <2>1. pc'[c] = pc[c] \/ (pc[c][M(c)] # "own" /\ pc'[c][M(c)] # "own")
    BY <1>0, <1>12 DEF TypeOK, kernel_trap_ret, At, Goto, M, Mode
  <2>2. \A m \in Mode \ {M(c)} : pc'[c][m] = pc[c][m]
    BY <1>0, <1>12 DEF TypeOK, kernel_trap_ret, Goto, M, Mode
  <2>3. \A d \in CPU \ {c} : pc'[d] = pc[d]
    BY <1>0, <1>12 DEF TypeOK, kernel_trap_ret, Goto
  <2>4. UNCHANGED <<held, arg>>
    BY <1>12 DEF kernel_trap_ret
  <2>. QED BY <2>1, <2>2, <2>3, <2>4 DEF Inside
<1>. QED BY <1>1, <1>2, <1>3, <1>4, <1>5, <1>6, <1>7, <1>8, <1>9, <1>10, <1>11, <1>12

\* The successful amoswap of acquire() takes a lock that nobody holds.
LEMMA SwapAcquires ==
    ASSUME IInv, IInv', NEW c \in CPU, test_and_set(c)
    PROVE  \E l \in Lock : Abstract!Acquire(c, l)
<1>0. TypeOK /\ ArgInv /\ LockedInv /\ MutualExclusion
  BY DEF IInv
<1>1. PICK l \in Lock, m \in Mode : l = Arg(c) /\ m = M(c)
  BY <1>0 DEF TypeOK, Arg, M, Mode
<1>2. HolderOf(l) = NoCpu
  BY <1>0, <1>1 DEF test_and_set, LockedInv, HolderOf
<1>3. HolderOf(l)' = c
  <2>1. Inside(c, m, l)'
    BY <1>0, <1>1 DEF TypeOK, test_and_set, Inside, Goto, Arg
  <2>. QED BY <1>1, <2>1, HolderIsInsideNext DEF IInv
<1>4. ASSUME NEW k \in Lock, k # l
      PROVE  HolderOf(k)' = HolderOf(k)
  <2>1. \A d \in CPU, n \in Mode : Inside(d, n, k)' <=> Inside(d, n, k)
    BY <1>0, <1>1, <1>4 DEF TypeOK, test_and_set, Inside, At, Goto, Arg, M, Mode
  <2>. QED BY <2>1, HolderStays
<1>5. [k \in Lock |-> HolderOf(k)]' = [[k \in Lock |-> HolderOf(k)] EXCEPT ![l] = c]
  BY <1>1, <1>3, <1>4
<1>. QED BY <1>1, <1>2, <1>5 DEF Abstract!Acquire

\* The swap of release() gives up a lock that this CPU holds.
LEMMA SwapReleases ==
    ASSUME IInv, IInv', NEW c \in CPU, lock_release(c)
    PROVE  \E l \in Lock : Abstract!Release(c, l)
<1>0. TypeOK /\ ArgInv /\ LockedInv /\ MutualExclusion
  BY DEF IInv
<1>1. PICK l \in Lock, m \in Mode : l = Arg(c) /\ m = M(c) /\ Inside(c, m, l)
  BY <1>0 DEF TypeOK, ArgInv, lock_release, Inside, At, Arg, M, Mode
<1>2. HolderOf(l) = c
  BY <1>0, <1>1, HolderIsInside
<1>3. HolderOf(l)' = NoCpu
  <2>1. ~locked'[l]
    BY <1>0, <1>1 DEF TypeOK, lock_release
  <2>2. \A d \in CPU, n \in Mode : ~Inside(d, n, l)'
    BY <1>1, <2>1 DEF IInv, LockedInv
  <2>. QED BY <2>2 DEF HolderOf
<1>4. ASSUME NEW k \in Lock, k # l
      PROVE  HolderOf(k)' = HolderOf(k)
  <2>1. \A d \in CPU, n \in Mode : Inside(d, n, k)' <=> Inside(d, n, k)
    BY <1>0, <1>1, <1>4 DEF TypeOK, lock_release, Inside, At, Goto, Arg, M, Mode
  <2>. QED BY <2>1, HolderStays
<1>5. [k \in Lock |-> HolderOf(k)]' = [[k \in Lock |-> HolderOf(k)] EXCEPT ![l] = NoCpu]
  BY <1>1, <1>3, <1>4
<1>. QED BY <1>1, <1>2, <1>5 DEF Abstract!Release

\* acquire() and release() of lock.c implement the lock that AbstractLock promises.
THEOREM SpinlockImplementsLock == Spec => ImplementsLock
<1>. DEFINE holder == [l \in Lock |-> HolderOf(l)]
<1>1. Init => Abstract!Init
  <2>1. Init => \A l \in Lock, c \in CPU, m \in Mode : ~Inside(c, m, l)
    BY DEF Init, Inside, Mode
  <2>. QED BY <2>1 DEF Abstract!Init, HolderOf
<1>2. IInv /\ IInv' /\ [Next]_vars => [Abstract!Next]_holder
  <2>. SUFFICES ASSUME IInv, IInv', [Next]_vars PROVE [Abstract!Next]_holder
    OBVIOUS
  <2>1. ASSUME NEW c \in CPU, test_and_set(c) \/ lock_release(c)
        PROVE  Abstract!Next
    BY <2>1, SwapAcquires, SwapReleases DEF Abstract!Next
  <2>2. ASSUME NEW c \in CPU,
               \/ \E l \in Lock : acquire(c, l) \/ release(c, l)
               \/ \E on \in BOOLEAN : set_intr(c, on)
               \/ kernel_trap(c) \/ kernel_trap_ret(c)
               \/ intr_get(c) \/ push_off(c) \/ holding_locked(c) \/ holding_cpu(c)
               \/ acquired(c) \/ clear_cpu(c) \/ pop_off(c)
        PROVE  UNCHANGED holder
    <3>1. \A d \in CPU, m \in Mode, k \in Lock : Inside(d, m, k)' <=> Inside(d, m, k)
      BY <2>2, InsideStays
    <3>. QED BY <3>1, HolderStays
  <2>3. CASE UNCHANGED vars
    <3>1. \A d \in CPU, m \in Mode, k \in Lock : Inside(d, m, k)' <=> Inside(d, m, k)
      BY <2>3 DEF vars, Inside
    <3>. QED BY <3>1, HolderStays
  <2>. QED BY <2>1, <2>2, <2>3 DEF Next, Run
<1>. QED BY <1>1, <1>2, IInvInductive, PTL DEF Spec, ImplementsLock, Abstract!Spec
====
