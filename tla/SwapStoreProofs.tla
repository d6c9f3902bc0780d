-------------------------- MODULE SwapStoreProofs ---------------------------
(***************************************************************************)
(* For any number of stores, keys, budgets and faults: the lock file keeps *)
(* a swap directory to one store unless it is unlinked while it is open.   *)
(* While it does, only the cleanup of a store without the lock costs a     *)
(* parked snapshot, and what a store is charged covers what it holds.  No  *)
(* store ever goes over its budgets.                                       *)
(***************************************************************************)
EXTENDS SwapStore, FiniteSetTheorems, TLAPS

\* The provers tried on a leaf that names none, in this order.
USE SMT, Zenon, SMTT(20), SMTT(30)

----------------------------------------------------------------------------
(* How the total of a ledger of finitely many amounts changes with them *)

Units(f) == UNION {{k} \X (1..f[k]) : k \in DOMAIN f}

\* There are finitely many units, so that they can be counted.
LEMMA TotalType ==
    ASSUME NEW K, IsFiniteSet(K), NEW g \in [K -> Nat]
    PROVE  IsFiniteSet(Units(g)) /\ Total(g) = Cardinality(Units(g)) /\ Total(g) \in Nat
<1> DEFINE B(k) == {k} \X (1..g[k])
           f == [k \in K |-> B(k)]
           T == {B(k) : k \in K}
<1>1. \A k \in K : IsFiniteSet(B(k))
  <2> SUFFICES ASSUME NEW k \in K PROVE IsFiniteSet(B(k))
    OBVIOUS
  <2>1. IsFiniteSet(1..g[k])
    BY FS_Interval
  <2> QED
    BY <2>1, FS_Singleton, FS_Product
<1>2. f \in Surjection(K, T)
  BY DEF Surjection
<1>3. IsFiniteSet(T)
  BY <1>2, FS_Surjection
<1>4. Units(g) = UNION T
  BY DEF Units
<1>5. IsFiniteSet(Units(g))
  BY <1>1, <1>3, <1>4, FS_UNION
<1> QED
  BY <1>5, FS_CardinalityType DEF Total, Units

\* A larger amount adds its new units.
LEMMA TotalGrows ==
    ASSUME NEW K, IsFiniteSet(K), NEW g \in [K -> Nat], NEW k \in K, NEW n \in Nat, n >= g[k],
           NEW h, h = [g EXCEPT ![k] = n]
    PROVE  Total(h) = Total(g) + n - g[k]
<1> DEFINE G == Units(g)
           H == Units(h)
           D == {k} \X ((g[k] + 1)..n)
<1>1. /\ IsFiniteSet(G) /\ Cardinality(G) \in Nat
      /\ Total(g) = Cardinality(G) /\ Total(h) = Cardinality(H)
  <2>1. h \in [K -> Nat]
    OBVIOUS
  <2> QED
    BY <2>1, TotalType
<1>2. IsFiniteSet((g[k] + 1)..n) /\ Cardinality((g[k] + 1)..n) = n - g[k]
  <2>1. g[k] + 1 \in Int /\ n \in Int
    OBVIOUS
  <2>2. /\ IsFiniteSet((g[k] + 1)..n)
        /\ Cardinality((g[k] + 1)..n) = IF g[k] + 1 > n THEN 0 ELSE n - (g[k] + 1) + 1
    BY <2>1, FS_Interval
  <2> QED
    BY <2>2
<1>3. IsFiniteSet({k}) /\ Cardinality({k}) = 1
  BY FS_Singleton
<1>4. IsFiniteSet(D) /\ Cardinality(D) = 1 * (n - g[k])
  BY <1>2, <1>3, FS_Product
<1>5. H = G \cup D
  <2>1. ASSUME NEW x \in H PROVE x \in G \cup D
    <3>1. PICK i \in K : x \in {i} \X (1..h[i])
      BY <2>1 DEF Units
    <3>2. CASE i = k
      BY <3>1, <3>2 DEF Units
    <3>3. CASE i # k
      BY <3>1, <3>3 DEF Units
    <3> QED
      BY <3>2, <3>3
  <2>2. ASSUME NEW x \in G PROVE x \in H
    <3>1. PICK i \in K : x \in {i} \X (1..g[i])
      BY <2>2 DEF Units
    <3>2. x \in {i} \X (1..h[i])
      BY <3>1
    <3> QED
      BY <3>2 DEF Units
  <2>3. ASSUME NEW x \in D PROVE x \in H
    <3>1. x \in {k} \X (1..h[k])
      BY <2>3
    <3> QED
      BY <3>1 DEF Units
  <2> QED
    BY <2>1, <2>2, <2>3
<1>6. G \cap D = {}
  <2> SUFFICES ASSUME NEW x \in G, x \in D PROVE FALSE
    OBVIOUS
  <2>1. PICK i \in K : x \in {i} \X (1..g[i])
    BY DEF Units
  <2> QED
    BY <2>1
<1>7. Cardinality(G \cap D) = 0
  BY <1>6, FS_EmptySet
<1> HIDE DEF G, H, D
<1>8. Cardinality(G \cup D) = Cardinality(G) + Cardinality(D) - Cardinality(G \cap D)
  BY <1>1, <1>4, FS_Union
<1> QED
  BY <1>1, <1>4, <1>5, <1>7, <1>8

\* Replacing one amount changes the total by the difference.
LEMMA TotalUpdate ==
    ASSUME NEW K, IsFiniteSet(K), NEW g \in [K -> Nat], NEW h \in [K -> Nat], NEW k \in K,
           \A j \in K \ {k} : h[j] = g[j]
    PROVE  Total(h) \in Nat /\ Total(g) \in Nat /\ Total(h) + g[k] = Total(g) + h[k]
<1>1. g[k] \in Nat /\ h[k] \in Nat
  OBVIOUS
<1>2. Total(h) \in Nat /\ Total(g) \in Nat
  BY TotalType
<1>3. CASE h[k] >= g[k]
  <2>1. h = [g EXCEPT ![k] = h[k]]
    OBVIOUS
  <2>2. Total(h) = Total(g) + h[k] - g[k]
    BY <1>1, <1>3, <2>1, TotalGrows
  <2> QED
    BY <1>1, <1>2, <2>2
<1>4. CASE h[k] < g[k]
  <2>1. g = [h EXCEPT ![k] = g[k]] /\ g[k] >= h[k]
    BY <1>1, <1>4
  <2>2. Total(g) = Total(h) + g[k] - h[k]
    BY <1>1, <2>1, TotalGrows
  <2> QED
    BY <1>1, <1>2, <2>2
<1> QED
  BY <1>1, <1>2, <1>3, <1>4

\* Smaller amounts have no larger total.
LEMMA TotalShrinks ==
    ASSUME NEW K, IsFiniteSet(K), NEW g \in [K -> Nat], NEW h \in [K -> Nat], \A k \in K : h[k] <= g[k]
    PROVE  Total(h) <= Total(g)
<1> DEFINE G == Units(g)
           H == Units(h)
<1>1. IsFiniteSet(G) /\ Total(g) = Cardinality(G) /\ Total(h) = Cardinality(H)
  BY TotalType
<1>2. ASSUME NEW x \in H PROVE x \in G
  <2>1. PICK k \in K : x \in {k} \X (1..h[k])
    BY <1>2 DEF Units
  <2>2. x \in {k} \X (1..g[k])
    BY <2>1
  <2> QED
    BY <2>2 DEF Units
<1>3. H \in SUBSET G
  BY <1>2
<1> HIDE DEF G, H
<1> QED
  BY <1>1, <1>3, FS_Subset

\* Nothing adds up to nothing.
LEMMA TotalZero ==
    ASSUME NEW K, NEW g \in [K -> Nat], \A k \in K : g[k] = 0
    PROVE  Total(g) = 0
<1>1. \A k \in K : 1..g[k] = {}
  OBVIOUS
<1>2. UNION {{k} \X (1..g[k]) : k \in DOMAIN g} = {}
  BY <1>1
<1> QED
  BY <1>2, FS_EmptySet DEF Total

-----------------------------------------------------------------------------
(***************************************************************************)
(* The lock                                                                *)
(***************************************************************************)
\* The lock of the directory is held by one store at most.
Exclusive == \A s, t \in locked : s = t

Labels == {"new", "mkdir", "open", "try_lock", "clean", "up", "evict", "failed",
           "unlock", "unlink", "rmdir", "gone"}

LockTypes ==
    /\ pc \in [Stores -> Labels]
    /\ lock_file \in Inodes \cup {None}
    /\ handle \in [Stores -> Inodes \cup {None}]
    /\ locked \subseteq Stores

\* The lock file is unlinked only while no store has it open.  Drop does not
\* see to it: a store may open the file between another's release and unlink.
UnlinkedAlone ==
    [][lock_file # None /\ lock_file' = None => \A s \in Stores : handle[s] = None]_vars

\* Every open handle is of the inode the path names: this is what an unlink
\* under somebody's handle would break.  Only a store that was denied the lock
\* file gets past try_lock without the lock.
LockInv ==
    /\ LockTypes
    /\ \A s \in locked : pc[s] \in {"clean", "up", "evict", "unlock"}
    /\ "lock" \notin Faults => \A s \in Stores : pc[s] \in {"clean", "up", "evict"} => s \in locked
    /\ \A s \in Stores : pc[s] = "try_lock" \/ s \in locked => handle[s] # None
    /\ \A s \in Stores : handle[s] # None => handle[s] = lock_file
    /\ Exclusive

LEMMA LockInit == Init => LockInv
  BY StoreAssumption DEF Init, LockInv, LockTypes, Labels, Exclusive

LEMMA LockStep ==
    ASSUME LockInv, [Next]_vars,
           lock_file # None /\ lock_file' = None => \A s \in Stores : handle[s] = None
    PROVE  LockInv'
<1> USE StoreAssumption DEF LockInv, LockTypes, Labels, Exclusive
<1>1. CASE UNCHANGED vars
    BY <1>1 DEF vars, fs, lock
<1>2. ASSUME NEW s \in Stores, stat_dir(s) \/ prepare_dir(s) PROVE LockInv'
  <2>1. CASE stat_dir(s)
      BY <2>1 DEF stat_dir, Goto, fs
  <2>2. CASE prepare_dir(s)
      BY <2>2 DEF prepare_dir, Goto, lock
  <2> QED
      BY <1>2, <2>1, <2>2
<1>3. ASSUME NEW s \in Stores, lock_open(s) PROVE LockInv'
  <2>1. CASE ~dir
      BY <1>3, <2>1 DEF lock_open, Goto
  <2>2. CASE dir /\ lock_file # None
      BY <1>3, <2>2 DEF lock_open, Goto
  <2>3. CASE dir /\ lock_file = None
    <3>1. \A t \in Stores : handle[t] = None
        BY <2>3
    <3>2. locked = {}
        BY <3>1
    <3>3. PICK i \in Inodes : lock_file' = i
        BY <1>3, <2>3 DEF lock_open
    <3> QED
        BY <1>3, <2>3, <3>1, <3>2, <3>3 DEF lock_open, Goto
  <2> QED
      BY <2>1, <2>2, <2>3
<1>4. ASSUME NEW s \in Stores, lock_denied(s) PROVE LockInv'
    BY <1>4 DEF lock_denied, Goto, fs, lock
<1>5. ASSUME NEW s \in Stores, try_lock(s) PROVE LockInv'
  <2>1. CASE Free(handle[s])
    <3>1. locked = {}
        BY <1>5, <2>1 DEF try_lock, Free
    <3> QED
        BY <1>5, <2>1, <3>1 DEF try_lock, Goto, fs
  <2>2. CASE ~Free(handle[s])
      BY <1>5, <2>2 DEF try_lock, Free, Goto, fs
  <2> QED
      BY <2>1, <2>2
<1>6. ASSUME NEW s \in Stores, clean(s) PROVE LockInv'
    BY <1>6 DEF clean, Goto, lock
<1>7. ASSUME NEW s \in Stores, NEW k \in Keys, NEW b \in Sizes,
             put_host(s, k, b) \/ put_disk(s, k, b)
      PROVE LockInv'
    BY <1>7 DEF put_host, put_disk, Goto, lock
<1>8. ASSUME NEW s \in Stores, NEW k \in Keys, take(s, k) PROVE LockInv'
    BY <1>8 DEF take, lock
<1>9. ASSUME NEW s \in Stores, evict_lru_disk(s) \/ put_gives_up(s) \/ put_rename(s) PROVE LockInv'
    BY <1>9 DEF evict_lru_disk, put_gives_up, put_rename, Goto, lock
<1>10. ASSUME NEW s \in Stores, drop_spills(s) \/ drop_rmdir(s) PROVE LockInv'
    BY <1>10 DEF drop_spills, drop_rmdir, Goto, lock
<1>11. ASSUME NEW s \in Stores, drop_unlink(s) PROVE LockInv'
  <2>1. lock_file' = lock_file \/ lock_file' = None
      BY <1>11 DEF drop_unlink
  <2>2. UNCHANGED <<handle, locked>> /\ pc[s] = "unlink" /\ pc' = [pc EXCEPT ![s] = "rmdir"]
      BY <1>11 DEF drop_unlink, Goto, lock
  <2>3. \A t \in Stores : handle'[t] # None => handle'[t] = lock_file'
      BY <2>1, <2>2
  <2> QED
      BY <2>1, <2>2, <2>3
<1>12. ASSUME NEW s \in Stores, drop_lock(s) \/ kill(s) PROVE LockInv'
    BY <1>12 DEF drop_lock, kill, Goto, fs
<1> QED
    BY <1>1, <1>2, <1>3, <1>4, <1>5, <1>6, <1>7, <1>8, <1>9, <1>10, <1>11, <1>12 DEF Next

LEMMA LockKept == Spec /\ UnlinkedAlone => []LockInv
<1>1. LockInv /\ [Next]_vars
      /\ [lock_file # None /\ lock_file' = None => \A s \in Stores : handle[s] = None]_vars
      => LockInv'
  <2> SUFFICES ASSUME LockInv, [Next]_vars,
                      [lock_file # None /\ lock_file' = None => \A s \in Stores : handle[s] = None]_vars
               PROVE  LockInv'
      OBVIOUS
  <2>1. lock_file # None /\ lock_file' = None => \A s \in Stores : handle[s] = None
      BY DEF vars, fs
  <2> QED
      BY <2>1, LockStep
<1> QED
    BY <1>1, LockInit, PTL DEF Spec, UnlinkedAlone

\* Two stores use the directory at once only after the lock file was unlinked
\* under an open handle: whatever starts, fails, ends and is killed otherwise,
\* the lock of lock_dir keeps the directory to one store.
THEOREM OneOwnerUnlessUnlinked == Spec /\ UnlinkedAlone => []OneOwner
<1>1. LockInv => OneOwner
    BY DEF LockInv, Exclusive, OneOwner, Using
<1> QED
    BY <1>1, LockKept, PTL

-----------------------------------------------------------------------------
(***************************************************************************)
(* Parked snapshots                                                        *)
(***************************************************************************)
Jobs == [key : Keys, bytes : Nat] \cup {None}

SpillTypes ==
    /\ pc \in [Stores -> Labels]
    /\ locked \subseteq Stores
    /\ files \in [Names -> [by : Stores, bytes : Nat] \cup {None}]
    /\ entries \in [Stores -> [Keys -> [tier : {"host", "disk"}, bytes : Nat] \cup {None}]]
    /\ disk_budget \in [Stores -> Nat]
    /\ job \in [Stores -> Jobs]

\* A snapshot on disk is readable, or its file is gone and it is one of those
\* a cleanup without the lock may have cost.
Parked(s, k, Lost) == Readable(s, k) \/ (files[path_for(k)] = None /\ <<s, k>> \in Lost)

\* Only the holder of the lock has snapshots on disk, and a put under way
\* finds no temp file but its own.
SpillInv(Lost) ==
    /\ SpillTypes
    /\ \A s \in Stores : pc[s] = "evict" => s \in locked
    /\ \A s \in locked : pc[s] \in {"clean", "up", "evict", "unlock"}
    /\ \A s \in Stores : s \notin locked /\ pc[s] \notin {"unlink", "rmdir", "gone"} =>
          disk_budget[s] = 0
    /\ \A s \in Stores : s \notin locked \/ pc[s] \notin {"up", "evict"} => OnDisk(s) = {}
    /\ \A s \in Stores : pc[s] = "evict" =>
          /\ job[s].key \in Keys /\ job[s].bytes \in Nat
          /\ files[Temp(job[s].key)] \in {None, [by |-> s, bytes |-> job[s].bytes]}
    /\ \A s \in Stores : \A k \in OnDisk(s) : Parked(s, k, Lost)

LEMMA SpillInit == ASSUME NEW Lost PROVE Init => SpillInv(Lost)
  BY StoreAssumption DEF Init, SpillInv, SpillTypes, Jobs, Labels, OnDisk, InTier

\* A file and an entry that stay as they are stay readable, or lost.
LEMMA ParkedSame ==
    ASSUME NEW Lost, NEW s, NEW k, Parked(s, k, Lost),
           files'[path_for(k)] = files[path_for(k)], entries'[s][k] = entries[s][k]
    PROVE  Parked(s, k, Lost)'
  BY DEF Parked, Readable

LEMMA ParkedUnchanged ==
    ASSUME NEW Lost, SpillInv(Lost), NEW s \in Stores, files' = files, entries'[s] = entries[s]
    PROVE  OnDisk(s)' = OnDisk(s) /\ \A k \in OnDisk(s)' : Parked(s, k, Lost)'
<1>1. OnDisk(s)' = OnDisk(s)
    BY DEF OnDisk, InTier
<1>2. \A k \in OnDisk(s) : Parked(s, k, Lost)
    BY DEF SpillInv
<1> QED
    BY <1>1, <1>2, ParkedSame

\* The store s alone may have snapshots on disk.
LEMMA OthersHaveNone ==
    ASSUME NEW Lost, SpillInv(Lost), Exclusive, NEW s \in locked, NEW t \in Stores, t # s
    PROVE  OnDisk(t) = {}
  BY DEF SpillInv, SpillTypes, Exclusive

FileRecords == [by : Stores, bytes : Nat] \cup {None}
Entries == [Keys -> [tier : {"host", "disk"}, bytes : Nat] \cup {None}]

\* A step of a store in use: it must keep to its own entries, leave the files
\* alone without the lock, and lose no file of what it has on disk.
Own(s, Lost) ==
    /\ pc[s] \in {"up", "evict"} /\ pc' = [pc EXCEPT ![s] = pc'[s]] /\ pc'[s] \in {"up", "evict"}
    /\ UNCHANGED <<locked, disk_budget>>
    /\ entries' = [entries EXCEPT ![s] = entries'[s]] /\ entries'[s] \in Entries
    /\ files' \in [Names -> FileRecords]
    /\ job' \in [Stores -> Jobs]
    /\ \A t \in Stores : t # s => job'[t] = job[t]
    /\ s \notin locked => files' = files /\ pc'[s] = "up" /\ OnDisk(s)' = {}
    /\ pc'[s] = "evict" =>
          /\ job'[s].key \in Keys /\ job'[s].bytes \in Nat
          /\ files'[Temp(job'[s].key)] \in {None, [by |-> s, bytes |-> job'[s].bytes]}
    /\ \A k \in OnDisk(s)' : Parked(s, k, Lost)'

LEMMA OwnStep ==
    ASSUME NEW Lost, SpillInv(Lost), Exclusive, NEW s \in Stores, Own(s, Lost)
    PROVE  SpillInv(Lost)'
<1> USE StoreAssumption DEF SpillInv, SpillTypes, Labels
<1>1. SpillTypes'
  <2>1. pc' \in [Stores -> Labels] /\ locked' \subseteq Stores /\ disk_budget' \in [Stores -> Nat]
    <3>1. pc' \in [Stores -> Labels]
        BY DEF Own
    <3> QED
        BY <3>1 DEF Own
  <2>2. entries' \in [Stores -> Entries]
    <3>1. entries \in [Stores -> Entries]
        BY DEF Entries
    <3> QED
        BY <3>1 DEF Own
  <2> QED
      BY <2>1, <2>2 DEF Own, FileRecords, Entries
<1>2. \A t \in Stores : t # s => OnDisk(t)' = OnDisk(t) /\ pc'[t] = pc[t] /\ entries'[t] = entries[t]
    BY DEF Own, OnDisk, InTier
<1>3. s \in locked => \A t \in Stores : t # s => t \notin locked /\ pc[t] # "evict" /\ OnDisk(t) = {}
    BY OthersHaveNone DEF Exclusive
<1>6. ASSUME NEW t \in Stores, NEW k \in OnDisk(t)' PROVE Parked(t, k, Lost)'
  <2>1. CASE t = s
      BY <2>1 DEF Own
  <2>2. CASE t # s
    <3>1. k \in OnDisk(t) /\ entries'[t] = entries[t] /\ files' = files
        BY <1>2, <1>3, <2>2 DEF Own
    <3>2. Parked(t, k, Lost)
        BY <3>1
    <3> QED
        BY <3>1, <3>2, ParkedSame
  <2> QED
      BY <2>1, <2>2
<1>7. ASSUME NEW t \in Stores PROVE
        /\ pc'[t] = "evict" => t \in locked'
        /\ t \in locked' => pc'[t] \in {"clean", "up", "evict", "unlock"}
        /\ t \notin locked' /\ pc'[t] \notin {"unlink", "rmdir", "gone"} => disk_budget'[t] = 0
    BY <1>2 DEF Own
<1>8. ASSUME NEW t \in Stores, t \notin locked' \/ pc'[t] \notin {"up", "evict"}
      PROVE OnDisk(t)' = {}
    BY <1>2, <1>8 DEF Own
<1>9. ASSUME NEW t \in Stores, pc'[t] = "evict"
      PROVE /\ job'[t].key \in Keys /\ job'[t].bytes \in Nat
            /\ files'[Temp(job'[t].key)] \in {None, [by |-> t, bytes |-> job'[t].bytes]}
    BY <1>2, <1>3, <1>9 DEF Own
<1> QED
    BY <1>1, <1>6, <1>7, <1>8, <1>9

\* drop_key removes at most the file of its key, and none without the lock.
LEMMA DroppedFiles ==
    ASSUME NEW Lost, SpillInv(Lost), NEW s \in Stores, NEW k, NEW removed \in BOOLEAN
    PROVE  /\ FilesAfter(s, k, removed) \in [Names -> FileRecords]
           /\ EntriesAfter(s, k) \in Entries
           /\ \A j \in Keys : FilesAfter(s, k, removed)[Temp(j)] = files[Temp(j)]
           /\ \A j \in Keys : j # k => FilesAfter(s, k, removed)[path_for(j)] = files[path_for(j)]
           /\ s \notin locked /\ k \in Keys => FilesAfter(s, k, removed) = files
<1>1. files \in [Names -> FileRecords] /\ None \in FileRecords
    BY DEF SpillInv, SpillTypes, FileRecords
<1>2. EntriesAfter(s, k) \in Entries
    BY Zenon DEF SpillInv, SpillTypes, Entries, EntriesAfter
<1>3. \A j \in Keys : Temp(j) \in Names /\ path_for(j) \in Names /\ Temp(j) # path_for(k)
                       /\ (j # k => path_for(j) # path_for(k))
    BY DEF Names, Temp, path_for
<1>4. s \notin locked /\ k \in Keys => ~InTier(s, k, "disk")
    BY DEF SpillInv, OnDisk
<1> QED
    BY Zenon, <1>1, <1>2, <1>3, <1>4 DEF FilesAfter

LEMMA FateType == \A f : Fate(f) \subseteq BOOLEAN
  BY Zenon DEF Fate

LEMMA DropStep ==
    ASSUME NEW Lost, SpillInv(Lost), Exclusive, NEW s \in Stores, NEW k, k \in Keys \/ s \in locked,
           pc[s] \in {"up", "evict"}, drop_key(s, k), UNCHANGED <<pc, locked, disk_budget, job>>
    PROVE  SpillInv(Lost)'
<1>1. PICK removed \in BOOLEAN : files' = FilesAfter(s, k, removed)
    BY FateType DEF drop_key
<1>2. entries' = [entries EXCEPT ![s] = EntriesAfter(s, k)] /\ entries'[s] = EntriesAfter(s, k)
    BY DEF drop_key, SpillInv, SpillTypes
<1>3. \A j \in OnDisk(s)' : j \in Keys /\ j # k /\ j \in OnDisk(s) /\ entries'[s][j] = entries[s][j]
    BY <1>2 DEF OnDisk, InTier, EntriesAfter, SpillInv, SpillTypes
<1>4. pc' = [pc EXCEPT ![s] = pc'[s]] /\ job' \in [Stores -> Jobs]
    BY DEF SpillInv, SpillTypes
<1>5. ASSUME NEW j \in OnDisk(s)' PROVE Parked(s, j, Lost)'
  <2>1. Parked(s, j, Lost)
      BY <1>3 DEF SpillInv
  <2>2. files'[path_for(j)] = files[path_for(j)]
      BY <1>1, <1>3, DroppedFiles
  <2> QED
      BY <1>3, <2>1, <2>2, ParkedSame
<1>6. s \notin locked => OnDisk(s)' = {} /\ pc[s] = "up" /\ files' = files
    BY <1>1, <1>3, DroppedFiles DEF SpillInv
<1>7. pc[s] = "evict" =>
        /\ job'[s].key \in Keys /\ job'[s].bytes \in Nat
        /\ files'[Temp(job'[s].key)] \in {None, [by |-> s, bytes |-> job'[s].bytes]}
    BY <1>1, DroppedFiles DEF SpillInv
<1>8. files' \in [Names -> FileRecords] /\ EntriesAfter(s, k) \in Entries
    BY <1>1, DroppedFiles
<1>9. Own(s, Lost)
    BY Zenon, <1>2, <1>4, <1>5, <1>6, <1>7, <1>8 DEF Own
<1> QED
    BY <1>9, OwnStep

LEMMA StatKeeps ==
    ASSUME NEW Lost, SpillInv(Lost), Exclusive, NEW s \in Stores, stat_dir(s)
    PROVE  SpillInv(Lost)'
  BY DEF stat_dir, Goto, fs, accounts, OnDisk, InTier, Parked, Readable, SpillInv, SpillTypes, Labels

LEMMA PrepareKeeps ==
    ASSUME NEW Lost, SpillInv(Lost), Exclusive, NEW s \in Stores, prepare_dir(s)
    PROVE  SpillInv(Lost)'
  BY DEF prepare_dir, Goto, lock, accounts, OnDisk, InTier, Parked, Readable, SpillInv, SpillTypes, Labels

LEMMA OpenKeeps ==
    ASSUME NEW Lost, SpillInv(Lost), Exclusive, NEW s \in Stores, lock_open(s)
    PROVE  SpillInv(Lost)'
<1>1. PICK l \in {"try_lock", "failed"} : pc' = [pc EXCEPT ![s] = l]
    BY DEF lock_open, Goto
<1>2. UNCHANGED <<files, locked, accounts, job>> /\ pc[s] = "open"
    BY DEF lock_open
<1> QED
    BY <1>1, <1>2 DEF accounts, OnDisk, InTier, Parked, Readable, SpillInv, SpillTypes, Labels

LEMMA DeniedKeeps ==
    ASSUME NEW Lost, SpillInv(Lost), Exclusive, NEW s \in Stores, lock_denied(s)
    PROVE  SpillInv(Lost)'
  BY DEF lock_denied, Goto, fs, lock, accounts, OnDisk, InTier, Parked, Readable, SpillInv, SpillTypes, Labels

LEMMA TryLockKeeps ==
    ASSUME NEW Lost, SpillInv(Lost), Exclusive, NEW s \in Stores, try_lock(s)
    PROVE  SpillInv(Lost)'
<1>1. UNCHANGED <<files, disk_budget, entries, job>> /\ pc[s] = "try_lock"
    BY DEF try_lock, fs, accounts
<1>2. \A t \in Stores : OnDisk(t)' = OnDisk(t) /\ \A k \in OnDisk(t)' : Parked(t, k, Lost)'
    BY <1>1, ParkedUnchanged
<1>3. \/ locked' = locked \cup {s} /\ pc' = [pc EXCEPT ![s] = "clean"]
      \/ locked' = locked /\ pc' = [pc EXCEPT ![s] = "failed"]
    BY DEF try_lock, Goto
<1>6. SpillTypes'
    BY Zenon, <1>1, <1>3 DEF SpillInv, SpillTypes, Labels
<1>7. CASE locked' = locked \cup {s} /\ pc' = [pc EXCEPT ![s] = "clean"]
    BY <1>1, <1>2, <1>6, <1>7 DEF SpillInv, SpillTypes
<1>8. CASE locked' = locked /\ pc' = [pc EXCEPT ![s] = "failed"]
    BY <1>1, <1>2, <1>6, <1>8 DEF SpillInv, SpillTypes
<1> QED
    BY <1>3, <1>7, <1>8

LEMMA CleanKeeps ==
    ASSUME NEW Lost, SpillInv(Lost), Exclusive, NEW s \in locked, clean(s)
    PROVE  SpillInv(Lost)'
<1>1. PICK left \in SUBSET Names : files' = [f \in Names |-> IF f \in left THEN files[f] ELSE None]
    BY DEF clean, remove_spill_files
<1>2. \A t \in Stores : OnDisk(t) = {}
    BY OthersHaveNone DEF clean, SpillInv, SpillTypes
<1>3. files' \in [Names -> [by : Stores, bytes : Nat] \cup {None}]
    BY <1>1 DEF SpillInv, SpillTypes
<1>4. s \in Stores /\ \A t \in Stores : pc[t] # "evict"
    BY DEF clean, Exclusive, SpillInv, SpillTypes
<1>5. \E n \in Nat : disk_budget' = [disk_budget EXCEPT ![s] = n]
    BY Zenon, StoreAssumption DEF clean
<1> QED
    BY <1>2, <1>3, <1>4, <1>5 DEF clean, Goto, lock, OnDisk, InTier, Parked, Readable, SpillInv, SpillTypes, Labels

LEMMA PutHostKeeps ==
    ASSUME NEW Lost, SpillInv(Lost), Exclusive, NEW s \in Stores, NEW k \in Keys, NEW b \in Sizes, put_host(s, k, b)
    PROVE  SpillInv(Lost)'
<1>1. PICK removed \in BOOLEAN : files' = FilesAfter(s, k, removed)
    BY FateType DEF put_host
<1>2. entries' = [entries EXCEPT ![s] = entries'[s]] /\ entries'[s] \in Entries
      /\ entries'[s] = [entries[s] EXCEPT ![k] = [tier |-> "host", bytes |-> b]]
    BY StoreAssumption DEF put_host, Entries, SpillInv, SpillTypes
<1>3. \A j \in OnDisk(s)' : j \in Keys /\ j # k /\ j \in OnDisk(s) /\ entries'[s][j] = entries[s][j]
  <2>1. DOMAIN entries[s] = Keys
      BY DEF SpillInv, SpillTypes
  <2>2. \A j \in Keys : entries'[s][j] = IF j = k THEN [tier |-> "host", bytes |-> b] ELSE entries[s][j]
      BY <1>2, <2>1
  <2> QED
      BY <2>2 DEF OnDisk, InTier
<1>4. pc[s] = "up" /\ pc' = pc /\ UNCHANGED <<locked, disk_budget, job>>
    BY DEF put_host, lock
<1>5. ASSUME NEW j \in OnDisk(s)' PROVE Parked(s, j, Lost)'
  <2>1. Parked(s, j, Lost)
      BY <1>3 DEF SpillInv
  <2>2. files'[path_for(j)] = files[path_for(j)]
      BY <1>1, <1>3, DroppedFiles
  <2> QED
      BY <1>3, <2>1, <2>2, ParkedSame
<1>6. s \notin locked => OnDisk(s)' = {}
    BY <1>3 DEF SpillInv, SpillTypes
<1>7. files' \in [Names -> FileRecords] /\ (s \notin locked => files' = files)
    BY <1>1, DroppedFiles
<1>8. Own(s, Lost)
    BY <1>2, <1>4, <1>5, <1>6, <1>7 DEF Own, SpillInv, SpillTypes
<1> QED
    BY <1>8, OwnStep DEF SpillInv

\* The three ends of the disk half of put: refused, the temp file written, or
\* the write failed and the temp file removed or not.
LEMMA PutDiskEffect ==
    ASSUME NEW s, NEW k, NEW b, put_disk(s, k, b)
    PROVE LET n == b + HEADER
              tmp == [by |-> s, bytes |-> n]
          IN  \E removed \in BOOLEAN :
        /\ disk_used' = [disk_used EXCEPT ![s] = DiskAfter(s, k, removed)]
        /\ \/ ~CanHold(s, k, n, removed) /\ files' = FilesAfter(s, k, removed) /\ UNCHANGED <<pc, job>>
           \/ /\ CanHold(s, k, n, removed)
              /\ files' = [FilesAfter(s, k, removed) EXCEPT ![Temp(k)] = tmp]
              /\ job' = [job EXCEPT ![s] = [key |-> k, bytes |-> n]]
              /\ Goto(s, "evict")
           \/ /\ CanHold(s, k, n, removed)
              /\ \E w \in {None, tmp} : files' = [FilesAfter(s, k, removed) EXCEPT ![Temp(k)] = w]
              /\ UNCHANGED <<pc, job>>
<1> DEFINE n == b + HEADER
           tmp == [by |-> s, bytes |-> n]
<1>1. PICK removed \in Fate("unlink"), written \in Fate("write") :
        /\ disk_used' = [disk_used EXCEPT ![s] = DiskAfter(s, k, removed)]
        /\ \/ /\ ~CanHold(s, k, n, removed)
              /\ files' = FilesAfter(s, k, removed)
              /\ UNCHANGED <<pc, job>>
           \/ /\ CanHold(s, k, n, removed) /\ dir /\ written
              /\ files' = [FilesAfter(s, k, removed) EXCEPT ![Temp(k)] = tmp]
              /\ job' = [job EXCEPT ![s] = [key |-> k, bytes |-> n]]
              /\ Goto(s, "evict")
           \/ /\ CanHold(s, k, n, removed) /\ (~dir \/ ~written)
              /\ \E gone \in Fate("unlink") :
                    files' = IF gone \/ ~dir THEN [FilesAfter(s, k, removed) EXCEPT ![Temp(k)] = None]
                             ELSE [FilesAfter(s, k, removed) EXCEPT ![Temp(k)] = tmp]
              /\ UNCHANGED <<pc, job>>
    BY Zenon DEF put_disk
<1>2. removed \in BOOLEAN
    BY FateType
<1> QED
    BY Zenon, <1>1, <1>2

LEMMA PutDiskKeeps ==
    ASSUME NEW Lost, SpillInv(Lost), Exclusive, NEW s \in Stores, NEW k \in Keys, NEW b \in Sizes, put_disk(s, k, b)
    PROVE  SpillInv(Lost)'
<1> DEFINE n == b + HEADER
           tmp == [by |-> s, bytes |-> n]
<1>1. PICK removed \in BOOLEAN :
        \/ ~CanHold(s, k, n, removed) /\ files' = FilesAfter(s, k, removed) /\ UNCHANGED <<pc, job>>
        \/ /\ CanHold(s, k, n, removed)
           /\ files' = [FilesAfter(s, k, removed) EXCEPT ![Temp(k)] = tmp]
           /\ job' = [job EXCEPT ![s] = [key |-> k, bytes |-> n]]
           /\ Goto(s, "evict")
        \/ /\ CanHold(s, k, n, removed)
           /\ \E w \in {None, tmp} : files' = [FilesAfter(s, k, removed) EXCEPT ![Temp(k)] = w]
           /\ UNCHANGED <<pc, job>>
    BY PutDiskEffect
<1>2. pc[s] = "up" /\ entries' = [entries EXCEPT ![s] = EntriesAfter(s, k)]
      /\ entries'[s] = EntriesAfter(s, k) /\ UNCHANGED <<locked, disk_budget>>
    BY DEF put_disk, lock, SpillInv, SpillTypes
<1>3. n \in Nat /\ n > 0 /\ tmp \in FileRecords /\ None \in FileRecords
    BY StoreAssumption DEF FileRecords
<1>4. \A j \in OnDisk(s)' : j \in Keys /\ j # k /\ j \in OnDisk(s) /\ entries'[s][j] = entries[s][j]
    BY <1>2 DEF OnDisk, InTier, EntriesAfter, SpillInv, SpillTypes
<1>5. s \notin locked => ~CanHold(s, k, n, removed) /\ OnDisk(s)' = {}
    BY <1>2, <1>3, <1>4 DEF CanHold, SpillInv, SpillTypes
<1>6. ASSUME NEW j \in OnDisk(s)', files'[path_for(j)] = FilesAfter(s, k, removed)[path_for(j)]
      PROVE Parked(s, j, Lost)'
  <2>1. Parked(s, j, Lost)
      BY <1>4 DEF SpillInv
  <2>2. files'[path_for(j)] = files[path_for(j)]
      BY <1>4, <1>6, DroppedFiles
  <2> QED
      BY <1>4, <2>1, <2>2, ParkedSame
<1>7. \A j \in Keys : Temp(k) \in Names /\ path_for(j) \in Names /\ path_for(j) # Temp(k)
    BY DEF Names, Temp, path_for
<1>8. FilesAfter(s, k, removed) \in [Names -> FileRecords] /\ EntriesAfter(s, k) \in Entries
      /\ (s \notin locked => FilesAfter(s, k, removed) = files)
    BY DroppedFiles
<1>9. ASSUME ~CanHold(s, k, n, removed) /\ files' = FilesAfter(s, k, removed) /\ UNCHANGED <<pc, job>>
      PROVE Own(s, Lost)
    BY <1>2, <1>5, <1>6, <1>8, <1>9 DEF Own, SpillInv, SpillTypes
<1>10. ASSUME CanHold(s, k, n, removed),
              files' = [FilesAfter(s, k, removed) EXCEPT ![Temp(k)] = tmp],
              job' = [job EXCEPT ![s] = [key |-> k, bytes |-> n]],
              Goto(s, "evict")
       PROVE Own(s, Lost)
  <2>1. files' \in [Names -> FileRecords] /\ files'[Temp(k)] = tmp
        /\ \A j \in Keys : files'[path_for(j)] = FilesAfter(s, k, removed)[path_for(j)]
      BY <1>3, <1>7, <1>8, <1>10
  <2>2. job' \in [Stores -> Jobs] /\ job'[s] = [key |-> k, bytes |-> n]
        /\ \A t \in Stores : t # s => job'[t] = job[t]
      BY <1>3, <1>10 DEF Jobs, SpillInv, SpillTypes
  <2>3. pc' = [pc EXCEPT ![s] = "evict"] /\ s \in locked
      BY <1>5, <1>10 DEF Goto
  <2>4. files'[Temp(job'[s].key)] = [by |-> s, bytes |-> job'[s].bytes]
        /\ job'[s].key \in Keys /\ job'[s].bytes \in Nat
      BY <1>3, <2>1, <2>2
  <2>5. \A j \in OnDisk(s)' : Parked(s, j, Lost)'
      BY <1>4, <1>6, <2>1
  <2> HIDE DEF n, tmp
  <2> QED
      BY <1>2, <1>8, <2>1, <2>2, <2>3, <2>4, <2>5 DEF Own, SpillInv, SpillTypes
<1>11. ASSUME CanHold(s, k, n, removed),
              \E w \in {None, tmp} : files' = [FilesAfter(s, k, removed) EXCEPT ![Temp(k)] = w],
              UNCHANGED <<pc, job>>
       PROVE Own(s, Lost)
  <2>1. files' \in [Names -> FileRecords]
        /\ \A j \in Keys : files'[path_for(j)] = FilesAfter(s, k, removed)[path_for(j)]
      BY <1>3, <1>7, <1>8, <1>11
  <2>2. \A j \in OnDisk(s)' : Parked(s, j, Lost)'
      BY <1>4, <1>6, <2>1
  <2> QED
      BY <1>2, <1>5, <1>8, <1>11, <2>1, <2>2 DEF Own, SpillInv, SpillTypes
<1>12. Own(s, Lost)
    BY <1>1, <1>9, <1>10, <1>11
<1> QED
    BY <1>12, OwnStep DEF SpillInv

LEMMA TakeKeeps ==
    ASSUME NEW Lost, SpillInv(Lost), Exclusive, NEW s \in Stores, NEW k \in Keys, take(s, k)
    PROVE  SpillInv(Lost)'
<1>1. drop_key(s, k) /\ pc[s] = "up" /\ UNCHANGED <<pc, lock, disk_budget, job>>
    BY DEF take
<1> QED
    BY <1>1, DropStep DEF lock

LEMMA EvictKeeps ==
    ASSUME NEW Lost, SpillInv(Lost), Exclusive, NEW s \in Stores, evict_lru_disk(s)
    PROVE  SpillInv(Lost)'
<1>1. PICK k : drop_key(s, k)
    BY DEF evict_lru_disk
<1>2. pc[s] = "evict" /\ s \in locked /\ UNCHANGED <<pc, locked, disk_budget, job>>
    BY DEF evict_lru_disk, lock, SpillInv, SpillTypes
<1> HIDE DEF SpillInv, SpillTypes, Labels
<1> QED
    BY <1>1, <1>2, DropStep

LEMMA GiveUpKeeps ==
    ASSUME NEW Lost, SpillInv(Lost), Exclusive, NEW s \in Stores, put_gives_up(s)
    PROVE  SpillInv(Lost)'
<1>1. pc[s] = "evict" /\ s \in locked /\ job[s].key \in Keys /\ OnDisk(s) = {}
      /\ pc' = [pc EXCEPT ![s] = "up"] /\ job' = [job EXCEPT ![s] = None]
      /\ UNCHANGED <<locked, disk_budget, entries>>
    BY Zenon DEF put_gives_up, Goto, lock, accounts, SpillInv, SpillTypes
<1>2. files' \in [Names -> FileRecords]
    BY Zenon DEF put_gives_up, FileRecords, SpillInv, SpillTypes
<1>3. job' \in [Stores -> Jobs] /\ \A t \in Stores : t # s => job'[t] = job[t]
    BY <1>1 DEF Jobs, SpillInv, SpillTypes
<1>4. entries'[s] \in Entries /\ entries' = [entries EXCEPT ![s] = entries'[s]] /\ OnDisk(s)' = {}
    BY <1>1 DEF Entries, OnDisk, InTier, SpillInv, SpillTypes
<1>5. Own(s, Lost)
    BY <1>1, <1>2, <1>3, <1>4 DEF Own, SpillInv, SpillTypes
<1> QED
    BY <1>5, OwnStep DEF SpillInv

LEMMA RenameKeeps ==
    ASSUME NEW Lost, SpillInv(Lost), Exclusive, NEW s \in Stores, put_rename(s)
    PROVE  SpillInv(Lost)'
<1> DEFINE k == job[s].key
           n == job[s].bytes
<1>1. pc[s] = "evict" /\ s \in locked /\ k \in Keys /\ n \in Nat
      /\ files[Temp(k)] \in {None, [by |-> s, bytes |-> n]}
      /\ pc' = [pc EXCEPT ![s] = "up"] /\ job' = [job EXCEPT ![s] = None]
      /\ UNCHANGED <<locked, disk_budget>>
    BY DEF put_rename, Goto, lock, SpillInv, SpillTypes
<1>2. job' \in [Stores -> Jobs] /\ \A t \in Stores : t # s => job'[t] = job[t]
    BY <1>1 DEF Jobs, SpillInv, SpillTypes
<1>3. \A j \in Keys : Temp(j) \in Names /\ path_for(j) \in Names /\ path_for(j) # Temp(k)
                       /\ (j # k => path_for(j) # path_for(k))
    BY DEF Names, Temp, path_for
<1>4. \A j \in OnDisk(s) : Parked(s, j, Lost)
    BY <1>1 DEF SpillInv
<1>5. ASSUME files[Temp(k)] # None,
             files' = [files EXCEPT ![path_for(k)] = files[Temp(k)], ![Temp(k)] = None],
             entries' = [entries EXCEPT ![s][k] = [tier |-> "disk", bytes |-> n]]
      PROVE Own(s, Lost)
  <2>1. entries' = [entries EXCEPT ![s] = entries'[s]] /\ entries'[s] \in Entries
        /\ entries'[s] = [entries[s] EXCEPT ![k] = [tier |-> "disk", bytes |-> n]]
      BY <1>1, <1>5 DEF Entries, SpillInv, SpillTypes
  <2>2. files' \in [Names -> FileRecords]
        /\ \A j \in Keys : files'[path_for(j)] = IF j = k THEN files[Temp(k)] ELSE files[path_for(j)]
      BY <1>1, <1>3, <1>5 DEF FileRecords, SpillInv, SpillTypes
  <2>3. ASSUME NEW j \in OnDisk(s)' PROVE Parked(s, j, Lost)'
    <3>1. CASE j = k
      <4>1. files'[path_for(k)] = [by |-> s, bytes |-> n] /\ entries'[s][k].bytes = n
          BY ZenonT(30), <1>1, <1>5, <2>1, <2>2 DEF SpillInv, SpillTypes
      <4> HIDE DEF k, n
      <4> QED
          BY <3>1, <4>1 DEF Parked, Readable
    <3>2. CASE j # k
      <4>1. j \in Keys /\ entries'[s][j] = entries[s][j]
          BY <2>1, <2>3, <3>2 DEF OnDisk, InTier
      <4>2. j \in OnDisk(s)
          BY <2>3, <4>1 DEF OnDisk, InTier
      <4>3. Parked(s, j, Lost) /\ files'[path_for(j)] = files[path_for(j)]
          BY <1>4, <2>2, <3>2, <4>1, <4>2
      <4> QED
          BY <4>1, <4>3, ParkedSame
    <3> QED
        BY <3>1, <3>2
  <2> HIDE DEF k, n
  <2> QED
      BY <1>1, <1>2, <2>1, <2>2, <2>3 DEF Own, SpillInv, SpillTypes
<1>6. ASSUME files' \in {files, [files EXCEPT ![Temp(k)] = None]}, UNCHANGED entries
      PROVE Own(s, Lost)
  <2>1. entries' = [entries EXCEPT ![s] = entries'[s]] /\ entries'[s] \in Entries
        /\ entries'[s] = entries[s] /\ OnDisk(s)' = OnDisk(s)
      BY <1>6 DEF Entries, OnDisk, InTier, SpillInv, SpillTypes
  <2>2. files' \in [Names -> FileRecords] /\ \A j \in Keys : files'[path_for(j)] = files[path_for(j)]
      BY <1>1, <1>3, <1>6 DEF FileRecords, SpillInv, SpillTypes
  <2>3. ASSUME NEW j \in OnDisk(s)' PROVE Parked(s, j, Lost)'
    <3>1. j \in Keys /\ Parked(s, j, Lost)
        BY <1>4, <2>1, <2>3 DEF OnDisk
    <3> QED
        BY <2>1, <2>2, <3>1, ParkedSame
  <2> HIDE DEF k, n
  <2> QED
      BY <1>1, <1>2, <2>1, <2>2, <2>3 DEF Own, SpillInv, SpillTypes
<1>7. Own(s, Lost)
    BY <1>5, <1>6 DEF put_rename
<1> QED
    BY <1>7, OwnStep DEF SpillInv

LEMMA DropSpillsKeeps ==
    ASSUME NEW Lost, SpillInv(Lost), Exclusive, NEW s \in locked, drop_spills(s)
    PROVE  SpillInv(Lost)'
<1>1. PICK left \in SUBSET Names : files' = [f \in Names |-> IF f \in left THEN files[f] ELSE None]
    BY DEF drop_spills, remove_spill_files
<1>2. s \in Stores /\ pc[s] = "up" /\ pc' = [pc EXCEPT ![s] = "unlock"]
      /\ UNCHANGED <<locked, disk_budget>>
      /\ entries' = [entries EXCEPT ![s] = [k \in Keys |-> None]]
      /\ job' = [job EXCEPT ![s] = None]
    BY DEF drop_spills, Goto, Freed, lock, SpillInv, SpillTypes
<1>3. \A t \in Stores : OnDisk(t)' = {}
    BY <1>2, OthersHaveNone DEF OnDisk, InTier, SpillInv, SpillTypes
<1>4. \A t \in Stores : pc'[t] # "evict"
    BY <1>2 DEF Exclusive, SpillInv, SpillTypes
<1>5. SpillTypes'
    BY <1>1, <1>2 DEF Jobs, SpillInv, SpillTypes, Labels
<1> QED
    BY <1>2, <1>3, <1>4, <1>5 DEF SpillInv, SpillTypes

\* The cleanup of a store without the lock costs the others at most what they
\* have on disk.
LEMMA SweepKeeps ==
    ASSUME SpillInv(Stores \X Keys), NEW s \in Stores \ locked, clean(s) \/ drop_spills(s)
    PROVE  SpillInv(Stores \X Keys)'
<1> DEFINE Lost == Stores \X Keys
<1>1. \A f \in Names : files'[f] = files[f] \/ files'[f] = None
    BY DEF clean, drop_spills, remove_spill_files
<1>2. files' \in [Names -> [by : Stores, bytes : Nat] \cup {None}]
    BY DEF clean, drop_spills, remove_spill_files, SpillInv, SpillTypes
<1>3. PICK l \in {"up", "unlock"} : pc' = [pc EXCEPT ![s] = l]
    BY DEF clean, drop_spills, Goto
<1>4. locked' = locked /\ pc[s] \in {"clean", "up"} /\ OnDisk(s) = {} /\ disk_budget[s] = 0
    BY DEF clean, drop_spills, lock, SpillInv
<1>5. disk_budget' = disk_budget
  <2>1. CASE clean(s)
    <3>1. PICK private : disk_budget' =
              [disk_budget EXCEPT ![s] = IF private /\ s \in locked THEN DiskBudget ELSE 0]
        BY <2>1 DEF clean
    <3> QED
        BY <1>4, <3>1 DEF SpillInv, SpillTypes
  <2>2. CASE drop_spills(s)
      BY <2>2 DEF drop_spills, Freed
  <2> QED
      BY <2>1, <2>2
<1>6. /\ entries' = entries \/ entries' = [entries EXCEPT ![s] = [k \in Keys |-> None]]
      /\ job' = job \/ job' = [job EXCEPT ![s] = None]
    BY DEF clean, drop_spills, Freed
<1>7. OnDisk(s)' = {}
    BY <1>4, <1>6 DEF OnDisk, InTier, SpillInv, SpillTypes
<1>8. \A t \in Stores \ {s} : /\ pc'[t] = pc[t] /\ entries'[t] = entries[t] /\ job'[t] = job[t]
                              /\ OnDisk(t)' = OnDisk(t)
    BY <1>3, <1>6 DEF OnDisk, InTier, SpillInv, SpillTypes
<1>9. SpillTypes'
  <2>1. pc' \in [Stores -> Labels]
      BY <1>3 DEF SpillInv, SpillTypes, Labels
  <2>2. entries' \in [Stores -> [Keys -> [tier : {"host", "disk"}, bytes : Nat] \cup {None}]]
      BY <1>6 DEF SpillInv, SpillTypes
  <2>3. job' \in [Stores -> Jobs]
      BY <1>6 DEF SpillInv, SpillTypes, Jobs
  <2>4. locked' \subseteq Stores /\ disk_budget' \in [Stores -> Nat]
      BY <1>4, <1>5 DEF SpillInv, SpillTypes
  <2> QED
      BY <1>2, <2>1, <2>2, <2>3, <2>4 DEF SpillTypes
<1>10. ASSUME NEW t \in Stores, NEW k \in OnDisk(t)' PROVE Parked(t, k, Lost)'
  <2>1. t # s /\ k \in OnDisk(t) /\ k \in Keys /\ entries'[t] = entries[t] /\ path_for(k) \in Names
      BY <1>7, <1>8 DEF OnDisk, path_for, Names
  <2>2. Parked(t, k, Lost)
      BY <2>1 DEF SpillInv
  <2>3. <<t, k>> \in Lost
      BY <2>1
  <2> HIDE DEF Lost
  <2>4. CASE files'[path_for(k)] = files[path_for(k)]
      BY <2>1, <2>2, <2>4, ParkedSame
  <2>5. CASE files'[path_for(k)] = None
      BY <2>3, <2>5 DEF Parked
  <2> QED
      BY <1>1, <2>1, <2>4, <2>5
<1>11. ASSUME NEW t \in Stores, pc'[t] = "evict"
       PROVE /\ t \in locked' /\ job'[t].key \in Keys /\ job'[t].bytes \in Nat
             /\ files'[Temp(job'[t].key)] \in {None, [by |-> t, bytes |-> job'[t].bytes]}
  <2>1. t # s /\ pc[t] = "evict" /\ job'[t] = job[t]
      BY <1>3, <1>8, <1>11 DEF SpillInv, SpillTypes
  <2>2. /\ t \in locked /\ job[t].key \in Keys /\ job[t].bytes \in Nat
        /\ files[Temp(job[t].key)] \in {None, [by |-> t, bytes |-> job[t].bytes]}
      BY <2>1 DEF SpillInv
  <2>3. Temp(job[t].key) \in Names
      BY <2>2 DEF Temp, Names
  <2> QED
      BY <1>1, <1>4, <2>1, <2>2, <2>3
<1>12. ASSUME NEW t \in Stores
       PROVE /\ t \in locked' => pc'[t] \in {"clean", "up", "evict", "unlock"}
             /\ t \notin locked' /\ pc'[t] \notin {"unlink", "rmdir", "gone"} => disk_budget'[t] = 0
             /\ t \notin locked' \/ pc'[t] \notin {"up", "evict"} => OnDisk(t)' = {}
    BY <1>4, <1>5, <1>7, <1>8 DEF SpillInv
<1> QED
    BY <1>9, <1>10, <1>11, <1>12 DEF SpillInv, SpillTypes

LEMMA DropKeeps ==
    ASSUME NEW Lost, SpillInv(Lost), Exclusive, NEW s \in Stores, drop_lock(s) \/ drop_unlink(s) \/ drop_rmdir(s)
    PROVE  SpillInv(Lost)'
<1>1. UNCHANGED <<files, disk_budget, entries, job>>
    BY DEF drop_lock, drop_unlink, drop_rmdir, fs, accounts
<1>2. \A t \in Stores : OnDisk(t)' = OnDisk(t) /\ \A k \in OnDisk(t)' : Parked(t, k, Lost)'
    BY <1>1, ParkedUnchanged
<1>3. /\ pc[s] \in {"unlock", "unlink", "rmdir"} /\ locked' = locked \ {s}
      /\ \E l \in {"unlink", "rmdir", "gone"} : pc' = [pc EXCEPT ![s] = l]
    BY DEF drop_lock, drop_unlink, drop_rmdir, Goto, lock, SpillInv, SpillTypes
<1>5. SpillTypes'
    BY <1>1, <1>3 DEF SpillInv, SpillTypes, Labels
<1>6. pc'[s] \in {"unlink", "rmdir", "gone"} /\ \A t \in Stores \ {s} : pc'[t] = pc[t]
    BY <1>3 DEF SpillInv, SpillTypes
<1>7. /\ \A t \in Stores : pc'[t] = "evict" => t \in locked'
      /\ \A t \in locked' : pc'[t] \in {"clean", "up", "evict", "unlock"}
    BY <1>3, <1>6 DEF SpillInv, SpillTypes
<1>8. /\ \A t \in Stores : t \notin locked' /\ pc'[t] \notin {"unlink", "rmdir", "gone"} =>
            disk_budget'[t] = 0
      /\ \A t \in Stores : t \notin locked' \/ pc'[t] \notin {"up", "evict"} => OnDisk(t)' = {}
    BY <1>1, <1>2, <1>3, <1>6 DEF SpillInv
<1>9. \A t \in Stores : pc'[t] = "evict" =>
          /\ job'[t].key \in Keys /\ job'[t].bytes \in Nat
          /\ files'[Temp(job'[t].key)] \in {None, [by |-> t, bytes |-> job'[t].bytes]}
    BY <1>1, <1>6 DEF SpillInv
<1> QED
    BY Zenon, <1>2, <1>5, <1>7, <1>8, <1>9 DEF SpillInv

LEMMA KillKeeps ==
    ASSUME NEW Lost, SpillInv(Lost), Exclusive, NEW s \in Stores, kill(s)
    PROVE  SpillInv(Lost)'
<1>1. UNCHANGED <<files, disk_budget>> /\ locked' = locked \ {s} /\ pc' = [pc EXCEPT ![s] = "gone"]
      /\ entries' = [entries EXCEPT ![s] = [k \in Keys |-> None]]
      /\ job' = [job EXCEPT ![s] = None]
    BY DEF kill, Goto, fs, Freed
<1>2. OnDisk(s)' = {} /\ \A t \in Stores : t # s => OnDisk(t)' = OnDisk(t)
    BY <1>1 DEF OnDisk, InTier, SpillInv, SpillTypes
<1>3. \A t \in Stores : \A k \in OnDisk(t)' : Parked(t, k, Lost)'
  <2>1. \A t \in Stores : t # s => entries'[t] = entries[t]
      BY <1>1 DEF SpillInv, SpillTypes
  <2> QED
      BY <1>1, <1>2, <2>1, ParkedUnchanged
<1>4. SpillTypes'
    BY <1>1 DEF Jobs, SpillInv, SpillTypes, Labels
<1> QED
    BY <1>1, <1>2, <1>3, <1>4 DEF SpillInv, SpillTypes

LEMMA SpillStep ==
    ASSUME NEW Lost, SpillInv(Lost), Exclusive, [Next]_vars,
           \A s \in Stores \ locked : ~clean(s) /\ ~drop_spills(s)
    PROVE  SpillInv(Lost)'
<1>1. CASE UNCHANGED vars
    BY <1>1 DEF vars, fs, lock, accounts, OnDisk, InTier, Parked, Readable, SpillInv, SpillTypes
<1>2. ASSUME NEW s \in Stores, clean(s) \/ drop_spills(s) PROVE SpillInv(Lost)'
  <2>1. s \in locked
      BY <1>2
  <2> QED
      BY <1>2, <2>1, CleanKeeps, DropSpillsKeeps
<1> QED
    BY <1>1, <1>2, StatKeeps, PrepareKeeps, OpenKeeps, DeniedKeeps, TryLockKeeps, PutHostKeeps, PutDiskKeeps, TakeKeeps, EvictKeeps, GiveUpKeeps, RenameKeeps, DropKeeps, KillKeeps DEF Next

\* Whatever the stores do, the file of a parked snapshot is whole or gone.
LEMMA AnySpillStep == SpillInv(Stores \X Keys) /\ Exclusive /\ [Next]_vars => SpillInv(Stores \X Keys)'
<1> SUFFICES ASSUME SpillInv(Stores \X Keys), Exclusive, [Next]_vars PROVE SpillInv(Stores \X Keys)'
    OBVIOUS
<1>1. CASE \E s \in Stores \ locked : clean(s) \/ drop_spills(s)
    BY <1>1, SweepKeeps
<1>2. CASE \A s \in Stores \ locked : ~clean(s) /\ ~drop_spills(s)
    BY <1>2, SpillStep
<1> QED
    BY <1>1, <1>2

\* Only a cleanup without the lock makes a snapshot unreadable.
LEMMA KeptStep ==
    ASSUME SpillInv(Stores \X Keys), Exclusive, [Next]_vars, NEW s \in Stores, NEW k \in Keys,
           (k \in OnDisk(s) /\ ~Readable(s, k))', \A t \in Stores \ locked : ~Cleans(t)
    PROVE  k \in OnDisk(s) /\ ~Readable(s, k)
<1>1. PICK Lost : Lost = {p \in Stores \X Keys : p[2] \in OnDisk(p[1]) /\ ~Readable(p[1], p[2])}
    OBVIOUS
<1>2. SpillInv(Lost)
  <2>1. ASSUME NEW t \in Stores, NEW j \in OnDisk(t) PROVE Parked(t, j, Lost)
    <3>1. Parked(t, j, Stores \X Keys) /\ j \in Keys
        BY DEF SpillInv, OnDisk
    <3>2. CASE Readable(t, j)
        BY <3>2 DEF Parked
    <3>3. CASE ~Readable(t, j)
      <4>1. <<t, j>> \in Lost
          BY <1>1, <3>1, <3>3
      <4> QED
          BY <3>1, <3>3, <4>1 DEF Parked
    <3> QED
        BY <3>2, <3>3
  <2> QED
      BY <2>1 DEF SpillInv
<1>3. \A t \in Stores \ locked : ~clean(t) /\ ~drop_spills(t)
    BY DEF clean, drop_spills, Goto, Cleans, SpillInv, SpillTypes
<1>4. SpillInv(Lost)'
    BY <1>2, <1>3, SpillStep
<1>5. Parked(s, k, Lost)'
    BY <1>4 DEF SpillInv
<1>6. <<s, k>> \in Lost
    BY <1>5 DEF Parked
<1> QED
    BY <1>1, <1>6

\* A snapshot that was parked on disk stays there, whole and one's own, as long
\* as the lock does what it is for: no start, end, kill, eviction or refused
\* file operation costs it, but for new and Drop of a store without the lock.
THEOREM ParkedStaysReadable == Spec /\ []Exclusive => SpillsKept
<1>1. Init => SpillInv(Stores \X Keys)
    BY SpillInit
<1>2. SpillInv(Stores \X Keys) /\ Exclusive /\ [Next]_vars =>
        [\A s \in Stores, k \in Keys :
            (k \in OnDisk(s) /\ ~Readable(s, k))' =>
                \/ k \in OnDisk(s) /\ ~Readable(s, k)
                \/ \E t \in Stores \ locked : Cleans(t)]_vars
    BY KeptStep
<1> QED
    BY <1>1, <1>2, AnySpillStep, PTL DEF Spec, SpillsKept

\* Both together: stores that come and go without unlinking the lock file under
\* one another keep each other's snapshots, and a snapshot stays readable for
\* good where no store is denied the lock file.
THEOREM KeptUnlessUnlinked ==
    Spec /\ UnlinkedAlone => SpillsKept /\ ("lock" \notin Faults => []SpillsReadable)
<1>1. LockInv => Exclusive
    BY DEF LockInv
<1>2. Spec /\ UnlinkedAlone => SpillsKept
    BY <1>1, LockKept, ParkedStaysReadable, PTL
<1>3. ASSUME "lock" \notin Faults PROVE Spec /\ UnlinkedAlone => []SpillsReadable
  <2>1. SpillInv({}) /\ LockInv /\ [Next]_vars => SpillInv({})'
    <3> SUFFICES ASSUME SpillInv({}), LockInv, [Next]_vars PROVE SpillInv({})'
        OBVIOUS
    <3>1. \A s \in Stores \ locked : ~clean(s) /\ ~drop_spills(s)
        BY <1>3 DEF LockInv, clean, drop_spills
    <3> QED
        BY <1>1, <3>1, SpillStep
  <2>2. SpillInv({}) => SpillsReadable
      BY DEF SpillInv, Parked, SpillsReadable, Using
  <2>3. Init => SpillInv({})
      BY SpillInit
  <2> QED
      BY <2>1, <2>2, <2>3, LockKept, PTL DEF Spec
<1> QED
    BY <1>2, <1>3

-----------------------------------------------------------------------------
(***************************************************************************)
(* The budgets                                                             *)
(***************************************************************************)
\* A put under way has dropped the snapshot it replaces, so what it parks is
\* charged once, and a store's host charge is what its host snapshots hold.
HostInv ==
    /\ pc \in [Stores -> Labels]
    /\ job \in [Stores -> Jobs]
    /\ entries \in [Stores -> Entries]
    /\ host_used \in [Stores -> 0 .. HostBudget]
    /\ \A s \in Stores : pc[s] = "evict" =>
          job[s] \in [key : Keys, bytes : Nat] /\ entries[s][job[s].key] = None
    /\ \A s \in Stores : host_used[s] = Total(HostBytes(s))

\* No addend is above its total.
LEMMA TotalCovers ==
    ASSUME NEW K, IsFiniteSet(K), NEW g \in [K -> Nat], NEW k \in K
    PROVE  Total(g) \in Nat /\ g[k] <= Total(g)
<1> DEFINE h == [g EXCEPT ![k] = 0]
<1>1. h \in [K -> Nat] /\ h[k] = 0 /\ g[k] \in Nat /\ \A j \in K \ {k} : h[j] = g[j]
    OBVIOUS
<1> HIDE DEF h
<1>2. Total(h) \in Nat /\ Total(g) \in Nat /\ Total(h) + g[k] = Total(g) + h[k]
    BY <1>1, TotalUpdate
<1> QED
    BY <1>1, <1>2

LEMMA HostBytesType ==
    ASSUME NEW s \in Stores, entries[s] \in Entries
    PROVE  HostBytes(s) \in [Keys -> Nat]
  BY DEF HostBytes, InTier, Entries

\* The host tier after an entry is replaced: the old one's bytes are given
\* back exactly, the saturating subtraction never saturates.
LEMMA HostReplaced ==
    ASSUME HostInv, NEW s \in Stores, NEW k \in Keys, entries'[s] \in Entries,
           \A j \in Keys \ {k} : entries'[s][j] = entries[s][j]
    PROVE  /\ HostAfter(s, k) \in 0 .. HostBudget
           /\ Total(HostBytes(s)') = HostAfter(s, k) + HostBytes(s)'[k]
<1> USE StoreAssumption
<1>1. PICK g \in [Keys -> Nat] : g = HostBytes(s)
    BY HostBytesType DEF HostInv
<1>2. PICK h \in [Keys -> Nat] : h = HostBytes(s)'
    BY Zenon DEF HostBytes, InTier, Entries
<1>3. \A j \in Keys \ {k} : h[j] = g[j]
    BY <1>1, <1>2 DEF HostBytes, InTier
<1>4. Total(h) \in Nat /\ Total(g) \in Nat /\ Total(h) + g[k] = Total(g) + h[k]
    BY <1>3, TotalUpdate
<1>5. g[k] <= Total(g) /\ g[k] \in Nat /\ h[k] \in Nat
    BY TotalCovers
<1>6. host_used[s] = Total(g) /\ host_used[s] \in 0 .. HostBudget
    BY <1>1 DEF HostInv
<1>7. HostAfter(s, k) = host_used[s] - g[k]
  <2>1. CASE InTier(s, k, "host")
    <3>1. g[k] = entries[s][k].bytes
        BY <1>1, <2>1 DEF HostBytes
    <3> QED
        BY <1>5, <1>6, <2>1, <3>1 DEF HostAfter, Monus
  <2>2. CASE ~InTier(s, k, "host")
    <3>1. g[k] = 0
        BY <1>1, <2>2 DEF HostBytes
    <3> QED
        BY <1>6, <2>2, <3>1 DEF HostAfter
  <2> QED
      BY <2>1, <2>2
<1> QED
    BY <1>2, <1>4, <1>5, <1>6, <1>7

\* A step that changes the snapshots and the host charge of one store.
LEMMA HostStepOf ==
    ASSUME HostInv, NEW s \in Stores, pc' \in [Stores -> Labels], job' \in [Stores -> Jobs],
           \A t \in Stores \ {s} : pc'[t] = pc[t] /\ job'[t] = job[t],
           NEW e \in Entries, entries' = [entries EXCEPT ![s] = e],
           NEW n \in 0 .. HostBudget, host_used' = [host_used EXCEPT ![s] = n],
           n = Total(HostBytes(s)'),
           pc'[s] = "evict" => job'[s] \in [key : Keys, bytes : Nat] /\ e[job'[s].key] = None
    PROVE  HostInv'
<1> USE DEF HostInv
<1>1. entries' \in [Stores -> Entries] /\ host_used' \in [Stores -> 0 .. HostBudget]
    OBVIOUS
<1>2. entries'[s] = e /\ host_used'[s] = n
    OBVIOUS
<1>3. \A t \in Stores \ {s} : entries'[t] = entries[t] /\ host_used'[t] = host_used[t]
    OBVIOUS
<1>4. ASSUME NEW t \in Stores \ {s} PROVE host_used'[t] = Total(HostBytes(t)')
  <2>1. HostBytes(t)' = HostBytes(t)
      BY <1>3 DEF HostBytes, InTier
  <2> QED
      BY <1>3, <2>1
<1>5. \A t \in Stores : host_used'[t] = Total(HostBytes(t)')
    BY <1>2, <1>4
<1>6. ASSUME NEW t \in Stores, pc'[t] = "evict"
      PROVE  job'[t] \in [key : Keys, bytes : Nat] /\ entries'[t][job'[t].key] = None
    BY <1>2, <1>3, <1>6
<1> QED
    BY <1>1, <1>5, <1>6

\* A step that leaves snapshots, charges and puts alone.
LEMMA HostSame ==
    ASSUME HostInv, UNCHANGED <<entries, host_used, job>>, pc' \in [Stores -> Labels],
           \A t \in Stores : pc'[t] = "evict" => pc[t] = "evict"
    PROVE  HostInv'
<1>1. \A t \in Stores : HostBytes(t)' = HostBytes(t)
    BY DEF HostBytes, InTier
<1> QED
    BY <1>1 DEF HostInv

\* drop_key takes the key's bytes off the tier they are charged to.
LEMMA HostDropped ==
    ASSUME HostInv, NEW s \in Stores, NEW k \in Keys, NEW e, e = EntriesAfter(s, k),
           entries' = [entries EXCEPT ![s] = e]
    PROVE  /\ e \in Entries /\ e[k] = None /\ \A j \in Keys : entries[s][j] = None => e[j] = None
           /\ HostAfter(s, k) \in 0 .. HostBudget
           /\ Total(HostBytes(s)') = HostAfter(s, k)
<1>1. /\ e \in Entries /\ e[k] = None
      /\ \A j \in Keys : entries[s][j] = None => e[j] = None
      /\ \A j \in Keys \ {k} : e[j] = entries[s][j]
    BY DEF HostInv, EntriesAfter, Entries
<1>2. entries'[s] = e
    BY DEF HostInv
<1>3. /\ HostAfter(s, k) \in 0 .. HostBudget
      /\ Total(HostBytes(s)') = HostAfter(s, k) + HostBytes(s)'[k]
    BY <1>1, <1>2, HostReplaced
<1>4. HostBytes(s)'[k] = 0
    BY <1>1, <1>2 DEF HostBytes, InTier
<1> QED
    BY <1>1, <1>3, <1>4

LEMMA HostInit == Init => HostInv
<1> SUFFICES ASSUME Init PROVE HostInv
    OBVIOUS
<1>1. ASSUME NEW s \in Stores PROVE Total(HostBytes(s)) = 0
  <2>1. HostBytes(s) \in [Keys -> Nat] /\ \A k \in Keys : HostBytes(s)[k] = 0
      BY DEF Init, HostBytes, InTier
  <2> QED
      BY <2>1, TotalZero
<1>2. entries \in [Stores -> Entries] /\ job \in [Stores -> Jobs] /\ pc \in [Stores -> Labels]
      /\ \A s \in Stores : pc[s] # "evict"
    BY DEF Init, Entries, Jobs, Labels
<1>3. host_used \in [Stores -> 0 .. HostBudget] /\ \A s \in Stores : host_used[s] = 0
    BY StoreAssumption DEF Init
<1> QED
    BY <1>1, <1>2, <1>3 DEF HostInv

LEMMA PutHostCharges ==
    ASSUME HostInv, NEW s \in Stores, NEW k \in Keys, NEW b \in Sizes, put_host(s, k, b)
    PROVE  HostInv'
<1> DEFINE e == [entries[s] EXCEPT ![k] = [tier |-> "host", bytes |-> b]]
           n == HostAfter(s, k) + b
<1>1. b \in Nat
    BY StoreAssumption
<1>2. [tier |-> "host", bytes |-> b] \in [tier : {"host", "disk"}, bytes : Nat]
    BY <1>1
<1>3. e \in Entries /\ e[k] = [tier |-> "host", bytes |-> b] /\ e[k] # None
      /\ \A j \in Keys \ {k} : e[j] = entries[s][j]
    BY <1>2, StoreAssumption DEF HostInv, Entries
<1>4. entries' = [entries EXCEPT ![s] = e] /\ entries'[s] = e
    BY DEF put_host, HostInv
<1>5. pc[s] = "up" /\ pc' = pc /\ job' = job
    BY DEF put_host
<1>6. host_used' = [host_used EXCEPT ![s] = n]
    BY DEF put_host
<1>7. n <= HostBudget
    BY DEF put_host, FitsHost
<1> HIDE DEF e, n
<1>8. /\ HostAfter(s, k) \in 0 .. HostBudget
      /\ Total(HostBytes(s)') = HostAfter(s, k) + HostBytes(s)'[k]
    BY <1>3, <1>4, HostReplaced
<1>9. HostBytes(s)'[k] = b
    BY <1>3, <1>4 DEF HostBytes, InTier
<1>10. n \in 0 .. HostBudget /\ n = Total(HostBytes(s)')
    BY <1>1, <1>7, <1>8, <1>9, StoreAssumption DEF n
<1>11. pc' \in [Stores -> Labels] /\ job' \in [Stores -> Jobs] /\ pc'[s] # "evict"
    BY <1>5 DEF HostInv
<1> QED
    BY Zenon, <1>3, <1>4, <1>5, <1>6, <1>10, <1>11, HostStepOf

LEMMA DropCharges ==
    ASSUME HostInv, NEW s \in Stores, NEW k \in Keys, drop_key(s, k), UNCHANGED <<pc, job>>
    PROVE  HostInv'
<1> DEFINE e == EntriesAfter(s, k)
           n == HostAfter(s, k)
<1>1. entries' = [entries EXCEPT ![s] = e] /\ host_used' = [host_used EXCEPT ![s] = n]
    BY DEF drop_key
<1>2. /\ e \in Entries /\ \A j \in Keys : entries[s][j] = None => e[j] = None
      /\ n \in 0 .. HostBudget /\ n = Total(HostBytes(s)')
    BY Zenon, <1>1, HostDropped
<1> HIDE DEF e, n
<1>3. pc' \in [Stores -> Labels] /\ job' \in [Stores -> Jobs]
    BY DEF HostInv
<1>4. pc'[s] = "evict" => job'[s] \in [key : Keys, bytes : Nat] /\ e[job'[s].key] = None
  <2>1. pc[s] = "evict" => job[s] \in [key : Keys, bytes : Nat] /\ entries[s][job[s].key] = None
                           /\ job[s].key \in Keys
      BY DEF HostInv
  <2> QED
      BY <1>2, <2>1
<1> QED
    BY Zenon, <1>1, <1>2, <1>3, <1>4, HostStepOf

LEMMA PutDiskCharges ==
    ASSUME HostInv, NEW s \in Stores, NEW k \in Keys, NEW b \in Sizes, put_disk(s, k, b)
    PROVE  HostInv'
<1> DEFINE e == EntriesAfter(s, k)
           n == HostAfter(s, k)
           j == [key |-> k, bytes |-> b + HEADER]
<1>1. entries' = [entries EXCEPT ![s] = e] /\ host_used' = [host_used EXCEPT ![s] = n]
      /\ pc[s] = "up"
    BY DEF put_disk
<1>2. /\ e \in Entries /\ e[k] = None
      /\ n \in 0 .. HostBudget /\ n = Total(HostBytes(s)')
    BY Zenon, <1>1, HostDropped
<1>3. \/ UNCHANGED <<pc, job>>
      \/ job' = [job EXCEPT ![s] = j] /\ pc' = [pc EXCEPT ![s] = "evict"]
    BY DEF put_disk, Goto
<1>4. j \in [key : Keys, bytes : Nat] /\ j.key = k
    BY StoreAssumption
<1> HIDE DEF e, n, j
<1>5. /\ pc' \in [Stores -> Labels] /\ job' \in [Stores -> Jobs]
      /\ \A t \in Stores \ {s} : pc'[t] = pc[t] /\ job'[t] = job[t]
      /\ pc'[s] = "evict" => job'[s] = j
    BY <1>1, <1>3, <1>4 DEF HostInv, Labels, Jobs
<1> QED
    BY Zenon, <1>1, <1>2, <1>4, <1>5, HostStepOf

LEMMA RenameCharges ==
    ASSUME HostInv, NEW s \in Stores, put_rename(s)
    PROVE  HostInv'
<1> DEFINE k == job[s].key
           r == [tier |-> "disk", bytes |-> job[s].bytes]
           e == [entries[s] EXCEPT ![k] = r]
<1>1. /\ pc[s] = "evict" /\ pc' = [pc EXCEPT ![s] = "up"] /\ job' = [job EXCEPT ![s] = None]
      /\ host_used' = host_used
      /\ entries' = entries \/ entries' = [entries EXCEPT ![s] = e]
    BY DEF put_rename, Goto, HostInv
<1>2. k \in Keys /\ job[s].bytes \in Nat /\ entries[s][k] = None
    BY <1>1 DEF HostInv
<1>3. r \in [tier : {"host", "disk"}, bytes : Nat] /\ r.tier = "disk"
    BY <1>2
<1> HIDE DEF k, r
<1>4. e \in Entries /\ e[k] = r /\ \A i \in Keys \ {k} : e[i] = entries[s][i]
    BY <1>2, <1>3 DEF HostInv, Entries
<1> HIDE DEF e
<1>5. /\ pc' \in [Stores -> Labels] /\ job' \in [Stores -> Jobs] /\ pc'[s] = "up"
      /\ \A t \in Stores \ {s} : pc'[t] = pc[t] /\ job'[t] = job[t]
    BY <1>1 DEF HostInv, Labels, Jobs
<1>6. PICK n \in 0 .. HostBudget : n = host_used[s] /\ host_used' = [host_used EXCEPT ![s] = n]
    BY <1>1 DEF HostInv
<1>7. PICK d \in Entries : entries' = [entries EXCEPT ![s] = d] /\ (d = entries[s] \/ d = e)
    BY <1>1, <1>4 DEF HostInv
<1>8. entries'[s] = d
    BY <1>7 DEF HostInv
<1>9. HostBytes(s)' = HostBytes(s)
    BY <1>2, <1>3, <1>4, <1>7, <1>8 DEF HostBytes, InTier
<1>10. n = Total(HostBytes(s)')
    BY <1>6, <1>9 DEF HostInv
<1> QED
    BY Zenon, <1>5, <1>6, <1>7, <1>10, HostStepOf

\* A store whose memory is gone is charged nothing.
LEMMA FreedCharges ==
    ASSUME HostInv, NEW s \in Stores, Freed(s), NEW l \in Labels, l # "evict",
           pc' = [pc EXCEPT ![s] = l]
    PROVE  HostInv'
<1> DEFINE e == [k \in Keys |-> None]
<1>1. entries' = [entries EXCEPT ![s] = e] /\ host_used' = [host_used EXCEPT ![s] = 0]
      /\ job' = [job EXCEPT ![s] = None]
    BY DEF Freed
<1>2. e \in Entries /\ \A k \in Keys : e[k] = None
    BY DEF Entries
<1> HIDE DEF e
<1>3. entries'[s] = e
    BY <1>1 DEF HostInv
<1>4. HostBytes(s)' \in [Keys -> Nat] /\ \A k \in Keys : HostBytes(s)'[k] = 0
    BY <1>2, <1>3 DEF HostBytes, InTier
<1>5. Total(HostBytes(s)') = 0
    BY <1>4, TotalZero
<1>6. /\ pc' \in [Stores -> Labels] /\ job' \in [Stores -> Jobs] /\ pc'[s] = l
      /\ \A t \in Stores \ {s} : pc'[t] = pc[t] /\ job'[t] = job[t]
    BY <1>1 DEF HostInv, Jobs
<1>7. 0 \in 0 .. HostBudget
    BY StoreAssumption
<1> QED
    BY Zenon, <1>1, <1>2, <1>5, <1>6, <1>7, HostStepOf

LEMMA HostStep == HostInv /\ [Next]_vars => HostInv'
<1> SUFFICES ASSUME HostInv, [Next]_vars PROVE HostInv'
    OBVIOUS
<1>1. CASE UNCHANGED vars
  <2>1. UNCHANGED <<entries, host_used, job, pc>>
      BY <1>1 DEF vars, accounts
  <2>2. pc' \in [Stores -> Labels]
      BY <2>1 DEF HostInv
  <2> QED
      BY <2>1, <2>2, HostSame
<1>2. ASSUME NEW s \in Stores,
             \/ stat_dir(s) \/ prepare_dir(s) \/ lock_open(s) \/ lock_denied(s) \/ try_lock(s)
             \/ clean(s) \/ drop_lock(s) \/ drop_unlink(s) \/ drop_rmdir(s)
      PROVE HostInv'
  <2>1. UNCHANGED <<entries, host_used, job>>
      BY <1>2 DEF stat_dir, prepare_dir, lock_open, lock_denied, try_lock, clean, drop_lock,
                  drop_unlink, drop_rmdir, accounts
  <2>2. PICK l \in Labels \ {"evict"} : pc' = [pc EXCEPT ![s] = l]
      BY Zenon, <1>2 DEF stat_dir, prepare_dir, lock_open, lock_denied, try_lock, clean, drop_lock,
                  drop_unlink, drop_rmdir, Goto, Labels
  <2>3. pc' \in [Stores -> Labels] /\ \A t \in Stores : pc'[t] = "evict" => pc[t] = "evict"
      BY <2>2 DEF HostInv
  <2> QED
      BY <2>1, <2>3, HostSame
<1>3. ASSUME NEW s \in Stores, NEW k \in Keys, take(s, k) PROVE HostInv'
    BY <1>3, DropCharges DEF take
<1>4. ASSUME NEW s \in Stores, evict_lru_disk(s) PROVE HostInv'
  <2>1. PICK k \in Keys : drop_key(s, k)
      BY <1>4 DEF evict_lru_disk, OnDisk
  <2> QED
      BY <1>4, <2>1, DropCharges DEF evict_lru_disk
<1>5. ASSUME NEW s \in Stores, put_gives_up(s) PROVE HostInv'
  <2>1. /\ UNCHANGED <<entries, host_used>> /\ job' = [job EXCEPT ![s] = None]
        /\ pc' = [pc EXCEPT ![s] = "up"]
      BY <1>5 DEF put_gives_up, Goto, accounts
  <2>2. \A t \in Stores : HostBytes(t)' = HostBytes(t)
      BY <2>1 DEF HostBytes, InTier
  <2> QED
      BY <2>1, <2>2 DEF HostInv, Jobs, Labels
<1>6. ASSUME NEW s \in Stores, drop_spills(s) \/ kill(s) PROVE HostInv'
  <2>1. Freed(s) /\ \E l \in Labels : l # "evict" /\ pc' = [pc EXCEPT ![s] = l]
      BY <1>6 DEF drop_spills, kill, Goto, Labels
  <2> QED
      BY Zenon, <2>1, FreedCharges
<1> QED
    BY <1>1, <1>2, <1>3, <1>4, <1>5, <1>6, PutHostCharges, PutDiskCharges, RenameCharges DEF Next

LEMMA HostAlways == Spec => []HostInv
  BY HostInit, HostStep, PTL DEF Spec

\* What the directory and the disk charges are made of.
DiskInv ==
    /\ dir \in BOOLEAN
    /\ files \in [Names -> FileRecords]
    /\ disk_budget \in [Stores -> 0 .. DiskBudget]
    /\ disk_used \in [Stores -> 0 .. DiskBudget]

LEMMA DiskInit == Init => DiskInv
<1>1. 0 \in 0 .. DiskBudget
    BY StoreAssumption
<1> QED
    BY Zenon, <1>1 DEF Init, DiskInv, FileRecords

\* A saturating subtraction gives back no more than was charged.
LEMMA DiskDropped ==
    ASSUME HostInv, DiskInv, NEW s \in Stores, NEW k \in Keys, NEW removed
    PROVE  /\ DiskAfter(s, k, removed) \in 0 .. DiskBudget
           /\ DiskAfter(s, k, removed) <= disk_used[s]
           /\ FilesAfter(s, k, removed) \in [Names -> FileRecords]
<1>1. disk_used[s] \in 0 .. DiskBudget /\ DiskBudget \in Nat
    BY StoreAssumption DEF DiskInv
<1>2. FilesAfter(s, k, removed) \in [Names -> FileRecords]
    BY Zenon DEF DiskInv, FilesAfter, FileRecords
<1>3. CASE InTier(s, k, "disk") /\ removed
  <2>1. entries[s][k].bytes \in Nat
      BY <1>3 DEF InTier, HostInv, Entries
  <2>2. DiskAfter(s, k, removed) = Monus(disk_used[s], entries[s][k].bytes)
      BY <1>3 DEF DiskAfter
  <2>3. Monus(disk_used[s], entries[s][k].bytes) \in 0 .. disk_used[s]
      BY <1>1, <2>1 DEF Monus
  <2> QED
      BY <1>1, <1>2, <2>2, <2>3
<1>4. CASE ~(InTier(s, k, "disk") /\ removed)
    BY <1>1, <1>2, <1>4 DEF DiskAfter
<1> QED
    BY <1>3, <1>4

LEMMA DiskStep == HostInv /\ DiskInv /\ [Next]_vars => DiskInv'
<1> SUFFICES ASSUME HostInv, DiskInv, [Next]_vars PROVE DiskInv'
    OBVIOUS
<1>1. CASE UNCHANGED vars
    BY <1>1 DEF vars, fs, accounts, DiskInv
<1>2. ASSUME NEW s \in Stores,
             \/ stat_dir(s) \/ prepare_dir(s) \/ lock_open(s) \/ lock_denied(s) \/ try_lock(s)
             \/ drop_lock(s) \/ drop_unlink(s) \/ drop_rmdir(s)
      PROVE DiskInv'
  <2>1. UNCHANGED <<files, disk_budget, disk_used>> /\ dir' \in BOOLEAN
    <3>1. UNCHANGED <<files, disk_budget, disk_used>>
        BY <1>2 DEF stat_dir, prepare_dir, lock_open, lock_denied, try_lock, drop_lock,
                    drop_unlink, drop_rmdir, fs, accounts
    <3>2. \/ dir' = dir \/ dir' = (dir \/ created_dir[s])
          \/ dir' = (dir /\ (~created_dir[s] \/ lock_file # None \/ \E f \in Names : files[f] # None))
        BY Zenon, <1>2 DEF stat_dir, prepare_dir, lock_open, lock_denied, try_lock, drop_lock,
                    drop_unlink, drop_rmdir, fs
    <3> QED
        BY Zenon, <3>1, <3>2 DEF DiskInv
  <2> QED
      BY <2>1 DEF DiskInv
<1>3. ASSUME NEW s \in Stores, clean(s) PROVE DiskInv'
  <2>1. PICK left : files' = [f \in Names |-> IF f \in left THEN files[f] ELSE None]
      BY <1>3 DEF clean, remove_spill_files
  <2>2. PICK n \in 0 .. DiskBudget : disk_budget' = [disk_budget EXCEPT ![s] = n]
    <3>1. PICK private : disk_budget' =
              [disk_budget EXCEPT ![s] = IF private /\ s \in locked THEN DiskBudget ELSE 0]
        BY Zenon, <1>3 DEF clean
    <3>2. (IF private /\ s \in locked THEN DiskBudget ELSE 0) \in 0 .. DiskBudget
        BY StoreAssumption
    <3> QED
        BY Zenon, <3>1, <3>2
  <2>3. UNCHANGED <<dir, disk_used>>
      BY <1>3 DEF clean
  <2>4. files' \in [Names -> FileRecords]
      BY <2>1 DEF DiskInv, FileRecords
  <2> QED
      BY <2>2, <2>3, <2>4 DEF DiskInv
<1>4. ASSUME NEW s \in Stores, NEW k \in Keys, NEW n \in 0 .. DiskBudget,
             disk_used' = [disk_used EXCEPT ![s] = n], UNCHANGED <<dir, disk_budget>>,
             files' \in [Names -> FileRecords]
      PROVE DiskInv'
    BY <1>4 DEF DiskInv
<1>5. ASSUME NEW s \in Stores, NEW k \in Keys, NEW b \in Sizes, put_host(s, k, b) PROVE DiskInv'
  <2>1. PICK removed : disk_used' = [disk_used EXCEPT ![s] = DiskAfter(s, k, removed)]
                       /\ files' = FilesAfter(s, k, removed)
      BY Zenon, <1>5 DEF put_host
  <2>2. UNCHANGED <<dir, disk_budget>>
      BY <1>5 DEF put_host
  <2> QED
      BY Zenon, <1>4, <2>1, <2>2, DiskDropped
<1>6. ASSUME NEW s \in Stores, NEW k \in Keys, drop_key(s, k), UNCHANGED <<dir, disk_budget>>
      PROVE DiskInv'
  <2>1. PICK removed : disk_used' = [disk_used EXCEPT ![s] = DiskAfter(s, k, removed)]
                       /\ files' = FilesAfter(s, k, removed)
      BY Zenon, <1>6 DEF drop_key
  <2> QED
      BY Zenon, <1>4, <1>6, <2>1, DiskDropped
<1>7. ASSUME NEW s \in Stores, NEW k \in Keys, NEW b \in Sizes, put_disk(s, k, b) PROVE DiskInv'
  <2> DEFINE n == b + HEADER
             tmp == [by |-> s, bytes |-> n]
  <2>1. PICK removed \in BOOLEAN :
          /\ disk_used' = [disk_used EXCEPT ![s] = DiskAfter(s, k, removed)]
          /\ \/ files' = FilesAfter(s, k, removed)
             \/ \E w \in {None, tmp} : files' = [FilesAfter(s, k, removed) EXCEPT ![Temp(k)] = w]
      BY <1>7, PutDiskEffect
  <2>2. tmp \in FileRecords /\ None \in FileRecords
      BY StoreAssumption DEF FileRecords
  <2> HIDE DEF n, tmp
  <2>3. files' \in [Names -> FileRecords]
      BY <2>1, <2>2, DiskDropped
  <2>4. UNCHANGED <<dir, disk_budget>>
      BY <1>7 DEF put_disk
  <2> QED
      BY Zenon, <1>4, <2>1, <2>3, <2>4, DiskDropped
<1>8. ASSUME NEW s \in Stores, put_gives_up(s) PROVE DiskInv'
  <2>1. UNCHANGED <<dir, disk_budget, disk_used>>
        /\ (files' = files \/ files' = [files EXCEPT ![Temp(job[s].key)] = None])
      BY <1>8 DEF put_gives_up, accounts
  <2> QED
      BY <2>1 DEF DiskInv, FileRecords
<1>9. ASSUME NEW s \in Stores, put_rename(s) PROVE DiskInv'
  <2> DEFINE k == job[s].key
             n == job[s].bytes
  <2>1. pc[s] = "evict" /\ ~Over(s) /\ UNCHANGED <<dir, disk_budget>>
      BY <1>9 DEF put_rename
  <2>2. k \in Keys /\ n \in Nat
      BY <2>1 DEF HostInv
  <2>3. disk_used[s] + n \in 0 .. DiskBudget
    <3>1. disk_used[s] \in 0 .. DiskBudget /\ disk_budget[s] \in 0 .. DiskBudget /\ DiskBudget \in Nat
        BY StoreAssumption DEF DiskInv
    <3> QED
        BY <2>1, <2>2, <3>1 DEF Over
  <2>4. \/ /\ files' = [files EXCEPT ![path_for(k)] = files[Temp(k)], ![Temp(k)] = None]
           /\ disk_used' = [disk_used EXCEPT ![s] = disk_used[s] + n]
        \/ /\ files' = files \/ files' = [files EXCEPT ![Temp(k)] = None]
           /\ disk_used' = disk_used
      BY <1>9 DEF put_rename, DiskInv
  <2>5. Temp(k) \in Names /\ path_for(k) \in Names
      BY <2>2 DEF Names, Temp, path_for
  <2> HIDE DEF k, n
  <2>6. files' \in [Names -> FileRecords]
    <3>1. files \in [Names -> FileRecords] /\ None \in FileRecords
        BY DEF DiskInv, FileRecords
    <3> QED
        BY <2>4, <2>5, <3>1
  <2>7. disk_used' \in [Stores -> 0 .. DiskBudget]
      BY <2>3, <2>4 DEF DiskInv
  <2> QED
      BY <2>1, <2>6, <2>7 DEF DiskInv
<1>10. ASSUME NEW s \in Stores, drop_spills(s) \/ kill(s) PROVE DiskInv'
  <2>1. UNCHANGED <<dir, disk_budget>> /\ disk_used' = [disk_used EXCEPT ![s] = 0]
      BY <1>10 DEF drop_spills, kill, Freed, fs
  <2>2. files' = files \/ \E left : files' = [f \in Names |-> IF f \in left THEN files[f] ELSE None]
      BY <1>10 DEF drop_spills, kill, remove_spill_files, fs
  <2>3. files' \in [Names -> FileRecords]
      BY <2>2 DEF DiskInv, FileRecords
  <2>4. 0 \in 0 .. DiskBudget
      BY StoreAssumption
  <2> QED
      BY <2>1, <2>3, <2>4 DEF DiskInv
<1>11. ASSUME NEW s \in Stores, NEW k \in Keys, take(s, k) PROVE DiskInv'
    BY <1>6, <1>11 DEF take
<1>12. ASSUME NEW s \in Stores, evict_lru_disk(s) PROVE DiskInv'
    BY Zenon, <1>6, <1>12 DEF evict_lru_disk, OnDisk
<1> QED
    BY <1>1, <1>2, <1>3, <1>5, <1>7, <1>8, <1>9, <1>10, <1>11, <1>12 DEF Next

\* Whoever holds the lock, or is about to ask for it, has the lock file open.
HandleInv ==
    /\ LockTypes
    /\ \A s \in locked : pc[s] \in {"clean", "up", "evict", "unlock"}
    /\ \A s \in Stores : pc[s] = "try_lock" \/ s \in locked => handle[s] # None

LEMMA HandleStep == HandleInv /\ [Next]_vars => HandleInv'
<1> SUFFICES ASSUME HandleInv, [Next]_vars PROVE HandleInv'
    OBVIOUS
<1> USE StoreAssumption DEF HandleInv, LockTypes, Labels
<1>1. CASE UNCHANGED vars
    BY Zenon, <1>1 DEF vars, fs, lock
<1>2. ASSUME NEW s \in Stores, stat_dir(s) \/ prepare_dir(s) PROVE HandleInv'
  <2>1. CASE stat_dir(s)
      BY <2>1 DEF stat_dir, Goto, fs
  <2>2. CASE prepare_dir(s)
      BY <2>2 DEF prepare_dir, Goto, lock
  <2> QED
      BY <1>2, <2>1, <2>2
<1>3. ASSUME NEW s \in Stores, lock_open(s) PROVE HandleInv'
  <2>1. CASE ~dir
      BY <1>3, <2>1 DEF lock_open, Goto
  <2>2. CASE dir
    <3>1. lock_file' \in Inodes /\ pc[s] = "open" /\ pc' = [pc EXCEPT ![s] = "try_lock"]
          /\ handle' = [handle EXCEPT ![s] = lock_file'] /\ locked' = locked
        BY <1>3, <2>2 DEF lock_open, Goto
    <3> QED
        BY <3>1
  <2> QED
      BY <2>1, <2>2
<1>4. ASSUME NEW s \in Stores, lock_denied(s) PROVE HandleInv'
    BY <1>4 DEF lock_denied, Goto, fs, lock
<1>5. ASSUME NEW s \in Stores, try_lock(s) PROVE HandleInv'
  <2>1. CASE Free(handle[s])
      BY <1>5, <2>1 DEF try_lock, Goto, fs
  <2>2. CASE ~Free(handle[s])
      BY <1>5, <2>2 DEF try_lock, Goto, fs
  <2> QED
      BY <2>1, <2>2
<1>6. ASSUME NEW s \in Stores, clean(s) PROVE HandleInv'
    BY <1>6 DEF clean, Goto, lock
<1>7. ASSUME NEW s \in Stores, NEW k \in Keys, NEW b \in Sizes,
             put_host(s, k, b) \/ put_disk(s, k, b)
      PROVE HandleInv'
    BY <1>7 DEF put_host, put_disk, Goto, lock
<1>8. ASSUME NEW s \in Stores, NEW k \in Keys, take(s, k) PROVE HandleInv'
    BY <1>8 DEF take, lock
<1>9. ASSUME NEW s \in Stores, evict_lru_disk(s) \/ put_gives_up(s) \/ put_rename(s)
      PROVE HandleInv'
    BY <1>9 DEF evict_lru_disk, put_gives_up, put_rename, Goto, lock
<1>10. ASSUME NEW s \in Stores, drop_spills(s) \/ drop_unlink(s) \/ drop_rmdir(s)
       PROVE HandleInv'
    BY <1>10 DEF drop_spills, drop_unlink, drop_rmdir, Goto, lock
<1>11. ASSUME NEW s \in Stores, drop_lock(s) \/ kill(s) PROVE HandleInv'
    BY <1>11 DEF drop_lock, kill, Goto, fs
<1> QED
    BY ZenonT(30), <1>1, <1>2, <1>3, <1>4, <1>5, <1>6, <1>7, <1>8, <1>9, <1>10, <1>11 DEF Next

\* Every store stays within both of its budgets at every step of every call,
\* also while several stores share the directory, and a put under way always
\* knows what it is writing.
THEOREM BudgetsAreKept == Spec => []StoreTypeOK
<1>1. Init => HandleInv /\ DiskInv
    BY DiskInit, StoreAssumption DEF Init, HandleInv, LockTypes, Labels
<1>2. HostInv /\ DiskInv /\ HandleInv => StoreTypeOK
  <2> SUFFICES ASSUME HostInv, DiskInv, HandleInv PROVE StoreTypeOK
      OBVIOUS
  <2>1. \A s \in Stores : pc[s] = "evict" => job[s] # None
      BY StoreAssumption DEF HostInv
  <2>2. \A s \in Stores : host_used[s] \in 0 .. HostBudget /\ disk_used[s] \in 0 .. DiskBudget
      BY DEF HostInv, DiskInv
  <2> QED
      BY <2>1, <2>2 DEF StoreTypeOK, DiskInv, HandleInv, LockTypes, FileRecords
<1>3. HostInv /\ DiskInv /\ HandleInv /\ [Next]_vars => DiskInv' /\ HandleInv'
    BY DiskStep, HandleStep
<1> QED
    BY <1>1, <1>2, <1>3, HostAlways, PTL DEF Spec

-----------------------------------------------------------------------------
(***************************************************************************)
(* The charges                                                             *)
(***************************************************************************)
\* What a store must be charged for a key: the snapshot it has on disk, or else
\* the file that it could not remove.
Held(s) == [k \in Keys |-> IF InTier(s, k, "disk") THEN entries[s][k].bytes ELSE FileBytes(s)[k]]

Opened == {s \in Stores : pc[s] \notin {"unlock", "unlink", "rmdir", "gone"}}

\* Until it ends, a store is charged for all of it.  A file somebody else
\* removed stays charged until its entry goes, so that the drop of the entry
\* gives back no other file's bytes.
ChargeInv == \A s \in Opened : disk_used[s] >= Total(Held(s))

LEMMA HeldType ==
    ASSUME HostInv, DiskInv, NEW s \in Stores
    PROVE  FileBytes(s) \in [Keys -> Nat] /\ Held(s) \in [Keys -> Nat]
<1>1. \A k \in Keys : path_for(k) \in Names
    BY DEF path_for, Names
<1>2. FileBytes(s) \in [Keys -> Nat]
    BY <1>1 DEF DiskInv, FileRecords, FileBytes
<1>3. \A k \in Keys : InTier(s, k, "disk") => entries[s][k].bytes \in Nat
    BY DEF HostInv, Entries, InTier
<1> QED
    BY <1>2, <1>3 DEF Held

LEMMA HeldTypeNext ==
    ASSUME HostInv', DiskInv', NEW s \in Stores
    PROVE  FileBytes(s)' \in [Keys -> Nat] /\ Held(s)' \in [Keys -> Nat]
<1>1. \A k \in Keys : path_for(k) \in Names
    BY DEF path_for, Names
<1>2. FileBytes(s)' \in [Keys -> Nat]
    BY <1>1 DEF DiskInv, FileRecords, FileBytes
<1>3. \A k \in Keys : InTier(s, k, "disk")' => entries'[s][k].bytes \in Nat
    BY DEF HostInv, Entries, InTier
<1> QED
    BY <1>2, <1>3 DEF Held

\* A charge that moves by at least what one key's share moves by.
LEMMA ChargeMoves ==
    ASSUME ChargeInv, HostInv, HostInv', DiskInv, DiskInv', NEW s \in Opened, NEW k \in Keys,
           \A j \in Keys \ {k} : Held(s)'[j] <= Held(s)[j],
           disk_used'[s] + Held(s)[k] >= disk_used[s] + Held(s)'[k]
    PROVE  disk_used'[s] >= Total(Held(s)')
<1>1. s \in Stores /\ disk_used[s] \in Nat /\ disk_used'[s] \in Nat
    BY DEF Opened, DiskInv
<1>2. PICK g \in [Keys -> Nat] : g = Held(s)
    BY <1>1, HeldType
<1>3. PICK h \in [Keys -> Nat] : h = Held(s)'
    BY <1>1, HeldTypeNext
<1>4. PICK m \in [Keys -> Nat] : m = [g EXCEPT ![k] = h[k]]
    OBVIOUS
<1>5. m[k] = h[k] /\ \A j \in Keys \ {k} : m[j] = g[j]
    BY <1>4
<1>6. Total(m) \in Nat /\ Total(g) \in Nat /\ Total(m) + g[k] = Total(g) + h[k]
    BY <1>5, TotalUpdate, StoreAssumption
<1>7. \A j \in Keys : h[j] <= m[j]
    BY <1>2, <1>3, <1>5
<1>8. Total(h) \in Nat /\ Total(h) <= Total(m)
    BY <1>7, TotalShrinks, TotalType, StoreAssumption
<1>9. disk_used[s] >= Total(g)
    BY <1>2 DEF ChargeInv
<1>10. disk_used'[s] + g[k] >= disk_used[s] + h[k] /\ g[k] \in Nat /\ h[k] \in Nat
    BY <1>2, <1>3
<1>11. disk_used'[s] >= Total(h)
    BY <1>1, <1>6, <1>8, <1>9, <1>10
<1> QED
    BY <1>3, <1>11

\* A store that a step does not charge less, and whose entries it leaves alone,
\* is covered whatever files disappear or become another store's.
LEMMA ChargeCovers ==
    ASSUME ChargeInv, HostInv, HostInv', DiskInv, DiskInv', NEW s \in Opened,
           disk_used'[s] = disk_used[s], entries'[s] = entries[s],
           \A k \in Keys : \/ files'[path_for(k)] = files[path_for(k)]
                           \/ files'[path_for(k)] = None
                           \/ files'[path_for(k)].by # s
    PROVE  disk_used'[s] >= Total(Held(s)')
<1>1. s \in Stores /\ disk_used[s] \in Nat
    BY DEF Opened, DiskInv
<1>2. PICK g \in [Keys -> Nat] : g = Held(s)
    BY <1>1, HeldType
<1>3. PICK h \in [Keys -> Nat] : h = Held(s)'
    BY <1>1, HeldTypeNext
<1>4. FileBytes(s) \in [Keys -> Nat]
    BY <1>1, HeldType
<1>5. ASSUME NEW k \in Keys PROVE h[k] <= g[k]
  <2>1. InTier(s, k, "disk")' = InTier(s, k, "disk")
      BY DEF InTier
  <2>2. CASE InTier(s, k, "disk")
    <3>1. h[k] = g[k]
        BY <1>2, <1>3, <2>1, <2>2 DEF Held
    <3> QED
        BY <3>1
  <2>3. CASE ~InTier(s, k, "disk")
    <3>1. h[k] = FileBytes(s)'[k] /\ g[k] = FileBytes(s)[k]
        BY <1>2, <1>3, <2>1, <2>3 DEF Held
    <3>2. FileBytes(s)'[k] = FileBytes(s)[k] \/ FileBytes(s)'[k] = 0
        BY DEF FileBytes
    <3> QED
        BY <3>1, <3>2
  <2> QED
      BY <2>2, <2>3
<1>6. Total(h) \in Nat /\ Total(g) \in Nat /\ Total(h) <= Total(g)
    BY <1>5, TotalShrinks, TotalType, StoreAssumption
<1>7. disk_used[s] >= Total(g)
    BY <1>2 DEF ChargeInv
<1>8. disk_used'[s] >= Total(h)
    BY <1>1, <1>6, <1>7
<1> QED
    BY <1>3, <1>8

\* What a store has of a key on disk is charged in full.
LEMMA FilesAreHeld ==
    ASSUME SpillInv(Stores \X Keys), HostInv, DiskInv, NEW s \in Stores, NEW k \in Keys
    PROVE  FileBytes(s)[k] <= Held(s)[k]
<1>1. FileBytes(s)[k] \in Nat /\ Held(s)[k] \in Nat
    BY HeldType
<1>2. FileBytes(s)[k] = IF files[path_for(k)] # None /\ files[path_for(k)].by = s
                        THEN files[path_for(k)].bytes ELSE 0
    BY DEF FileBytes
<1>3. CASE ~InTier(s, k, "disk")
  <2>1. Held(s)[k] = FileBytes(s)[k]
      BY <1>3 DEF Held
  <2> QED
      BY <1>1, <2>1
<1>4. CASE InTier(s, k, "disk")
  <2>1. Held(s)[k] = entries[s][k].bytes
      BY <1>4 DEF Held
  <2>2. k \in OnDisk(s)
      BY <1>4 DEF OnDisk
  <2>3. files[path_for(k)] = None \/ files[path_for(k)] = [by |-> s, bytes |-> entries[s][k].bytes]
      BY <2>2 DEF SpillInv, Parked, Readable
  <2>4. FileBytes(s)[k] = 0 \/ FileBytes(s)[k] = entries[s][k].bytes
      BY <1>2, <2>3
  <2> QED
      BY <1>1, <2>1, <2>4
<1> QED
    BY <1>3, <1>4

\* A key leaves the disk tier: its charge is given back when its file is gone.
LEMMA DropCovers ==
    ASSUME ChargeInv, SpillInv(Stores \X Keys), HostInv, HostInv', DiskInv, DiskInv',
           NEW s \in Using, NEW k \in Keys, NEW removed \in BOOLEAN, Opened' \subseteq Opened,
           disk_used' = [disk_used EXCEPT ![s] = DiskAfter(s, k, removed)],
           \A j \in Keys : files'[path_for(j)] = FilesAfter(s, k, removed)[path_for(j)],
           \A t \in Stores \ {s} : entries'[t] = entries[t],
           \A j \in Keys \ {k} : entries'[s][j] = entries[s][j], ~InTier(s, k, "disk")'
    PROVE  ChargeInv'
<1>1. s \in Stores /\ s \in Opened
    BY DEF Using, Opened
<1>2. \A t \in Stores \ {s} : disk_used'[t] = disk_used[t]
    BY DEF DiskInv
<1>3. disk_used'[s] = DiskAfter(s, k, removed)
    BY <1>1 DEF DiskInv
<1>4. /\ \A j \in Keys \ {k} : files'[path_for(j)] = files[path_for(j)]
      /\ InTier(s, k, "disk") /\ removed => files'[path_for(k)] = None
      /\ ~(InTier(s, k, "disk") /\ removed) => files'[path_for(k)] = files[path_for(k)]
  <2>1. \A j \in Keys : path_for(j) \in Names /\ (j # k => path_for(j) # path_for(k))
      BY Zenon DEF Names, path_for
  <2> QED
      BY <2>1 DEF FilesAfter, DiskInv
<1>5. ASSUME NEW t \in Opened, t # s PROVE disk_used'[t] >= Total(Held(t)')
  <2>1. disk_used'[t] = disk_used[t] /\ entries'[t] = entries[t]
      BY <1>2, <1>5 DEF Opened
  <2> QED
      BY <1>4, <2>1, ChargeCovers
<1>6. disk_used'[s] >= Total(Held(s)')
  <2>1. FileBytes(s)[k] \in Nat /\ Held(s)[k] \in Nat /\ FileBytes(s)'[k] \in Nat /\ disk_used[s] \in Nat
      BY <1>1, HeldType, HeldTypeNext DEF DiskInv
  <2>2. ASSUME NEW j \in Keys \ {k} PROVE Held(s)'[j] <= Held(s)[j]
    <3>1. InTier(s, j, "disk")' = InTier(s, j, "disk")
        BY DEF InTier
    <3>2. FileBytes(s)'[j] = FileBytes(s)[j]
        BY <1>4 DEF FileBytes
    <3>3. Held(s)'[j] = Held(s)[j] /\ Held(s)[j] \in Nat
        BY <1>1, <3>1, <3>2, HeldType DEF Held
    <3> QED
        BY <3>3
  <2>3. Held(s)'[k] = FileBytes(s)'[k]
      BY DEF Held
  <2>4. PICK used \in Nat, held \in Nat, left \in Nat :
            used = disk_used[s] /\ held = Held(s)[k] /\ left = Held(s)'[k]
      BY <2>1, <2>3, Zenon
  <2>5. CASE InTier(s, k, "disk") /\ removed
    <3>1. Held(s)[k] = entries[s][k].bytes
        BY <2>5 DEF Held
    <3>2. left = 0
        BY <1>4, <2>3, <2>4, <2>5 DEF FileBytes
    <3>3. disk_used'[s] = Monus(used, held)
        BY <1>3, <2>4, <2>5, <3>1 DEF DiskAfter
    <3>4. Monus(used, held) + held >= used
        BY DEF Monus
    <3>5. disk_used'[s] + held >= used + left
        BY <3>2, <3>3, <3>4
    <3>6. disk_used'[s] + Held(s)[k] >= disk_used[s] + Held(s)'[k]
        BY <2>4, <3>5, Zenon
    <3> QED
        BY <1>1, <2>2, <3>6, ChargeMoves
  <2>6. CASE ~(InTier(s, k, "disk") /\ removed)
    <3>1. disk_used'[s] = used
        BY <1>3, <2>4, <2>6 DEF DiskAfter
    <3>2. FileBytes(s)'[k] = FileBytes(s)[k]
        BY <1>4, <2>6 DEF FileBytes
    <3>3. left <= held
        BY <1>1, <2>3, <2>4, <3>2, FilesAreHeld
    <3>4. used + held >= used + left
        BY <3>3
    <3>5. disk_used'[s] + Held(s)[k] >= disk_used[s] + Held(s)'[k]
        BY <2>4, <3>1, <3>4, Zenon
    <3> QED
        BY <1>1, <2>2, <3>5, ChargeMoves
  <2> QED
      BY <2>5, <2>6
<1> QED
    BY <1>5, <1>6 DEF ChargeInv

\* A step that takes nothing off a charge and adds no file that is not charged.
LEMMA ChargesKept ==
    ASSUME ChargeInv, HostInv, HostInv', DiskInv, DiskInv', Opened' \subseteq Opened,
           \A t \in Opened' : disk_used'[t] = disk_used[t] /\ entries'[t] = entries[t],
           \A k \in Keys : files'[path_for(k)] = files[path_for(k)] \/ files'[path_for(k)] = None
    PROVE  ChargeInv'
  BY ChargeCovers DEF ChargeInv

LEMMA RenameCovers ==
    ASSUME ChargeInv, SpillInv(Stores \X Keys), HostInv, HostInv', DiskInv, DiskInv',
           NEW s \in Stores, put_rename(s)
    PROVE  ChargeInv'
<1> DEFINE k == job[s].key
           n == job[s].bytes
<1>1. /\ pc[s] = "evict" /\ pc' = [pc EXCEPT ![s] = "up"]
      /\ \/ /\ files[Temp(k)] # None
            /\ files' = [files EXCEPT ![path_for(k)] = files[Temp(k)], ![Temp(k)] = None]
            /\ disk_used' = [disk_used EXCEPT ![s] = disk_used[s] + n]
            /\ entries' = [entries EXCEPT ![s][k] = [tier |-> "disk", bytes |-> n]]
         \/ /\ files' = files \/ files' = [files EXCEPT ![Temp(k)] = None]
            /\ disk_used' = disk_used /\ entries' = entries
    BY DEF put_rename, Goto, DiskInv
<1>2. k \in Keys /\ n \in Nat /\ files[Temp(k)] \in {None, [by |-> s, bytes |-> n]}
    BY <1>1 DEF HostInv, SpillInv
<1>3. Opened' = Opened /\ s \in Opened
    BY <1>1 DEF Opened, HostInv
<1>4. \A j \in Keys : Temp(k) \in Names /\ path_for(j) \in Names /\ path_for(j) # Temp(k)
                       /\ (j # k => path_for(j) # path_for(k))
    BY Zenon, <1>2 DEF Names, Temp, path_for
<1>5. files \in [Names -> FileRecords]
    BY DEF DiskInv
<1> HIDE DEF k, n
<1>6. CASE /\ files' = files \/ files' = [files EXCEPT ![Temp(k)] = None]
           /\ disk_used' = disk_used /\ entries' = entries
  <2>1. \A j \in Keys : files'[path_for(j)] = files[path_for(j)]
      BY <1>4, <1>5, <1>6
  <2> QED
      BY Zenon, <1>3, <1>6, <2>1, ChargesKept
<1>7. CASE /\ files[Temp(k)] # None
           /\ files' = [files EXCEPT ![path_for(k)] = files[Temp(k)], ![Temp(k)] = None]
           /\ disk_used' = [disk_used EXCEPT ![s] = disk_used[s] + n]
           /\ entries' = [entries EXCEPT ![s][k] = [tier |-> "disk", bytes |-> n]]
  <2>1. /\ files'[path_for(k)] = [by |-> s, bytes |-> n]
        /\ \A j \in Keys \ {k} : files'[path_for(j)] = files[path_for(j)]
      BY <1>2, <1>4, <1>5, <1>7
  <2>2. disk_used'[s] = disk_used[s] + n /\ disk_used[s] \in Nat
        /\ \A t \in Stores \ {s} : disk_used'[t] = disk_used[t]
      BY <1>7 DEF DiskInv
  <2>3. /\ entries'[s][k] = [tier |-> "disk", bytes |-> n]
        /\ \A j \in Keys \ {k} : entries'[s][j] = entries[s][j]
        /\ \A t \in Stores \ {s} : entries'[t] = entries[t]
      BY <1>2, <1>7 DEF HostInv, Entries
  <2>4. disk_used'[s] >= Total(Held(s)')
    <3>1. Held(s)[k] \in Nat
        BY <1>2, HeldType
    <3>2. Held(s)'[k] = n
      <4>1. [tier |-> "disk", bytes |-> n] \in [tier : {"host", "disk"}, bytes : Nat]
          BY <1>2
      <4>2. entries'[s][k] # None /\ entries'[s][k].tier = "disk" /\ entries'[s][k].bytes = n
          BY <2>3, <4>1, StoreAssumption
      <4> QED
          BY <1>2, <4>2 DEF Held, InTier
    <3>3. ASSUME NEW j \in Keys \ {k} PROVE Held(s)'[j] <= Held(s)[j]
      <4>1. InTier(s, j, "disk")' = InTier(s, j, "disk")
          BY <2>3 DEF InTier
      <4>2. FileBytes(s)'[j] = FileBytes(s)[j]
          BY <2>1 DEF FileBytes
      <4>3. Held(s)'[j] = Held(s)[j] /\ Held(s)[j] \in Nat
          BY <2>3, <4>1, <4>2, HeldType DEF Held
      <4> QED
          BY <4>3
    <3>4. disk_used'[s] + Held(s)[k] >= disk_used[s] + Held(s)'[k]
        BY <1>2, <2>2, <3>1, <3>2
    <3> QED
        BY <1>2, <1>3, <3>3, <3>4, ChargeMoves
  <2>5. ASSUME NEW t \in Opened, t # s PROVE disk_used'[t] >= Total(Held(t)')
    <3>1. disk_used'[t] = disk_used[t] /\ entries'[t] = entries[t]
        BY <2>2, <2>3, <2>5 DEF Opened
    <3>2. files'[path_for(k)].by # t
        BY <2>1, <2>5
    <3> QED
        BY <2>1, <3>1, <3>2, ChargeCovers
  <2> QED
      BY <1>3, <2>4, <2>5 DEF ChargeInv
<1> QED
    BY <1>1, <1>6, <1>7

LEMMA EntryDropped ==
    ASSUME HostInv, NEW s \in Stores, NEW k \in Keys, entries' = [entries EXCEPT ![s] = EntriesAfter(s, k)]
    PROVE  /\ \A t \in Stores \ {s} : entries'[t] = entries[t]
           /\ \A j \in Keys \ {k} : entries'[s][j] = entries[s][j]
           /\ ~InTier(s, k, "disk")'
<1>1. entries'[s] = [entries[s] EXCEPT ![k] = None]
    BY DEF HostInv, EntriesAfter
<1>2. entries'[s][k] = None /\ \A j \in Keys \ {k} : entries'[s][j] = entries[s][j]
    BY <1>1 DEF HostInv, Entries
<1> QED
    BY <1>2 DEF HostInv, InTier

LEMMA ChargeStep ==
    ASSUME ChargeInv, SpillInv(Stores \X Keys), HostInv, HostInv', DiskInv, DiskInv', [Next]_vars
    PROVE  ChargeInv'
<1>1. CASE UNCHANGED vars
  <2>1. Opened' = Opened /\ UNCHANGED <<files, disk_used, entries>>
      BY <1>1 DEF vars, fs, accounts, Opened
  <2> QED
      BY <2>1, ChargesKept
<1>2. ASSUME NEW s \in Stores,
             \/ stat_dir(s) \/ prepare_dir(s) \/ lock_open(s) \/ lock_denied(s) \/ try_lock(s)
             \/ drop_lock(s) \/ drop_unlink(s) \/ drop_rmdir(s)
      PROVE ChargeInv'
  <2>1. UNCHANGED <<files, disk_used, entries>>
      BY Zenon, <1>2 DEF stat_dir, prepare_dir, lock_open, lock_denied, try_lock, drop_lock,
                  drop_unlink, drop_rmdir, fs, accounts
  <2>2. PICK l : pc' = [pc EXCEPT ![s] = l]
                 /\ (pc[s] \in {"unlock", "unlink", "rmdir"} => l \in {"unlink", "rmdir", "gone"})
                 /\ pc[s] # "gone"
      BY Zenon, <1>2 DEF stat_dir, prepare_dir, lock_open, lock_denied, try_lock, drop_lock,
                  drop_unlink, drop_rmdir, Goto
  <2>3. Opened' \subseteq Opened
      BY <2>2 DEF Opened, HostInv
  <2> QED
      BY <2>1, <2>3, ChargesKept
<1>3. ASSUME NEW s \in Stores, clean(s) PROVE ChargeInv'
  <2>1. PICK left : files' = [f \in Names |-> IF f \in left THEN files[f] ELSE None]
      BY <1>3 DEF clean, remove_spill_files
  <2>2. UNCHANGED <<disk_used, entries>> /\ pc' = [pc EXCEPT ![s] = "up"] /\ pc[s] = "clean"
      BY <1>3 DEF clean, Goto
  <2>3. Opened' \subseteq Opened
      BY <2>2 DEF Opened, HostInv
  <2>4. \A k \in Keys : files'[path_for(k)] = files[path_for(k)] \/ files'[path_for(k)] = None
      BY <2>1 DEF path_for, Names
  <2> QED
      BY <2>2, <2>3, <2>4, ChargesKept
<1>4. ASSUME NEW s \in Stores, NEW k \in Keys, NEW b \in Sizes, put_host(s, k, b) PROVE ChargeInv'
  <2>1. PICK removed \in BOOLEAN : disk_used' = [disk_used EXCEPT ![s] = DiskAfter(s, k, removed)]
                                   /\ files' = FilesAfter(s, k, removed)
      BY Zenon, <1>4, FateType DEF put_host
  <2>2. s \in Using /\ Opened' = Opened
      BY <1>4 DEF put_host, Using, Opened
  <2>3. entries' = [entries EXCEPT ![s][k] = [tier |-> "host", bytes |-> b]]
      BY <1>4 DEF put_host
  <2>4. /\ \A t \in Stores \ {s} : entries'[t] = entries[t]
        /\ \A j \in Keys \ {k} : entries'[s][j] = entries[s][j]
        /\ entries'[s][k] = [tier |-> "host", bytes |-> b]
      BY <2>3 DEF HostInv, Entries
  <2>5. ~InTier(s, k, "disk")'
      BY <2>4 DEF InTier
  <2> QED
      BY Zenon, <2>1, <2>2, <2>4, <2>5, DropCovers
<1>5. ASSUME NEW s \in Using, NEW k \in Keys, drop_key(s, k), UNCHANGED pc PROVE ChargeInv'
  <2>1. PICK removed \in BOOLEAN : disk_used' = [disk_used EXCEPT ![s] = DiskAfter(s, k, removed)]
                                   /\ files' = FilesAfter(s, k, removed)
      BY Zenon, <1>5, FateType DEF drop_key
  <2>2. Opened' = Opened /\ s \in Stores
      BY <1>5 DEF Opened, Using
  <2>3. entries' = [entries EXCEPT ![s] = EntriesAfter(s, k)]
      BY <1>5 DEF drop_key
  <2>4. /\ \A t \in Stores \ {s} : entries'[t] = entries[t]
        /\ \A j \in Keys \ {k} : entries'[s][j] = entries[s][j]
        /\ ~InTier(s, k, "disk")'
      BY <2>2, <2>3, EntryDropped
  <2> QED
      BY Zenon, <2>1, <2>2, <2>4, DropCovers
<1>6. ASSUME NEW s \in Stores, NEW k \in Keys, NEW b \in Sizes, put_disk(s, k, b) PROVE ChargeInv'
  <2>1. PICK removed \in BOOLEAN :
          /\ disk_used' = [disk_used EXCEPT ![s] = DiskAfter(s, k, removed)]
          /\ \/ files' = FilesAfter(s, k, removed)
             \/ \E w : files' = [FilesAfter(s, k, removed) EXCEPT ![Temp(k)] = w]
          /\ pc' = pc \/ pc' = [pc EXCEPT ![s] = "evict"]
      BY <1>6, PutDiskEffect DEF Goto
  <2>2. pc[s] = "up"
      BY <1>6 DEF put_disk
  <2>3. s \in Using /\ Opened' \subseteq Opened
      BY <2>1, <2>2 DEF Using, Opened, HostInv
  <2>4. \A j \in Keys : files'[path_for(j)] = FilesAfter(s, k, removed)[path_for(j)]
    <3>1. FilesAfter(s, k, removed) \in [Names -> FileRecords]
        BY DiskDropped
    <3>2. \A j \in Keys : path_for(j) \in Names /\ path_for(j) # Temp(k)
        BY DEF path_for, Temp, Names
    <3> QED
        BY <2>1, <3>1, <3>2
  <2>5. entries' = [entries EXCEPT ![s] = EntriesAfter(s, k)]
      BY <1>6 DEF put_disk
  <2>6. /\ \A t \in Stores \ {s} : entries'[t] = entries[t]
        /\ \A j \in Keys \ {k} : entries'[s][j] = entries[s][j]
        /\ ~InTier(s, k, "disk")'
      BY <2>5, EntryDropped
  <2> QED
      BY Zenon, <2>1, <2>3, <2>4, <2>6, DropCovers
<1>7. ASSUME NEW s \in Stores, put_gives_up(s) PROVE ChargeInv'
  <2>1. UNCHANGED <<disk_used, entries>> /\ pc[s] = "evict" /\ pc' = [pc EXCEPT ![s] = "up"]
        /\ (files' = files \/ files' = [files EXCEPT ![Temp(job[s].key)] = None])
      BY <1>7 DEF put_gives_up, accounts, Goto
  <2>2. Opened' \subseteq Opened
      BY <2>1 DEF Opened, HostInv
  <2>3. \A k \in Keys : files'[path_for(k)] = files[path_for(k)]
      BY <2>1 DEF DiskInv, Names, Temp, path_for
  <2> QED
      BY <2>1, <2>2, <2>3, ChargesKept
<1>8. ASSUME NEW s \in Stores, drop_spills(s) \/ kill(s) PROVE ChargeInv'
  <2>1. /\ disk_used' = [disk_used EXCEPT ![s] = 0]
        /\ entries' = [entries EXCEPT ![s] = [k \in Keys |-> None]]
      BY <1>8 DEF drop_spills, kill, Freed
  <2>2. \E l \in {"unlock", "gone"} : pc' = [pc EXCEPT ![s] = l]
      BY <1>8 DEF drop_spills, kill, Goto
  <2>3. Opened' \subseteq Opened \ {s}
      BY <2>2 DEF Opened, HostInv
  <2>4. \A t \in Opened' : disk_used'[t] = disk_used[t] /\ entries'[t] = entries[t]
      BY <2>1, <2>3 DEF Opened, DiskInv, HostInv
  <2>5. files' = files \/ \E left : files' = [f \in Names |-> IF f \in left THEN files[f] ELSE None]
      BY <1>8 DEF drop_spills, kill, remove_spill_files, fs
  <2>6. \A k \in Keys : files'[path_for(k)] = files[path_for(k)] \/ files'[path_for(k)] = None
      BY <2>5 DEF path_for, Names
  <2> QED
      BY <2>3, <2>4, <2>6, ChargesKept
<1>9. ASSUME NEW s \in Stores, NEW k \in Keys, take(s, k) PROVE ChargeInv'
    BY <1>5, <1>9 DEF take, Using
<1>10. ASSUME NEW s \in Stores, evict_lru_disk(s) PROVE ChargeInv'
    BY <1>5, <1>10 DEF evict_lru_disk, OnDisk, Using
<1> QED
    BY <1>1, <1>2, <1>3, <1>4, <1>6, <1>7, <1>8, <1>9, <1>10, RenameCovers DEF Next

LEMMA ChargeInit == Init => ChargeInv
<1> SUFFICES ASSUME Init, NEW s \in Opened PROVE disk_used[s] >= Total(Held(s))
    BY DEF ChargeInv
<1>1. FileBytes(s) \in [Keys -> Nat] /\ \A k \in Keys : FileBytes(s)[k] = 0
    BY DEF Init, FileBytes, Names, path_for
<1>2. \A k \in Keys : ~InTier(s, k, "disk")
    BY DEF Init, InTier, Opened
<1>3. Held(s) \in [Keys -> Nat] /\ \A k \in Keys : Held(s)[k] = 0
    BY <1>1, <1>2 DEF Held
<1>4. disk_used[s] = 0
    BY DEF Init, Opened
<1>5. Total(Held(s)) = 0
    BY <1>3, TotalZero
<1> QED
    BY <1>4, <1>5

\* A store is charged for what it holds in either tier as long as the lock does
\* what it is for, whatever could not be removed, written or renamed, and
\* whatever a store without the lock removed.
THEOREM ChargesAreCovered == Spec /\ []Exclusive => []ChargesCover
<1> DEFINE SInv == SpillInv(Stores \X Keys)
<1>1. HostInv /\ DiskInv /\ SInv /\ ChargeInv => ChargesCover
  <2> SUFFICES ASSUME HostInv, DiskInv, SInv, ChargeInv, NEW s \in Using
               PROVE  host_used[s] = Total(HostBytes(s)) /\ disk_used[s] >= Total(FileBytes(s))
      BY DEF ChargesCover
  <2>1. s \in Stores /\ s \in Opened /\ disk_used[s] \in Nat
      BY DEF Using, Opened, DiskInv
  <2>2. PICK g \in [Keys -> Nat] : g = Held(s)
      BY <2>1, HeldType
  <2>3. PICK h \in [Keys -> Nat] : h = FileBytes(s)
      BY <2>1, HeldType
  <2>4. \A k \in Keys : h[k] <= g[k]
      BY <2>1, <2>2, <2>3, FilesAreHeld
  <2>5. Total(h) \in Nat /\ Total(g) \in Nat /\ Total(h) <= Total(g)
      BY <2>4, TotalShrinks, TotalType, StoreAssumption
  <2>6. disk_used[s] >= Total(g)
      BY <2>1, <2>2 DEF ChargeInv
  <2>7. disk_used[s] >= Total(h)
      BY <2>1, <2>5, <2>6
  <2> QED
      BY <2>1, <2>3, <2>7 DEF HostInv
<1>2. Init => SInv
    BY SpillInit
<1>3. SInv /\ Exclusive /\ [Next]_vars => SInv'
    BY AnySpillStep
<1>4. ChargeInv /\ SInv /\ HostInv /\ HostInv' /\ DiskInv /\ DiskInv' /\ [Next]_vars => ChargeInv'
    BY ChargeStep
<1> HIDE DEF SInv
<1> QED
    BY <1>1, <1>2, <1>3, <1>4, HostInit, HostStep, DiskInit, DiskStep, ChargeInit, PTL DEF Spec

\* Without the hypothesis on the lock: stores that come and go without
\* unlinking the lock file under one another are charged for what they hold.
THEOREM CoveredUnlessUnlinked == Spec /\ UnlinkedAlone => []ChargesCover
<1>1. LockInv => Exclusive
    BY DEF LockInv
<1> QED
    BY <1>1, LockKept, ChargesAreCovered, PTL
=============================================================================
