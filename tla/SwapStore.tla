------------------------------ MODULE SwapStore ------------------------------
(***************************************************************************)
(* The two-tier store of parked sessions (swap/store.rs): snapshots live   *)
(* in host memory up to a budget, then in scratch files up to a second     *)
(* one.  A directory may be given to several stores, of one process or of  *)
(* several: a store takes a lock file of it, cleans it, uses it, and       *)
(* removes both on its way out.  Any of them may be killed between two of  *)
(* these steps, which leaves its files behind and frees its lock.          *)
(***************************************************************************)
EXTENDS Naturals, FiniteSets, Totals

CONSTANTS
    Stores,      \* every store ever opened on the directory
    Inodes,
    Keys,        \* session ids
    Sizes,       \* payload bytes of a snapshot
    HEADER,      \* encoded_len - payload.len()
    HostBudget,
    DiskBudget,
    Faults,      \* what the file system may refuse: "unlink", "write", "rename",
                 \* "chmod", or to open the "lock" file
    None

ASSUME StoreAssumption ==
    /\ IsFiniteSet(Keys)
    /\ None \notin Inodes /\ None \notin [key : Keys, bytes : Nat]
    /\ None \notin [by : Stores, bytes : Nat] /\ None \notin [tier : {"host", "disk"}, bytes : Nat]
    /\ Sizes \subseteq Nat /\ HEADER \in Nat \ {0}
    /\ HostBudget \in Nat /\ DiskBudget \in Nat
    /\ Faults \subseteq {"unlink", "write", "rename", "chmod", "lock"}

VARIABLES
    dir,         \* the directory exists
    lock_file,   \* the inode LOCK_FILE names, or None
    files,       \* [spill or temp file -> who wrote it and how much, or None]
    pc,          \* [Stores -> where the store stands]
    created_dir,
    handle,      \* [Stores -> inode of its open lock file, or None]
    locked,      \* the stores that hold the lock of their handle
    disk_budget, host_used, disk_used,
    entries,     \* [Stores -> [Keys -> Stored or None]]
    last_used,   \* [Stores -> [Keys -> rank of the entry by last_used, or 0]]
    job          \* [Stores -> the put under way, or None]

fs == <<dir, lock_file, files>>
lock == <<created_dir, handle, locked>>
accounts == <<disk_budget, host_used, disk_used, entries, last_used>>
vars == <<fs, pc, lock, accounts, job>>

Names == Keys \X {"snap", "snap.tmp"}
path_for(k) == <<k, "snap">>
Temp(k) == <<k, "snap.tmp">>

Init ==
    /\ dir = FALSE /\ lock_file = None
    /\ files = [f \in Names |-> None]
    /\ pc = [s \in Stores |-> "new"]
    /\ created_dir = [s \in Stores |-> FALSE]
    /\ handle = [s \in Stores |-> None] /\ locked = {}
    /\ disk_budget = [s \in Stores |-> 0]
    /\ host_used = [s \in Stores |-> 0] /\ disk_used = [s \in Stores |-> 0]
    /\ entries = [s \in Stores |-> [k \in Keys |-> None]]
    /\ last_used = [s \in Stores |-> [k \in Keys |-> 0]]
    /\ job = [s \in Stores |-> None]

Goto(s, l) == pc' = [pc EXCEPT ![s] = l]

\* Whether a call that may fail does.
Fate(fault) == IF fault \in Faults THEN BOOLEAN ELSE {TRUE}

-----------------------------------------------------------------------------
(***************************************************************************)
(* SwapStore::new                                                          *)
(***************************************************************************)
\* prepare_dir looks for the directory, then creates it if it was missing; one
\* that another store removed in between is a load failure.
stat_dir(s) ==
    /\ pc[s] = "new"
    /\ created_dir' = [created_dir EXCEPT ![s] = ~dir]
    /\ Goto(s, "mkdir")
    /\ UNCHANGED <<fs, handle, locked, accounts, job>>

prepare_dir(s) ==
    /\ pc[s] = "mkdir"
    /\ dir' = (dir \/ created_dir[s])
    /\ Goto(s, IF dir' THEN "open" ELSE "failed")
    /\ UNCHANGED <<lock_file, files, lock, accounts, job>>

\* lock_dir, first half: the lock file is opened, and created when missing.
\* A directory that another store removed meanwhile is a load failure.
lock_open(s) ==
    /\ pc[s] = "open"
    /\ \/ /\ dir
          /\ \/ lock_file # None /\ lock_file' = lock_file
             \/ lock_file = None /\ \E i \in Inodes :
                   /\ \A t \in Stores : handle[t] # i
                   /\ lock_file' = i
          /\ handle' = [handle EXCEPT ![s] = lock_file']
          /\ Goto(s, "try_lock")
       \/ ~dir /\ Goto(s, "failed") /\ UNCHANGED <<lock_file, handle>>
    /\ UNCHANGED <<dir, files, created_dir, locked, accounts, job>>

\* A lock file that may not be created or opened (a read-only directory): new
\* goes on without the lock, and cleans the directory all the same.
lock_denied(s) ==
    /\ pc[s] = "open" /\ dir /\ "lock" \in Faults
    /\ Goto(s, "clean")
    /\ UNCHANGED <<fs, lock, accounts, job>>

Free(inode) == \A s \in locked : handle[s] # inode

\* Variant: the stale files are removed before the lock is asked for.
clean_before_lock(s) ==
    /\ pc[s] = "try_lock"
    /\ files' = [f \in Names |-> None]
    /\ \/ Free(handle[s]) /\ locked' = locked \cup {s} /\ Goto(s, "clean") /\ UNCHANGED handle
       \/ ~Free(handle[s]) /\ Goto(s, "failed")
          /\ handle' = [handle EXCEPT ![s] = None] /\ UNCHANGED locked
    /\ UNCHANGED <<dir, lock_file, created_dir, accounts, job>>

\* lock_dir, second half: a lock somebody holds is a load failure.
try_lock(s) ==
    /\ pc[s] = "try_lock"
    /\ \/ Free(handle[s]) /\ locked' = locked \cup {s} /\ Goto(s, "clean") /\ UNCHANGED handle
       \/ ~Free(handle[s]) /\ Goto(s, "failed")
          /\ handle' = [handle EXCEPT ![s] = None] /\ UNCHANGED locked
    /\ UNCHANGED <<fs, created_dir, accounts, job>>

\* Best effort: a file that cannot be removed stays.
remove_spill_files ==
    \E left \in (IF "unlink" \in Faults THEN SUBSET {f \in Names : files[f] # None} ELSE {{}}) :
        files' = [f \in Names |-> IF f \in left THEN files[f] ELSE None]

\* The end of new.  A directory that could not be made private, or locked, has
\* no disk tier.
clean(s) ==
    /\ pc[s] = "clean"
    /\ remove_spill_files
    /\ \E private \in Fate("chmod") :
          disk_budget' = [disk_budget EXCEPT ![s] = IF private /\ s \in locked THEN DiskBudget ELSE 0]
    /\ Goto(s, "up")
    /\ UNCHANGED <<dir, lock_file, lock, host_used, disk_used, entries, last_used, job>>

-----------------------------------------------------------------------------
(***************************************************************************)
(* drop_key and what the callers see after it                              *)
(***************************************************************************)
Monus(a, b) == IF a < b THEN 0 ELSE a - b

InTier(s, k, tier) == entries[s][k] # None /\ entries[s][k].tier = tier
OnDisk(s) == {k \in Keys : InTier(s, k, "disk")}

HostAfter(s, k) ==
    IF InTier(s, k, "host") THEN Monus(host_used[s], entries[s][k].bytes) ELSE host_used[s]

\* Variant: the charge is given back although the file is still there.
uncharge_anyway(s, k, removed) ==
    IF InTier(s, k, "disk") THEN Monus(disk_used[s], entries[s][k].bytes) ELSE disk_used[s]

\* remove_spill: only bytes that are gone are given back.
DiskAfter(s, k, removed) ==
    IF InTier(s, k, "disk") /\ removed THEN Monus(disk_used[s], entries[s][k].bytes) ELSE disk_used[s]

FilesAfter(s, k, removed) ==
    IF InTier(s, k, "disk") /\ removed THEN [files EXCEPT ![path_for(k)] = None] ELSE files

EntriesAfter(s, k) == [entries[s] EXCEPT ![k] = None]

\* The entries used later than a dropped one move up by one rank.
RanksAfter(s, k) ==
    LET at == last_used[s]
    IN  [j \in Keys |-> IF j = k THEN 0 ELSE IF at[k] \in 1..at[j] THEN at[j] - 1 ELSE at[j]]

\* The clock stamps a parked snapshot later than every other.
Stamped(s, k) ==
    [RanksAfter(s, k) EXCEPT ![k] = Cardinality({j \in Keys \ {k} : entries[s][j] # None}) + 1]

drop_key(s, k) ==
    \E removed \in Fate("unlink") :
        /\ host_used' = [host_used EXCEPT ![s] = HostAfter(s, k)]
        /\ disk_used' = [disk_used EXCEPT ![s] = DiskAfter(s, k, removed)]
        /\ files' = FilesAfter(s, k, removed)
        /\ entries' = [entries EXCEPT ![s] = EntriesAfter(s, k)]
        /\ last_used' = [last_used EXCEPT ![s] = RanksAfter(s, k)]

-----------------------------------------------------------------------------
(***************************************************************************)
(* put.  It runs on one thread of its store; the steps are the places      *)
(* where the file system changes and a kill leaves something behind.       *)
(***************************************************************************)
FitsHost(s, k, bytes) == bytes <= HostBudget /\ HostAfter(s, k) + bytes <= HostBudget

put_host(s, k, bytes) ==
    /\ pc[s] = "up" /\ FitsHost(s, k, bytes)
    /\ \E removed \in Fate("unlink") :
          /\ disk_used' = [disk_used EXCEPT ![s] = DiskAfter(s, k, removed)]
          /\ files' = FilesAfter(s, k, removed)
    /\ host_used' = [host_used EXCEPT ![s] = HostAfter(s, k) + bytes]
    /\ entries' = [entries EXCEPT ![s][k] = [tier |-> "host", bytes |-> bytes]]
    /\ last_used' = [last_used EXCEPT ![s] = Stamped(s, k)]
    /\ UNCHANGED <<dir, lock_file, pc, lock, disk_budget, job>>

\* Room on disk once every disk snapshot but the replaced one is evicted.
Evictable(s, k) == Total([j \in OnDisk(s) \ {k} |-> entries[s][j].bytes])
CanHold(s, k, n, removed) ==
    /\ n <= disk_budget[s]
    /\ n <= Monus(disk_budget[s], DiskAfter(s, k, removed)) + Evictable(s, k)

\* The disk half of put up to the temp file: the old snapshot of the key is
\* dropped, then the new one is refused, or written, or fails to be written
\* with whatever of the temp file could not be removed.
put_disk(s, k, bytes) ==
    LET n == bytes + HEADER
    IN
    /\ pc[s] = "up" /\ ~FitsHost(s, k, bytes)
    /\ \E removed \in Fate("unlink"), written \in Fate("write") :
          LET after == FilesAfter(s, k, removed)
              tmp == [by |-> s, bytes |-> n]
          IN
          /\ host_used' = [host_used EXCEPT ![s] = HostAfter(s, k)]
          /\ disk_used' = [disk_used EXCEPT ![s] = DiskAfter(s, k, removed)]
          /\ entries' = [entries EXCEPT ![s] = EntriesAfter(s, k)]
          /\ last_used' = [last_used EXCEPT ![s] = RanksAfter(s, k)]
          /\ \/ /\ ~CanHold(s, k, n, removed)
                /\ files' = after
                /\ UNCHANGED <<pc, job>>
             \/ /\ CanHold(s, k, n, removed) /\ dir /\ written
                /\ files' = [after EXCEPT ![Temp(k)] = tmp]
                /\ job' = [job EXCEPT ![s] = [key |-> k, bytes |-> n]]
                /\ Goto(s, "evict")
             \/ /\ CanHold(s, k, n, removed) /\ (~dir \/ ~written)
                /\ \E gone \in Fate("unlink") :
                      files' = IF gone \/ ~dir THEN [after EXCEPT ![Temp(k)] = None]
                               ELSE [after EXCEPT ![Temp(k)] = tmp]
                /\ UNCHANGED <<pc, job>>
    /\ UNCHANGED <<dir, lock_file, lock, disk_budget>>

\* Variant: off by one at the budget.
over_by_two(s) == disk_used[s] + job[s].bytes > disk_budget[s] + 1

Over(s) == disk_used[s] + job[s].bytes > disk_budget[s]

evict_lru_disk(s) ==
    /\ pc[s] = "evict" /\ Over(s)
    /\ \E k \in OnDisk(s) :
          /\ \A j \in OnDisk(s) : last_used[s][k] <= last_used[s][j]
          /\ drop_key(s, k)
    /\ UNCHANGED <<dir, lock_file, pc, lock, disk_budget, job>>

\* Files that could not be removed are still charged and fill the budget.
put_gives_up(s) ==
    /\ pc[s] = "evict" /\ Over(s) /\ OnDisk(s) = {}
    /\ \E gone \in Fate("unlink") :
          files' = IF gone THEN [files EXCEPT ![Temp(job[s].key)] = None] ELSE files
    /\ job' = [job EXCEPT ![s] = None]
    /\ Goto(s, "up")
    /\ UNCHANGED <<dir, lock_file, lock, accounts>>

\* A temp file another owner of the directory removed cannot be renamed.
put_rename(s) ==
    LET k == job[s].key
        n == job[s].bytes
    IN
    /\ pc[s] = "evict" /\ ~Over(s)
    /\ \E renamed \in Fate("rename"), gone \in Fate("unlink") :
          \/ /\ renamed /\ files[Temp(k)] # None
             /\ files' = [files EXCEPT ![path_for(k)] = files[Temp(k)], ![Temp(k)] = None]
             /\ disk_used' = [disk_used EXCEPT ![s] = @ + n]
             /\ entries' = [entries EXCEPT ![s][k] = [tier |-> "disk", bytes |-> n]]
             /\ last_used' = [last_used EXCEPT ![s] = Stamped(s, k)]
          \/ /\ ~renamed \/ files[Temp(k)] = None
             /\ files' = IF gone THEN [files EXCEPT ![Temp(k)] = None] ELSE files
             /\ UNCHANGED <<disk_used, entries, last_used>>
    /\ job' = [job EXCEPT ![s] = None]
    /\ Goto(s, "up")
    /\ UNCHANGED <<dir, lock_file, lock, disk_budget, host_used>>

-----------------------------------------------------------------------------
(***************************************************************************)
(* take and forget                                                         *)
(***************************************************************************)
\* Whether the bytes could be read and parsed or not, the entry and its file
\* are gone afterwards.
take(s, k) ==
    /\ pc[s] = "up" /\ entries[s][k] # None
    /\ drop_key(s, k)
    /\ UNCHANGED <<dir, lock_file, pc, lock, disk_budget, job>>

-----------------------------------------------------------------------------
(***************************************************************************)
(* Drop, and a kill                                                        *)
(***************************************************************************)
\* The store's memory is gone.
Freed(s) ==
    /\ entries' = [entries EXCEPT ![s] = [k \in Keys |-> None]]
    /\ last_used' = [last_used EXCEPT ![s] = [k \in Keys |-> 0]]
    /\ host_used' = [host_used EXCEPT ![s] = 0]
    /\ disk_used' = [disk_used EXCEPT ![s] = 0]
    /\ job' = [job EXCEPT ![s] = None]
    /\ UNCHANGED disk_budget

\* Drop is the same with the lock and without it: what was refused to new may
\* be allowed by now.
drop_spills(s) ==
    /\ pc[s] = "up"
    /\ remove_spill_files
    /\ Freed(s)
    /\ Goto(s, "unlock")
    /\ UNCHANGED <<dir, lock_file, lock>>

drop_lock(s) ==
    /\ pc[s] = "unlock"
    /\ locked' = locked \ {s} /\ handle' = [handle EXCEPT ![s] = None]
    /\ Goto(s, "unlink")
    /\ UNCHANGED <<fs, created_dir, accounts, job>>

drop_unlink(s) ==
    /\ pc[s] = "unlink"
    /\ \E gone \in Fate("unlink") : lock_file' = IF gone THEN None ELSE lock_file
    /\ Goto(s, "rmdir")
    /\ UNCHANGED <<dir, files, lock, accounts, job>>

\* remove_dir takes only an empty directory.
drop_rmdir(s) ==
    /\ pc[s] = "rmdir"
    /\ dir' = (dir /\ (~created_dir[s] \/ lock_file # None \/ \E f \in Names : files[f] # None))
    /\ Goto(s, "gone")
    /\ UNCHANGED <<lock_file, files, lock, accounts, job>>

\* The kernel closes the files of a process that dies.
kill(s) ==
    /\ pc[s] \notin {"new", "failed", "gone"}
    /\ locked' = locked \ {s} /\ handle' = [handle EXCEPT ![s] = None]
    /\ Freed(s)
    /\ Goto(s, "gone")
    /\ UNCHANGED <<fs, created_dir>>

Next ==
    \E s \in Stores :
        \/ stat_dir(s) \/ prepare_dir(s) \/ lock_open(s) \/ lock_denied(s) \/ try_lock(s) \/ clean(s)
        \/ \E k \in Keys : (\E b \in Sizes : put_host(s, k, b) \/ put_disk(s, k, b)) \/ take(s, k)
        \/ evict_lru_disk(s) \/ put_gives_up(s) \/ put_rename(s)
        \/ drop_spills(s) \/ drop_lock(s) \/ drop_unlink(s) \/ drop_rmdir(s)
        \/ kill(s)

Spec == Init /\ [][Next]_vars

-----------------------------------------------------------------------------
(***************************************************************************)
(* Properties                                                              *)
(***************************************************************************)
Using == {s \in Stores : pc[s] \in {"up", "evict"}}

StoreTypeOK ==
    /\ dir \in BOOLEAN /\ lock_file \in Inodes \cup {None}
    /\ files \in [Names -> [by : Stores, bytes : Nat] \cup {None}]
    /\ locked \subseteq {s \in Stores : handle[s] # None}
    /\ \A s \in Stores : host_used[s] \in 0 .. HostBudget /\ disk_used[s] \in 0 .. DiskBudget
    /\ \A s \in Stores : pc[s] = "evict" => job[s] # None

\* One store uses the directory's files at a time (LOCK_FILE: "so two
\* processes can never share `dir`").
OneOwner == \A s, t \in Using \cap locked : s = t

HostBytes(s) == [k \in Keys |-> IF InTier(s, k, "host") THEN entries[s][k].bytes ELSE 0]
FileBytes(s) ==
    [k \in Keys |-> IF files[path_for(k)] # None /\ files[path_for(k)].by = s
                    THEN files[path_for(k)].bytes ELSE 0]

\* What a store is charged covers what it holds, in either tier and whatever
\* could not be removed: the spill files it wrote and the host snapshots.
ChargesCover ==
    \A s \in Using : host_used[s] = Total(HostBytes(s)) /\ disk_used[s] >= Total(FileBytes(s))

\* A snapshot on disk can be taken back: its file is there, of the length it
\* was charged for, and nobody else's.
Readable(s, k) == files[path_for(k)] = [by |-> s, bytes |-> entries[s][k].bytes]
SpillsReadable == \A s \in Using : \A k \in OnDisk(s) : Readable(s, k)

\* The store removes the directory's spill files, at the end of new or in Drop.
Cleans(s) == <<pc[s], pc'[s]>> \in {<<"clean", "up">>, <<"up", "unlock">>}

\* No step makes a snapshot on disk unreadable, whoever parks, starts, fails,
\* ends or is killed around it (new: "a second process must not delete this
\* one's live spill files on its way to failing"), but for the cleanup of a
\* store that runs without the lock.
SpillsKept ==
    [][\A s \in Stores, k \in Keys :
          (k \in OnDisk(s) /\ ~Readable(s, k))' =>
              \/ k \in OnDisk(s) /\ ~Readable(s, k)
              \/ \E t \in Stores \ locked : Cleans(t)]_vars
=============================================================================
