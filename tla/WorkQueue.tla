------------------------------ MODULE WorkQueue ------------------------------
(***************************************************************************)
(* The filesystem work queue (atomic_agents/queue/filesystem.py) and the   *)
(* lease recovery that runs beside it.  Several worker processes call      *)
(* claim_next, renew_lease, release and move_to_dead_letter while other    *)
(* processes call recover_stale_claims; nothing but the atomicity of one   *)
(* system call orders them, so every system call that changes the shared   *)
(* directory tree is a step of its own.                                    *)
(*                                                                         *)
(* The tree is fs: a total function from locations to files.  A location   *)
(* is <<state directory, role or lease token, file name>>.  The payload of *)
(* a file is a job; a name can be enqueued again with another job.         *)
(***************************************************************************)
EXTENDS Integers

CONSTANTS
  Jobs,          \* payloads, each enqueued at most once
  Names,         \* work file names, ordered by <, as sorted() orders them
  NameOf,        \* the name each job is enqueued under
  Role,          \* the one role bucket that is modelled
  Tokens,        \* lease tokens
  Workers,       \* processes that claim and finish work
  Recoverers,    \* processes that call recover_stale_claims
  LeaseSeconds,  \* lease_seconds, the same for claim, renew and recovery
  ReuseTokens,   \* may a caller use a lease token for a second item?
  PromptClaims,  \* does a claim reach its rename before LeaseSeconds pass?
  MaxTime,       \* bound: the clock stops here
  MaxFaults,     \* bound: process deaths and failed renames
  Phantom,       \* the zero bytes of a placeholder
  Null           \* no job, no token, no location

ASSUME JobAssumption ==
  /\ Names \subseteq Nat
  /\ NameOf \in [Jobs -> Names]
  /\ Phantom \notin Jobs /\ Null \notin Jobs /\ Phantom # Null
ASSUME TokenAssumption == Null \notin Tokens
ASSUME TimeAssumption ==
  LeaseSeconds \in Nat /\ MaxTime \in Nat /\ MaxFaults \in Nat
ASSUME ModeAssumption == ReuseTokens \in BOOLEAN /\ PromptClaims \in BOOLEAN

QueuedLoc     == {"queued"} \X {Role} \X Names
ClaimedLoc    == {"claimed"} \X Tokens \X Names
RecoveredLoc  == {"recovered"} \X Tokens \X Names   \* queued/_recovered/
WorkLoc       == ClaimedLoc \union RecoveredLoc
FinalLoc      == {"done", "dead"} \X Tokens \X Names
Loc           == QueuedLoc \union WorkLoc \union FinalLoc
Queued(n)     == <<"queued", Role, n>>
Claimed(t, n) == <<"claimed", t, n>>

NoFile    == [job |-> Null, mtime |-> 0]
NoSidecar == [state |-> "absent", exp |-> 0]
Torn      == [state |-> "torn", exp |-> 0]
Valid(e)  == [state |-> "valid", exp |-> e]

VARIABLES
  now,        \* time.time()
  faults,     \* process deaths and failed renames so far
  fs,         \* location -> file
  sidecar,    \* location -> its <name>.lease.json
  dirs,       \* the tokens t whose directory claimed/<t>/ exists
  produced,   \* jobs that were enqueued
  spent,      \* tokens of sessions that got an item or died
  pc,         \* worker: where it is in the call it runs, "held" between calls
  tok,        \* worker: its lease token
  todo,       \* worker: candidates of claim_next not tried yet
  at,         \* worker: item.path
  exp,        \* worker: the lease_expires_at it computed last
  spc,        \* recoverer: where it is in recover_stale_claims
  snow,       \* recoverer: the time it read when the call began
  leases,     \* recoverer: lease directories not swept yet
  cur,        \* recoverer: the lease directory being swept
  files,      \* recoverer: the work files there not looked at yet
  hit,        \* recoverer: the stale work file it is about to move
  found,      \* recoverer: the items recovered so far in this call
  returned,   \* recovered items a caller has and no worker works on yet
  claims      \* history: how often claim_next took each job from the queue

clock  == <<now, faults>>
tree   == <<fs, sidecar, dirs>>
worker == <<pc, tok, todo, at, exp>>
sweep  == <<spc, snow, leases, cur, files, hit, found>>
vars   ==
  <<now, faults, tree, produced, spent, worker, sweep, returned, claims>>

WorkerPC == {"idle", "scan", "place", "rename", "rmdir",
             "open", "write", "held", "unlink", "raised"}
SweepPC  == {"idle", "enter", "list", "file", "reclaim", "unlink"}

\* The type invariant.  A worker that has an item path and a recoverer that is
\* about to move a file have one of the right kind.
TreeOK ==
  /\ now \in 0..MaxTime /\ faults \in 0..MaxFaults
  /\ fs \in [Loc -> [job: Jobs \union {Phantom, Null}, mtime: Nat]]
  /\ sidecar \in [WorkLoc -> [state: {"absent", "torn", "valid"}, exp: Nat]]
  /\ dirs \subseteq Tokens /\ spent \subseteq Tokens /\ produced \subseteq Jobs
  /\ returned \subseteq RecoveredLoc
  /\ claims \in [Jobs -> Nat]

WorkerOK ==
  /\ pc \in [Workers -> WorkerPC]
  /\ tok \in [Workers -> Tokens \union {Null}]
  /\ todo \in [Workers -> SUBSET Names]
  /\ at \in [Workers -> WorkLoc \union {Null}]
  /\ exp \in [Workers -> Nat]
  /\ \A w \in Workers :
       /\ pc[w] \in {"scan", "place", "rename", "rmdir"} => tok[w] \in Tokens
       /\ pc[w] \in {"rename", "open", "write", "held", "unlink"} =>
            at[w] \in WorkLoc /\ tok[w] = at[w][2]

SweepOK ==
  /\ spc \in [Recoverers -> SweepPC]
  /\ snow \in [Recoverers -> Nat]
  /\ leases \in [Recoverers -> SUBSET Tokens]
  /\ cur \in [Recoverers -> Tokens \union {Null}]
  /\ files \in [Recoverers -> SUBSET Names]
  /\ hit \in [Recoverers -> ClaimedLoc \union {Null}]
  /\ found \in [Recoverers -> SUBSET RecoveredLoc]
  /\ \A r \in Recoverers :
       /\ spc[r] \in {"list", "file", "reclaim", "unlink"} => cur[r] \in Tokens
       /\ spc[r] \in {"reclaim", "unlink"} => hit[r] \in ClaimedLoc

TypeOK == TreeOK /\ WorkerOK /\ SweepOK

Init ==
  /\ now = 0 /\ faults = 0
  /\ fs = [l \in Loc |-> NoFile]
  /\ sidecar = [l \in WorkLoc |-> NoSidecar]
  /\ dirs = {} /\ produced = {} /\ spent = {} /\ returned = {}
  /\ pc = [w \in Workers |-> "idle"]
  /\ tok = [w \in Workers |-> Null]
  /\ todo = [w \in Workers |-> {}]
  /\ at = [w \in Workers |-> Null]
  /\ exp = [w \in Workers |-> 0]
  /\ spc = [r \in Recoverers |-> "idle"]
  /\ snow = [r \in Recoverers |-> 0]
  /\ leases = [r \in Recoverers |-> {}]
  /\ cur = [r \in Recoverers |-> Null]
  /\ files = [r \in Recoverers |-> {}]
  /\ hit = [r \in Recoverers |-> Null]
  /\ found = [r \in Recoverers |-> {}]
  /\ claims = [j \in Jobs |-> 0]
-----------------------------------------------------------------------------
Exists(l)  == fs[l] # NoFile
DirOf(l)   == l[1] # "claimed" \/ l[2] \in dirs    \* the parent of l exists
Empty(t)   == \A n \in Names : /\ ~Exists(Claimed(t, n))
                               /\ sidecar[Claimed(t, n)] = NoSidecar
\* Bug variant of Move: copy, then forget to delete.
Move_Copies(l, m) == fs' = [fs EXCEPT ![m] = fs[l]]
Move(l, m) == fs' = [fs EXCEPT ![l] = NoFile, ![m] = fs[l]]   \* rename(2)
Fault      == faults < MaxFaults /\ faults' = faults + 1
Goto(w, p) == pc' = [pc EXCEPT ![w] = p]

\* The session of w is over: it holds nothing and waits for its next call.
EndSession(w) ==
  /\ Goto(w, "idle")
  /\ tok' = [tok EXCEPT ![w] = Null]
  /\ todo' = [todo EXCEPT ![w] = {}]
  /\ at' = [at EXCEPT ![w] = Null]
  /\ exp' = [exp EXCEPT ![w] = 0]

\* Bug variant of Enqueue: an exclusive create that loses to an older payload.
Enqueue_KeepsOlder(j) ==
  /\ j \notin produced
  /\ produced' = produced \union {j}
  /\ fs' = IF Exists(Queued(NameOf[j])) THEN fs
           ELSE [fs EXCEPT ![Queued(NameOf[j])] = [job |-> j, mtime |-> now]]
  /\ UNCHANGED <<clock, sidecar, dirs, spent, worker, sweep, returned, claims>>

\* enqueue: the payload appears under its final name in one rename, over an
\* older queued file of that name.  The temporary file is invisible to claims.
Enqueue(j) ==
  /\ j \notin produced
  /\ produced' = produced \union {j}
  /\ fs' = [fs EXCEPT ![Queued(NameOf[j])] = [job |-> j, mtime |-> now]]
  /\ UNCHANGED <<clock, sidecar, dirs, spent, worker, sweep, returned, claims>>

\* claim_next, up to mkdir(exist_ok=False).  Without a role directory, or on
\* a token whose directory exists, it returns None and nothing changes.
ClaimMkdir(w, t) ==
  /\ pc[w] = "idle"
  /\ produced # {}                          \* queued_dir.is_dir()
  /\ t \notin dirs
  /\ \A v \in Workers : tok[v] # t          \* callers do not share a token
  /\ ReuseTokens \/ t \notin spent          \* "a fresh lease_token per session"
  /\ dirs' = dirs \union {t}
  /\ tok' = [tok EXCEPT ![w] = t]
  /\ Goto(w, "scan")
  /\ UNCHANGED <<clock, fs, sidecar, produced, spent, todo, at, exp, sweep,
                 returned, claims>>

\* sorted(queued_dir.iterdir()).
ClaimScan(w) ==
  /\ pc[w] = "scan"
  /\ todo' = [todo EXCEPT ![w] = {n \in Names : Exists(Queued(n))}]
  /\ Goto(w, "place")
  /\ UNCHANGED <<clock, tree, produced, spent, tok, at, exp, sweep, returned,
                 claims>>

\* os.open(dst, O_CREAT | O_EXCL) for the first candidate left.
ClaimPlaceholder(w) ==
  /\ pc[w] = "place"
  /\ tok[w] \in dirs
  /\ \E n \in todo[w] :
       /\ \A m \in todo[w] : n <= m
       /\ ~Exists(Claimed(tok[w], n))
       /\ fs' = [fs EXCEPT ![Claimed(tok[w], n)] =
                              [job |-> Phantom, mtime |-> now]]
       /\ at' = [at EXCEPT ![w] = Claimed(tok[w], n)]
  /\ Goto(w, "rename")
  /\ UNCHANGED <<clock, sidecar, dirs, produced, spent, tok, todo, exp, sweep,
                 returned, claims>>

\* The same open when a recovery has removed the still empty lease directory:
\* FileNotFoundError is not caught and leaves claim_next.
ClaimRaises(w) ==
  /\ pc[w] = "place"
  /\ todo[w] # {}
  /\ tok[w] \notin dirs
  /\ Goto(w, "raised")
  /\ UNCHANGED <<clock, tree, produced, spent, tok, todo, at, exp, sweep,
                 returned, claims>>

\* Bug variant of ClaimRename: link(2) instead of rename(2).
ClaimRename_Links(w) ==
  /\ pc[w] = "rename"
  /\ LET src == Queued(at[w][3]) IN
       /\ Exists(src) /\ tok[w] \in dirs
       /\ fs' = [fs EXCEPT ![at[w]] = fs[src]]
       /\ claims' = [claims EXCEPT ![fs[src].job] = @ + 1]
  /\ spent' = spent \union {tok[w]}
  /\ todo' = [todo EXCEPT ![w] = {}]
  /\ Goto(w, "open")
  /\ UNCHANGED <<clock, sidecar, dirs, produced, tok, at, exp, sweep,
                 returned>>

\* src.rename(dst): the exclusion primitive.
ClaimRename(w) ==
  /\ pc[w] = "rename"
  /\ LET src == Queued(at[w][3]) IN
       /\ Exists(src) /\ tok[w] \in dirs
       /\ Move(src, at[w])
       /\ claims' = [claims EXCEPT ![fs[src].job] = @ + 1]
  /\ spent' = spent \union {tok[w]}
  /\ todo' = [todo EXCEPT ![w] = {}]
  /\ Goto(w, "open")
  /\ UNCHANGED <<clock, sidecar, dirs, produced, tok, at, exp, sweep,
                 returned>>

\* FileNotFoundError: another worker was first, or the lease directory went
\* away; drop the placeholder and try the next candidate.
ClaimLostRace(w) ==
  /\ pc[w] = "rename"
  /\ ~Exists(Queued(at[w][3])) \/ tok[w] \notin dirs
  /\ fs' = [fs EXCEPT ![at[w]] = NoFile]
  /\ todo' = [todo EXCEPT ![w] = @ \ {at[w][3]}]
  /\ at' = [at EXCEPT ![w] = Null]
  /\ Goto(w, "place")
  /\ UNCHANGED <<clock, sidecar, dirs, produced, spent, tok, exp, sweep,
                 returned, claims>>

\* Any other OSError (EACCES, EIO, ENOSPC): drop the placeholder, remove the
\* directory, raise.  The caller ends up without an item, as after None.
ClaimRenameFails(w) ==
  /\ pc[w] = "rename"
  /\ Fault
  /\ fs' = [fs EXCEPT ![at[w]] = NoFile]
  /\ todo' = [todo EXCEPT ![w] = {}]
  /\ at' = [at EXCEPT ![w] = Null]
  /\ Goto(w, "rmdir")
  /\ UNCHANGED <<now, sidecar, dirs, produced, spent, tok, exp, sweep,
                 returned, claims>>

\* Bug variant of ClaimNone: the lease directory is left behind.
ClaimNone_LeavesDir(w) ==
  /\ pc[w] = "rmdir" \/ (pc[w] = "place" /\ todo[w] = {})
  /\ EndSession(w)
  /\ spent' = spent \union {tok[w]}
  /\ UNCHANGED <<clock, tree, produced, sweep, returned, claims>>

\* No candidate is left: remove the empty lease directory and return None.
ClaimNone(w) ==
  /\ pc[w] = "rmdir" \/ (pc[w] = "place" /\ todo[w] = {})
  /\ dirs' = IF Empty(tok[w]) THEN dirs \ {tok[w]} ELSE dirs
  /\ EndSession(w)
  /\ UNCHANGED <<clock, fs, sidecar, produced, spent, sweep, returned, claims>>

\* _write_no_follow opens the sidecar with O_CREAT | O_TRUNC: until the write
\* lands it is empty, whatever it held before.  Both writers come here:
\* _write_sidecar after the claim's rename, and renew_lease.
OpenSidecar(w, from) ==
  /\ pc[w] = from
  /\ exp' = [exp EXCEPT ![w] = now + LeaseSeconds]
  /\ IF DirOf(at[w])
     THEN /\ sidecar' = [sidecar EXCEPT ![at[w]] = Torn]
          /\ Goto(w, "write")
     ELSE /\ sidecar' = sidecar              \* ENOENT is swallowed
          /\ Goto(w, "held")
  /\ UNCHANGED <<clock, fs, dirs, produced, spent, tok, todo, at, sweep,
                 returned, claims>>
ClaimSidecar(w) == OpenSidecar(w, "open")
Renew(w)        == OpenSidecar(w, "held")

\* The write itself; an unlinked sidecar receives it out of sight.
WriteSidecar(w) ==
  /\ pc[w] = "write"
  /\ sidecar' = IF sidecar[at[w]] = Torn
                THEN [sidecar EXCEPT ![at[w]] = Valid(exp[w])] ELSE sidecar
  /\ Goto(w, "held")
  /\ UNCHANGED <<clock, fs, dirs, produced, spent, tok, todo, at, exp, sweep,
                 returned, claims>>

\* _release_at_path and _dead_letter_at_path: rename the work file from where
\* the item is, then unlink the sidecar.  When the file is gone, release is a
\* no-op and move_to_dead_letter raises; the session ends either way.
Finish(w, kind) ==
  /\ pc[w] = "held"
  /\ IF Exists(at[w])
     THEN /\ Move(at[w], <<kind, tok[w], at[w][3]>>)
          /\ Goto(w, "unlink")
          /\ UNCHANGED <<tok, todo, at, exp>>
     ELSE /\ EndSession(w)
          /\ UNCHANGED fs
  /\ UNCHANGED <<clock, sidecar, dirs, produced, spent, sweep, returned,
                 claims>>
Release(w)    == Finish(w, "done")
DeadLetter(w) == Finish(w, "dead")

UnlinkSidecar(w) ==
  /\ pc[w] = "unlink"
  /\ sidecar' = [sidecar EXCEPT ![at[w]] = NoSidecar]
  /\ EndSession(w)
  /\ UNCHANGED <<clock, fs, dirs, produced, spent, sweep, returned, claims>>

\* A caller of recover_stale_claims hands a recovered item to a worker, which
\* finishes it through the _cascade shims (they take item.path at any depth).
Adopt(w, l) ==
  /\ pc[w] = "idle"
  /\ l \in returned
  /\ returned' = returned \ {l}
  /\ tok' = [tok EXCEPT ![w] = l[2]]
  /\ at' = [at EXCEPT ![w] = l]
  /\ Goto(w, "held")
  /\ UNCHANGED <<clock, tree, produced, spent, todo, exp, sweep, claims>>

\* The process that got the exception ends; its next run starts over.
Restart(w) ==
  /\ pc[w] = "raised"
  /\ EndSession(w)
  /\ UNCHANGED <<clock, tree, produced, spent, sweep, returned, claims>>

\* The worker process dies; the tree stays as it is.
Crash(w) ==
  /\ pc[w] # "idle"
  /\ Fault
  /\ spent' = spent \union ({tok[w]} \ {Null})
  /\ EndSession(w)
  /\ UNCHANGED <<now, tree, produced, sweep, returned, claims>>
-----------------------------------------------------------------------------
\* recover_stale_claims -> _recover_stale_claims_native.
SweepGoto(r, p) == spc' = [spc EXCEPT ![r] = p]

SweepStart(r) ==
  /\ spc[r] = "idle"
  /\ snow' = [snow EXCEPT ![r] = now]
  /\ leases' = [leases EXCEPT ![r] = dirs]
  /\ SweepGoto(r, "enter")
  /\ UNCHANGED <<clock, tree, produced, spent, worker, cur, files, hit,
                 found, returned, claims>>

\* for lease_dir in claimed_root.iterdir(): if not lease_dir.is_dir(): continue
SweepEnter(r, t) ==
  /\ spc[r] = "enter"
  /\ t \in leases[r]
  /\ leases' = [leases EXCEPT ![r] = @ \ {t}]
  /\ IF t \in dirs
     THEN cur' = [cur EXCEPT ![r] = t] /\ SweepGoto(r, "list")
     ELSE UNCHANGED <<cur, spc>>
  /\ UNCHANGED <<clock, tree, produced, spent, worker, snow, files, hit, found,
                 returned, claims>>

\* The call of r is over; what it found goes to the caller or is lost.
EndSweep(r) ==
  /\ SweepGoto(r, "idle")
  /\ snow' = [snow EXCEPT ![r] = 0]
  /\ leases' = [leases EXCEPT ![r] = {}]
  /\ cur' = [cur EXCEPT ![r] = Null]
  /\ files' = [files EXCEPT ![r] = {}]
  /\ hit' = [hit EXCEPT ![r] = Null]
  /\ found' = [found EXCEPT ![r] = {}]
  /\ UNCHANGED <<now, tree, produced, spent, worker, claims>>

\* lease_dir.iterdir().
SweepList(r) ==
  /\ spc[r] = "list"
  /\ cur[r] \in dirs
  /\ files' = [files EXCEPT ![r] = {n \in Names : Exists(Claimed(cur[r], n))}]
  /\ SweepGoto(r, "file")
  /\ UNCHANGED <<clock, tree, produced, spent, worker, snow, leases, cur, hit,
                 found, returned, claims>>

\* The same iterdir() after another recovery removed the directory: its
\* FileNotFoundError leaves the call, and the items it had recovered with it.
SweepRaises(r) ==
  /\ spc[r] = "list"
  /\ cur[r] \notin dirs
  /\ EndSweep(r)
  /\ UNCHANGED <<faults, returned>>

\* Bug variant of Stale: only a readable sidecar can show that a lease is over.
Stale_SidecarOnly(r, l) ==
  sidecar[l].state = "valid" /\ sidecar[l].exp < snow[r]

\* Is the work file's lease over, as far as this call can see?  A sidecar that
\* cannot be parsed or is absent leaves the decision to the file's mtime.
Stale(r, l) ==
  IF sidecar[l].state = "valid"
  THEN sidecar[l].exp < snow[r]
  ELSE fs[l].mtime + LeaseSeconds <= snow[r]

SweepFile(r, n) ==
  /\ spc[r] = "file"
  /\ n \in files[r]
  /\ files' = [files EXCEPT ![r] = @ \ {n}]
  /\ LET l == Claimed(cur[r], n) IN
     IF Exists(l) /\ Stale(r, l)
     THEN hit' = [hit EXCEPT ![r] = l] /\ SweepGoto(r, "reclaim")
     ELSE UNCHANGED <<hit, spc>>
  /\ UNCHANGED <<clock, tree, produced, spent, worker, snow, leases, cur, found,
                 returned, claims>>

\* Bug variants of SweepRename: the item keeps its old path; the file goes back
\* to the role's queue; the file is copied.
SweepRename_KeepsPath(r) ==
  /\ spc[r] = "reclaim" /\ Exists(hit[r])
  /\ Move(hit[r], <<"recovered", hit[r][2], hit[r][3]>>)
  /\ found' = [found EXCEPT ![r] = @ \union {hit[r]}]
  /\ SweepGoto(r, "unlink")
  /\ UNCHANGED <<clock, sidecar, dirs, produced, spent, worker, snow, leases,
                 cur, files, hit, returned, claims>>

SweepRename_Requeues(r) ==
  /\ spc[r] = "reclaim" /\ Exists(hit[r])
  /\ Move(hit[r], Queued(hit[r][3]))
  /\ SweepGoto(r, "unlink")
  /\ UNCHANGED <<clock, sidecar, dirs, produced, spent, worker, snow, leases,
                 cur, files, hit, found, returned, claims>>

SweepRename_Copies(r) ==
  /\ spc[r] = "reclaim" /\ Exists(hit[r])
  /\ fs' = [fs EXCEPT ![<<"recovered", hit[r][2], hit[r][3]>>] = fs[hit[r]]]
  /\ SweepGoto(r, "unlink")
  /\ UNCHANGED <<clock, sidecar, dirs, produced, spent, worker, snow, leases,
                 cur, files, hit, found, returned, claims>>

\* path.rename(queued/_recovered/<token>/<name>); FileNotFoundError: pass.
SweepRename(r) ==
  /\ spc[r] = "reclaim"
  /\ LET m == <<"recovered", hit[r][2], hit[r][3]>> IN
     IF Exists(hit[r])
     THEN /\ Move(hit[r], m)
          /\ found' = [found EXCEPT ![r] = @ \union {m}]
          /\ SweepGoto(r, "unlink")
          /\ UNCHANGED hit
     ELSE /\ hit' = [hit EXCEPT ![r] = Null]
          /\ SweepGoto(r, "file")
          /\ UNCHANGED <<fs, found>>
  /\ UNCHANGED <<clock, sidecar, dirs, produced, spent, worker, snow, leases,
                 cur, files, returned, claims>>

SweepUnlink(r) ==
  /\ spc[r] = "unlink"
  /\ sidecar' = [sidecar EXCEPT ![hit[r]] = NoSidecar]
  /\ hit' = [hit EXCEPT ![r] = Null]
  /\ SweepGoto(r, "file")
  /\ UNCHANGED <<clock, fs, dirs, produced, spent, worker, snow, leases, cur,
                 files, found, returned, claims>>

\* Bug variant of SweepRmdir: rmtree instead of rmdir.
SweepRmdir_Rmtree(r) ==
  /\ spc[r] = "file"
  /\ files[r] = {}
  /\ dirs' = dirs \ {cur[r]}
  /\ fs' = [l \in Loc |-> IF l[1] = "claimed" /\ l[2] = cur[r] THEN NoFile
                          ELSE fs[l]]
  /\ cur' = [cur EXCEPT ![r] = Null]
  /\ SweepGoto(r, "enter")
  /\ UNCHANGED <<clock, sidecar, produced, spent, worker, snow, leases,
                 files, hit, found, returned, claims>>

\* Every file was looked at: remove the lease directory if it is empty.
SweepRmdir(r) ==
  /\ spc[r] = "file"
  /\ files[r] = {}
  /\ dirs' = IF Empty(cur[r]) THEN dirs \ {cur[r]} ELSE dirs
  /\ cur' = [cur EXCEPT ![r] = Null]
  /\ SweepGoto(r, "enter")
  /\ UNCHANGED <<clock, fs, sidecar, produced, spent, worker, snow, leases,
                 files, hit, found, returned, claims>>

SweepEnd(r) ==
  /\ spc[r] = "enter"
  /\ leases[r] = {}
  /\ returned' = returned \union found[r]
  /\ EndSweep(r)
  /\ UNCHANGED faults

\* The recovering process dies: its items stay in _recovered/, unreported.
SweepCrash(r) ==
  /\ spc[r] # "idle"
  /\ Fault
  /\ EndSweep(r)
  /\ UNCHANGED returned

\* With PromptClaims, a claim does not stall for a whole lease between
\* creating its placeholder and renaming the work file over it.
Tick ==
  /\ now < MaxTime
  /\ PromptClaims => \A w \in Workers :
       pc[w] = "rename" => now + 1 < fs[at[w]].mtime + LeaseSeconds
  /\ now' = now + 1
  /\ UNCHANGED <<faults, tree, produced, spent, worker, sweep, returned,
                 claims>>
-----------------------------------------------------------------------------
Claim(w) ==
  \/ \E t \in Tokens : ClaimMkdir(w, t)
  \/ ClaimScan(w) \/ ClaimPlaceholder(w) \/ ClaimRaises(w)
  \/ ClaimRename(w) \/ ClaimLostRace(w) \/ ClaimRenameFails(w)
  \/ ClaimNone(w) \/ ClaimSidecar(w) \/ WriteSidecar(w)

Complete(w) == Release(w) \/ DeadLetter(w) \/ UnlinkSidecar(w)

Sweep(r) ==
  \/ SweepStart(r)
  \/ \E t \in Tokens : SweepEnter(r, t)
  \/ SweepList(r) \/ SweepRaises(r)
  \/ \E n \in Names : SweepFile(r, n)
  \/ SweepRename(r) \/ SweepUnlink(r) \/ SweepRmdir(r) \/ SweepEnd(r)

Next ==
  \/ \E j \in Jobs : Enqueue(j)
  \/ \E w \in Workers : \/ Claim(w) \/ Renew(w) \/ Complete(w)
                        \/ Restart(w) \/ Crash(w)
                        \/ \E l \in RecoveredLoc : Adopt(w, l)
  \/ \E r \in Recoverers : Sweep(r) \/ SweepCrash(r)
  \/ Tick

Spec == Init /\ [][Next]_vars

\* Workers keep polling and finish what they hold, a started recovery runs to
\* its end and recoveries are started again: cron fires them.
Fairness ==
  /\ \A w \in Workers : /\ WF_vars(Claim(w)) /\ WF_vars(Restart(w))
                        /\ SF_vars(Complete(w))
                        /\ SF_vars(\E l \in RecoveredLoc : Adopt(w, l))
  /\ \A r \in Recoverers : WF_vars(Sweep(r))
  /\ WF_vars(Tick)

FairSpec == Spec /\ Fairness
-----------------------------------------------------------------------------
\* One payload is one file: no rename, lost race, recovery or crash leaves two
\* copies of a job in the tree (spec/44, state transition of the work file).
OneCopy ==
  \A l, m \in Loc : fs[l].job \in Jobs /\ fs[l].job = fs[m].job => l = m

\* spec/44 MUST 4 and 9: over the whole life of the queue claim_next gives a
\* job to at most one caller, and a job in queued/ has not been given to any.
ClaimedOnce ==
  /\ \A j \in Jobs : claims[j] <= 1
  /\ \A l \in QueuedLoc : \A j \in Jobs : fs[l].job = j => claims[j] = 0

\* The state of each job as spec/44 reads it off the tree.
InState(j, kind) == \E l \in Loc : l[1] = kind /\ fs[l].job = j
StateOf(j) ==
  CASE InState(j, "queued")    -> "pending"
    [] InState(j, "claimed")   -> "in_progress"
    [] InState(j, "recovered") -> "recovered"
    [] InState(j, "done")      -> "completed"
    [] InState(j, "dead")      -> "dead_letter"
    [] OTHER -> IF j \in produced THEN "superseded" ELSE "absent"

\* Every system call is one transition of the abstract work item or none of
\* its business: a claimed job survives crashes, lost races and recoveries
\* until somebody finishes it, and MUST 10, dead work stays dead.
Item == INSTANCE WorkItem WITH state <- [j \in Jobs |-> StateOf(j)]
ImplementsWorkItem == Item!Spec

\* A queued file is taken eventually.
QueuedEventuallyClaimed ==
  \A n \in Names : Exists(Queued(n)) ~> ~Exists(Queued(n))

\* A claimed file whose worker is gone and whose lease ends before MaxTime.
Abandoned(l) ==
  /\ Exists(l)
  /\ \A w \in Workers : at[w] # l
  /\ IF sidecar[l].state = "valid" THEN sidecar[l].exp < MaxTime
     ELSE fs[l].mtime + LeaseSeconds <= MaxTime

\* A recovered file that no recovery is about to report, no caller was given
\* and no worker works on.  No operation of the queue finds it again.
Stranded(l) ==
  /\ Exists(l) /\ l \notin returned
  /\ \A w \in Workers : at[w] # l
  /\ \A r \in Recoverers : l \notin found[r]

\* spec/06, "after the lease expires, any agent can reclaim the item": work of a
\* dead worker is finished in the end, unless a recovery that had moved it, or
\* the worker that took it over, died as well.
AbandonedEventuallyDone ==
  \A j \in Jobs :
    (\E l \in ClaimedLoc : fs[l].job = j /\ Abandoned(l)) ~>
      \/ InState(j, "done") \/ InState(j, "dead")
      \/ \E l \in RecoveredLoc : fs[l].job = j /\ Stranded(l)
=============================================================================
