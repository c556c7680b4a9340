------------------------------- MODULE EvStat -------------------------------
(***************************************************************************)
(* The stat watchers of src/ev.c on Linux: lstat, compared with what the   *)
(* last one returned, called by an internal timer or when inotify says so. *)
(* Other processes change the files between any two system calls, so the   *)
(* functions run in steps: todo is what the C stack still has to do, its   *)
(* first element next.  The system's side of inotify is modelled from how  *)
(* ev.c uses it: watches per inode, which end with the inode or by         *)
(* inotify_rm_watch, and a bounded queue of events.                        *)
(***************************************************************************)
EXTENDS Integers, Sequences, FiniteSets, SequencesExt

CONSTANTS
  StatWatchers,
  path,                \* ev_stat -> w->path
  Polled,              \* the paths not on a file system known to be local
  DIR,                 \* the directory of all paths, which stays
  INOTIFY,             \* the system has inotify
  EV_INOTIFY_HASHSIZE,
  NULL,
  KERNEL_QUEUE,        \* how many events the kernel queues
  MAX_WD,              \* bound: inotify_add_watch fails (ENOSPC) after this many
  MaxChanges, MaxCalls \* bounds: changes of files; starts, stops and forks

Paths == {path[w] : w \in StatWatchers}
Slots == 0 .. EV_INOTIFY_HASHSIZE - 1
Slot(wd) == wd % EV_INOTIFY_HASHSIZE

VARIABLES
  file,      \* Paths -> 0 if absent, else a version of the attributes (st_ino too)
  watches,   \* the kernel: wd -> <<path, inode>>, or NULL if the watch has ended
  kq,        \* the kernel: the queue of events [wd, mask]
  fs_fd,     \* "none" (-2), "failed" (-1) or "open"
  fs_hash,   \* Slots -> the chains of ev_stats
  wd,        \* ev_stat -> w->wd
  attr, prev,\* ev_stat -> [st, nlink]
  active,    \* the active ev_stats
  tactive,   \* the ev_stats whose internal timer is active
  repeat,    \* the ev_stats whose timer.repeat is not 0
  activecnt, \* the loop's references
  spending,  \* the ev_stats that are pending with EV_STAT
  todo,      \* the calls in progress
  blind,     \* ghost: the ev_stats that could not see a change (see Windows)
  changes, calls

stat_vars ==
  <<file, watches, kq, fs_fd, fs_hash, wd, attr, prev, active, tactive, repeat,
    activecnt, spending, todo, blind, changes, calls>>
kernel == <<file, watches, kq>>
timers == <<tactive, repeat, activecnt>>

StatInit ==
  /\ file = [p \in Paths |-> 1]
  /\ watches = <<>> /\ kq = <<>> /\ fs_fd = "none"
  /\ fs_hash = [s \in Slots |-> <<>>]
  /\ wd = [w \in StatWatchers |-> -2]
  /\ attr = [w \in StatWatchers |-> [st |-> 0, nlink |-> 0]] /\ prev = attr
  /\ active = {} /\ tactive = {} /\ repeat = {} /\ activecnt = 0
  /\ spending = {} /\ todo = <<>> /\ blind = {} /\ changes = 0 /\ calls = 0

-----------------------------------------------------------------------------
\* The kernel.  An event like the last one is merged with it; a full queue
\* ends in one overflow event and drops the rest.
Overflow == [wd |-> -1, mask |-> "overflow"]
Enqueue(queue, e) ==
  IF queue # <<>> /\ Last(queue) \in {e, Overflow} THEN queue
  ELSE Append(queue, IF Len(queue) = KERNEL_QUEUE - 1 THEN Overflow ELSE e)

\* Versions 1 and 2 of a file are of one inode, 3 is of another.
Ino(v) == (v + 1) \div 2
Watching(p, v) == IF p # DIR /\ v = 0 THEN {} ELSE {d \in DOMAIN watches : watches[d] = <<p, Ino(v)>>}
EventsFor(ds, mask) == {[wd |-> d, mask |-> mask] : d \in ds}

\* Whom a dropped event would have told that its watch has ended.
Dropped(queue, ds) ==
  IF Len(queue) >= KERNEL_QUEUE - 1 \/ (queue # <<>> /\ Last(queue) = Overflow)
  THEN {w \in StatWatchers : wd[w] \in ds} ELSE {}

\* What lstat leaves in a buffer if the path has version v.
Lstat(buf, v) == IF v = 0 THEN [buf EXCEPT !.nlink = 0] ELSE [st |-> v, nlink |-> 1]

\* The windows in which a change of a local file to v is missed: between the lstat
\* of ev_stat_start and infy_add, in infy_fork, and between an infy_add and the
\* lstat after it, when the inode that is watched leaves its path.
InTodo(ops, w) == \E i \in DOMAIN todo : todo[i].op \in ops /\ todo[i].w \in {w, NULL}
Windows(p, v) ==
  {w \in active : path[w] = p /\
     \/ InTodo({"start", "forkslot", "rearm"}, w)
     \/ /\ Ino(file[p]) # Ino(v)
        /\ \/ InTodo({"restat"}, w) /\ ~InTodo({"add"}, w)
           \/ todo # <<>> /\ attr[w] = Lstat(attr[w], v)}

\* Another process changes the attributes of p, or another inode or none takes
\* its place; the old inode ends or is moved elsewhere, from where it may return.
FileChanges(p) ==
  /\ changes < MaxChanges /\ changes' = changes + 1
  /\ \E v \in (0 .. 3) \ {file[p]} :
     \E ends \in IF file[p] = 0 \/ Ino(v) = Ino(file[p]) THEN {FALSE} ELSE BOOLEAN :
       LET old == Watching(p, file[p])
           new == Watching(p, v) \ old
           dir == IF Ino(v) = Ino(file[p]) THEN {} ELSE Watching(DIR, 0) IN
       /\ file' = [file EXCEPT ![p] = v]
       /\ watches' = [d \in DOMAIN watches |-> IF ends /\ d \in old THEN NULL ELSE watches[d]]
       /\ kq' = FoldLeft(Enqueue, kq, SetToSeq(EventsFor(dir \cup new, "changed"))
                                      \o SetToSeq(EventsFor(old, IF ends THEN "gone" ELSE "changed")))
       /\ blind' = blind \cup Windows(p, v)
                         \cup IF ends THEN Dropped(kq, old) ELSE {}
  /\ UNCHANGED <<fs_fd, fs_hash, wd, attr, prev, active, timers, spending, todo, calls>>

-----------------------------------------------------------------------------
\* ev_stat_stat
StatStat(w) == Lstat(attr[w], file[path[w]])

WlistDel(hash, s, w) == [hash EXCEPT ![s] = SelectSeq(@, LAMBDA x : x # w)]

\* ev_timer_again between the ev_ref and ev_unref that keep the internal
\* timer from counting.
TimerAgain(w, rep) ==
  LET ref == IF w \in tactive THEN 1 ELSE 0     \* before ev_timer_again
      started == IF rep THEN 1 ELSE 0           \* active after it
  IN
  /\ repeat' = IF rep THEN repeat \cup {w} ELSE repeat \ {w}
  /\ tactive' = IF rep THEN tactive \cup {w} ELSE tactive \ {w}
  /\ activecnt' = (activecnt + ref) + (started - ref) - started

\* inotify_add_watch: the watch of the inode, an old one or a new one, or -1.
AddWatch(p, v) ==
  IF Watching(p, v) # {} THEN CHOOSE d \in Watching(p, v) : TRUE
  ELSE IF Len(watches) < MAX_WD THEN Len(watches) + 1 ELSE -1

\* infy_add: watch the path, or else, if it is absent, its directory.  hash is
\* fs_hash without w.
InfyAdd(w, hash) ==
  LET v == file[path[w]]
      target == IF v # 0 THEN path[w] ELSE DIR
      d == AddWatch(target, v) IN
  /\ wd' = [wd EXCEPT ![w] = d]
  /\ watches' = IF d = Len(watches) + 1 THEN Append(watches, <<target, Ino(v)>>) ELSE watches
  /\ fs_hash' = IF d >= 0 THEN [hash EXCEPT ![Slot(d)] = <<w>> \o @] ELSE hash
  /\ TimerAgain(w, d < 0 \/ target = DIR \/ path[w] \in Polled)

\* The arguments of a call in progress.
Call(op, w, s, d, mask) == [op |-> op, w |-> w, slot |-> s, wd |-> d, mask |-> mask]
Do(op, w) == Call(op, w, 0, 0, "none")
Now == Head(todo)
Return == todo' = Tail(todo)
Then(seq) == todo' = seq \o Tail(todo)

\* infy_del before infy_add: the kernel tells the others that the watch ended.
InfyDel(w) ==
  /\ kq' = IF watches[wd[w]] # NULL THEN Enqueue(kq, [wd |-> wd[w], mask |-> "gone"]) ELSE kq
  /\ watches' = [watches EXCEPT ![wd[w]] = NULL]
  /\ fs_hash' = WlistDel(fs_hash, Slot(wd[w]), w)
  /\ blind' = blind \cup (IF watches[wd[w]] # NULL THEN Dropped(kq, {wd[w]}) \ {w} ELSE {})
  /\ wd' = [wd EXCEPT ![w] = -2]

-----------------------------------------------------------------------------
\* The steps of the calls in progress

\* stat_timer_cb up to the comparison.
DoStat ==
  LET w == Now.w IN
  /\ Now.op = "stat"
  /\ attr' = [attr EXCEPT ![w] = StatStat(w)]
  /\ IF attr'[w] = attr[w] THEN Return /\ UNCHANGED prev
     ELSE /\ prev' = [prev EXCEPT ![w] = attr[w]]
          /\ Then((IF fs_fd = "open" THEN <<Do("del", w), Do("add", w), Do("restat", w)>> ELSE <<>>)
                  \o <<Do("feed", w)>>)
  /\ UNCHANGED <<kernel, fs_fd, fs_hash, wd, active, timers, spending, blind,
                 changes, calls>>

DoDel ==
  /\ Now.op = "del" /\ Return
  /\ IF wd[Now.w] < 0 THEN UNCHANGED <<kq, watches, fs_hash, wd, blind>> ELSE InfyDel(Now.w)
  /\ UNCHANGED <<file, fs_fd, attr, prev, active, timers, spending, changes, calls>>

\* infy_add; for an ev_stat_start the last call.
DoAdd ==
  /\ Now.op \in {"add", "start"} /\ Return
  /\ InfyAdd(Now.w, fs_hash)
  /\ blind' = IF Now.op = "add" THEN blind \ {Now.w} ELSE blind
  /\ UNCHANGED <<file, kq, fs_fd, attr, prev, active, spending, changes, calls>>

\* "avoid race..."
DoRestat ==
  /\ Now.op = "restat" /\ Return
  /\ attr' = [attr EXCEPT ![Now.w] = StatStat(Now.w)]
  /\ UNCHANGED <<kernel, fs_fd, fs_hash, wd, prev, active, timers, spending, blind,
                 changes, calls>>

DoFeed ==
  /\ Now.op = "feed" /\ Return
  /\ spending' = spending \cup {Now.w}
  /\ UNCHANGED <<kernel, fs_fd, fs_hash, wd, attr, prev, active, timers, blind, changes, calls>>

\* infy_wd for one slot: handling a watcher changes no link of those after it.
DoSlot ==
  /\ Now.op = "slot"
  /\ Then([i \in DOMAIN fs_hash[Now.slot] |->
             Call("visit", fs_hash[Now.slot][i], Now.slot, Now.wd, Now.mask)])
  /\ UNCHANGED <<kernel, fs_fd, fs_hash, wd, attr, prev, active, timers, spending, blind,
                 changes, calls>>

\* Bug: the watch that ended is not made again.
RewatchForgets(w) == UNCHANGED <<watches, kq, fs_hash, wd, timers>>

\* The watch has ended: w leaves its chain and gets a new one.
Rewatch(w) == InfyAdd(w, WlistDel(fs_hash, Now.slot, w)) /\ UNCHANGED kq

DoVisit ==
  LET w == Now.w IN
  /\ Now.op = "visit"
  /\ IF wd[w] # Now.wd /\ Now.wd # -1
       THEN Return /\ UNCHANGED <<watches, kq, fs_hash, wd, timers>>
       ELSE /\ Then(<<Do("stat", w)>>)
            /\ IF Now.mask = "gone" THEN Rewatch(w)
               ELSE UNCHANGED <<watches, kq, fs_hash, wd, timers>>
  /\ UNCHANGED <<file, fs_fd, attr, prev, active, spending, blind, changes, calls>>

\* infy_fork, a slot and then its watchers.
DoForkSlot ==
  /\ Now.op = "forkslot"
  /\ fs_hash' = [fs_hash EXCEPT ![Now.slot] = <<>>]
  /\ Then([i \in DOMAIN fs_hash[Now.slot] |-> Do("rearm", fs_hash[Now.slot][i])])
  /\ UNCHANGED <<kernel, fs_fd, wd, attr, prev, active, timers, spending, blind, changes, calls>>

DoRearm ==
  /\ Now.op = "rearm" /\ Return
  /\ IF fs_fd = "open" THEN InfyAdd(Now.w, fs_hash)
     ELSE /\ wd' = [wd EXCEPT ![Now.w] = -1]
          /\ TimerAgain(Now.w, TRUE)
          /\ UNCHANGED <<watches, fs_hash>>
  /\ UNCHANGED <<file, kq, fs_fd, attr, prev, active, spending, blind, changes, calls>>

StatStep ==
  /\ todo # <<>>
  /\ \/ DoStat \/ DoDel \/ DoAdd \/ DoRestat \/ DoFeed
     \/ DoSlot \/ DoVisit \/ DoForkSlot \/ DoRearm

-----------------------------------------------------------------------------
\* What begins when no call is in progress

Calling == todo = <<>> /\ calls < MaxCalls /\ calls' = calls + 1

\* ev_stat_start with infy_init: fs_w does not count, the watcher does.
StatStart(w) ==
  /\ Calling /\ w \notin active
  /\ attr' = [attr EXCEPT ![w] = StatStat(w)]
  /\ fs_fd' = IF fs_fd # "none" THEN fs_fd ELSE IF INOTIFY THEN "open" ELSE "failed"
  /\ active' = active \cup {w}
  /\ blind' = blind \ {w}
  /\ IF fs_fd' = "open"
       THEN /\ todo' = <<Do("start", w)>> /\ activecnt' = activecnt + 1
            /\ repeat' = repeat \cup {w} /\ UNCHANGED tactive
       ELSE /\ tactive' = tactive \cup {w} /\ repeat' = repeat \cup {w}
            /\ activecnt' = (activecnt + 1 - 1) + 1
            /\ UNCHANGED todo
  /\ UNCHANGED <<kernel, fs_hash, wd, prev, spending, changes>>

\* Bug: the reference of the internal timer is not taken back.
StopUnbalanced(w) ==
  activecnt' = activecnt - 1 - IF w \in tactive THEN 1 ELSE 0

\* ev_ref if the internal timer is active, its stop, and ev_stop.
StopRefs(w) ==
  LET t == IF w \in tactive THEN 1 ELSE 0 IN activecnt' = activecnt + t - t - 1

StatStop(w) ==
  /\ Calling /\ w \in active
  /\ IF wd[w] < 0 THEN UNCHANGED <<kq, watches, fs_hash, wd, blind>> ELSE InfyDel(w)
  /\ StopRefs(w)
  /\ tactive' = tactive \ {w}
  /\ active' = active \ {w} /\ spending' = spending \ {w}
  /\ UNCHANGED <<file, fs_fd, attr, prev, repeat, todo, changes>>

\* loop_fork calls infy_fork: a new inotify descriptor, if one is to be had.
InfyFork ==
  /\ Calling /\ fs_fd = "open"
  /\ fs_fd' \in {"open", "failed"}
  /\ watches' = <<>> /\ kq' = <<>>
  /\ todo' = [i \in 1 .. EV_INOTIFY_HASHSIZE |-> Call("forkslot", NULL, i - 1, 0, "none")]
  /\ blind' = blind \cup {w \in active : attr[w] # StatStat(w)}
  /\ UNCHANGED <<file, fs_hash, wd, attr, prev, active, timers, spending, changes>>

\* infy_cb reads what is queued and goes through the events.
EventCalls(e) ==
  IF e.wd < 0 THEN [i \in 1 .. EV_INOTIFY_HASHSIZE |-> Call("slot", NULL, i - 1, e.wd, e.mask)]
  ELSE <<Call("slot", NULL, Slot(e.wd), e.wd, e.mask)>>
InfyCb ==
  /\ todo = <<>> /\ fs_fd = "open" /\ kq # <<>>
  /\ kq' = <<>>
  /\ todo' = FlattenSeq([i \in DOMAIN kq |-> EventCalls(kq[i])])
  /\ UNCHANGED <<file, watches, fs_fd, fs_hash, wd, attr, prev, active, timers, spending, blind,
                 changes, calls>>

\* The internal timer expires (and repeats).
StatTimer(w) ==
  /\ todo = <<>> /\ w \in tactive
  /\ attr[w] # StatStat(w)     \* else stat_timer_cb changes nothing
  /\ todo' = <<Do("stat", w)>>
  /\ UNCHANGED <<kernel, fs_fd, fs_hash, wd, attr, prev, active, timers, spending, blind,
                 changes, calls>>

\* The user's callback.
StatInvoke(w) ==
  /\ todo = <<>> /\ w \in spending
  /\ spending' = spending \ {w}
  /\ UNCHANGED <<kernel, fs_fd, fs_hash, wd, attr, prev, active, timers, todo, blind,
                 changes, calls>>

StatNext ==
  \/ StatStep \/ InfyCb \/ InfyFork
  \/ \E w \in StatWatchers : StatStart(w) \/ StatStop(w) \/ StatTimer(w) \/ StatInvoke(w)
  \/ \E p \in Paths : FileChanges(p)

StatSpec == StatInit /\ [][StatNext]_stat_vars

-----------------------------------------------------------------------------
(***************************************************************************)
(* Between calls every watcher that has a watch descriptor is in the chain *)
(* of that descriptor, once, and in no other; one without is in none.      *)
(* infy_wd, infy_fork and stat_timer_cb all move watchers between chains   *)
(* they are going through.                                                 *)
(***************************************************************************)
ChainsMatch ==
  todo = <<>> =>
    \A w \in StatWatchers, s \in Slots :
      Cardinality({i \in DOMAIN fs_hash[s] : fs_hash[s][i] = w}) =
        IF w \in active /\ wd[w] >= 0 /\ Slot(wd[w]) = s THEN 1 ELSE 0

(***************************************************************************)
(* The internal timers and fs_w never keep ev_run alive, nor do they let   *)
(* it end early: the references are the active stat watchers.              *)
(***************************************************************************)
OnlyUsersCount == activecnt = Cardinality(active)

(***************************************************************************)
(* No change is missed: when an active watcher's attributes are not those  *)
(* of the file, its timer will look or an event that makes it look is on   *)
(* its way.  Excluded are the windows of `blind', in which a change of a   *)
(* file that is not polled is missed.                                      *)
(***************************************************************************)
ChangeNoticed ==
  todo = <<>> =>
    \A w \in active \ blind :
      attr[w] # StatStat(w) =>
        w \in tactive \/ \E i \in DOMAIN kq : kq[i].wd \in {wd[w], -1}

(***************************************************************************)
(* Watchers of one path end each other's watch when they see a change, and *)
(* a watch that ended is made again: they do not chase one another, every  *)
(* change and every call costs at most one inotify_add_watch of a watcher. *)
(***************************************************************************)
NoChase == Len(watches) <= Cardinality(StatWatchers) * (changes + calls)

(***************************************************************************)
(* "we only update w->prev on actual differences ... to ensure that prev   *)
(* is always different to attr" (ev.c:5010-5012), as the callback finds    *)
(* them.                                                                   *)
(***************************************************************************)
PrevDiffers == \A w \in spending : todo = <<>> => prev[w] # attr[w]
=============================================================================
