--------------------------- MODULE EvEpollProofs ---------------------------
(***************************************************************************)
(* EvEpoll for any number of fds, files and watchers.                      *)
(***************************************************************************)
EXTENDS EvEpoll, SequenceTheorems, FiniteSetTheorems, TLAPS

\* Files: an open file has no second descriptor in Fds, a closed number no
\* watchers, and the kernel keeps registrations of open files only
FilesInv ==
  /\ \A fd, gd \in Fds : file[fd] = file[gd] /\ fd # gd => file[fd] = NoFile
  /\ \A fd \in Fds : file[fd] = NoFile => HeadOf(fd) = {}
  /\ \A r \in interest : IsOpen(r.file) /\ r.file \notin EpermFiles /\ r.mask # {}

\* What the kernel reported comes from its registrations, and is handled before
\* anything else happens
ReportsInv ==
  /\ phase # "gather" => reports = {}
  /\ \A e \in reports : /\ e.reg.mask # {} /\ e.got # {}
                        /\ e.got \subseteq e.reg.mask \/ e.got = EV_RW

\* The changes queued, as they are done by fd_reify
ChangesInv ==
  /\ ChangesMatch
  /\ ~failed => /\ phase = "reify" => changecnt = Len(fdchanges)
                /\ phase \in {"poll", "gather"} => fdchanges = <<>>

\* A registration of fd, in the kernel or in a report
RegsOf(fd) == {r \in interest \cup {e.reg : e \in reports} : r.fd = fd}

\* Generations: an fd's registration for its file has the generation libev
\* believes in, no registration a later one, and one generation stands for one
\* file
GenerationsInv ==
  /\ \A fd \in Fds : \A r \in RegOf(fd) :
       r.egen = anfds[fd].egen /\ anfds[fd].emask \in {{}, r.mask}
  /\ \A fd \in Fds : \A r \in RegsOf(fd) :
       /\ r.egen <= anfds[fd].egen
       /\ \A s \in RegsOf(fd) : r.egen = s.egen => r.file = s.file
  /\ \A r \in unwanted : r.egen <= anfds[r.fd].egen
  /\ \A fd \in Fds : "EV_EMASK_EPERM" \in anfds[fd].emask =>
       fd \in epoll_eperms /\ \A r \in RegsOf(fd) : r.egen < anfds[fd].egen

\* What fd_reify would not do again needs not be done again
SettledInv ==
  /\ \A fd \in Fds : anfds[fd].reify = {} => anfds[fd].events = Wanted(fd)
  /\ ~failed => \A fd \in Fds :
       anfds[fd].events # {} /\ "EV__IOFDSET" \notin anfds[fd].reify =>
         \/ \E r \in RegOf(fd) : anfds[fd].events \subseteq r.mask
         \/ file[fd] \in EpermFiles /\ "EV_EMASK_EPERM" \in anfds[fd].emask
         \/ /\ HeadOf(fd) = {}
            /\ file[fd] = NoFile \/ \A w \in Watchers : Fd[w] = fd => w \in iofdset

\* What reported in vain does not do so again
UnwantedInv ==
  \/ postfork /\ phase \notin {"reify", "poll"}
  \/ /\ unwanted \cap interest = {}
     /\ phase = "gather" => \A r \in unwanted : r.mask # anfds[r.fd].events

EpollInv ==
  TypeOK /\ FilesInv /\ ReportsInv /\ ChangesInv /\ GenerationsInv /\ SettledInv /\ UnwantedInv

-----------------------------------------------------------------------------
\* fdchanges as a sequence without repetitions

\* SetToSeq lists the elements of a finite set, each once
LEMMA SetToSeqIs ==
  ASSUME NEW S, IsFiniteSet(S)
  PROVE  /\ SetToSeq(S) \in Seq(S) /\ IsInjective(SetToSeq(S))
         /\ \A x \in S : \E i \in 1 .. Len(SetToSeq(S)) : SetToSeq(S)[i] = x
<1> DEFINE n == Cardinality(S)
           l == SetToSeq(S)
<1>1. n \in Nat /\ ExistsBijection(1 .. n, S)
  BY FS_CardinalityType
<1>2. PICK f : f \in Bijection(1 .. n, S)
  BY <1>1 DEF ExistsBijection
<1>3. f \in [1 .. n -> S] /\ IsInjective(f)
  BY <1>2 DEF Bijection, Injection
<1>4. l \in [1 .. n -> S] /\ IsInjective(l)
  BY <1>3 DEF SetToSeq
<1>5. l \in Injection(1 .. n, S)
  BY <1>4 DEF Injection
<1>6. IsFiniteSet(1 .. n) /\ Cardinality(1 .. n) = n
  BY <1>1, FS_Interval
<1>7. l \in Surjection(1 .. n, S)
  BY <1>5, <1>6, FS_Injection
<1>8. \A x \in S : \E i \in 1 .. n : l[i] = x
  BY <1>7 DEF Surjection
<1> HIDE DEF l
<1>9. l \in Seq(S) /\ Len(l) = n
  BY <1>1, <1>4
<1> QED BY <1>4, <1>8, <1>9 DEF l

\* The sequence s lists the elements of S, each once
Lists(s, S) ==
  /\ s \in Seq(Fds) /\ Len(s) \in Nat
  /\ \A i, j \in 1 .. Len(s) : s[i] = s[j] => i = j
  /\ \A x : x \in S <=> \E i \in 1 .. Len(s) : s[i] = x

LEMMA ListsSet ==
  ASSUME NEW S, S \subseteq Fds PROVE Lists(SetToSeq(S), S)
<1>1. IsFiniteSet(S)
  BY EpollAssumption, FS_Subset
<1>2. /\ SetToSeq(S) \in Seq(S) /\ IsInjective(SetToSeq(S))
      /\ \A x \in S : \E i \in 1 .. Len(SetToSeq(S)) : SetToSeq(S)[i] = x
  BY <1>1, SetToSeqIs
<1> DEFINE l == SetToSeq(S)
<1> HIDE DEF l
<1>3. l \in Seq(S) /\ \A i, j \in DOMAIN l : l[i] = l[j] => i = j
  BY <1>2 DEF IsInjective, l
<1>4. l \in Seq(Fds) /\ Len(l) \in Nat /\ DOMAIN l = 1 .. Len(l)
      /\ \A i \in 1 .. Len(l) : l[i] \in S
  BY <1>3
<1>5. \A x \in S : \E i \in 1 .. Len(l) : l[i] = x
  BY <1>2 DEF l
<1> QED BY <1>3, <1>4, <1>5 DEF Lists, l

LEMMA ListsMore ==
  ASSUME NEW s, NEW S, Lists(s, S), NEW t, NEW T, Lists(t, T), S \cap T = {}
  PROVE  Lists(s \o t, S \cup T)
<1> DEFINE u == s \o t
<1>1. /\ u \in Seq(Fds) /\ Len(u) = Len(s) + Len(t)
      /\ \A i \in 1 .. Len(u) : u[i] = IF i <= Len(s) THEN s[i] ELSE t[i - Len(s)]
  BY DEF Lists
<1> HIDE DEF u
<1>2. ASSUME NEW i \in 1 .. Len(u)
      PROVE  \/ i \in 1 .. Len(s) /\ u[i] = s[i] /\ u[i] \in S
             \/ i - Len(s) \in 1 .. Len(t) /\ u[i] = t[i - Len(s)] /\ u[i] \in T
  <2>1. CASE i <= Len(s)
    BY <1>1, <2>1 DEF Lists
  <2>2. CASE i > Len(s)
    BY <1>1, <2>2 DEF Lists
  <2> QED BY <2>1, <2>2, <1>1 DEF Lists
<1>3. ASSUME NEW i \in 1 .. Len(u), NEW j \in 1 .. Len(u), u[i] = u[j] PROVE i = j
  <2>1. CASE u[i] \in S
    <3>1. i \in 1 .. Len(s) /\ u[i] = s[i] /\ j \in 1 .. Len(s) /\ u[j] = s[j]
      BY <1>2, <1>3, <2>1
    <3> QED BY <1>3, <3>1 DEF Lists
  <2>2. CASE u[i] \in T
    <3>1. /\ i - Len(s) \in 1 .. Len(t) /\ u[i] = t[i - Len(s)]
          /\ j - Len(s) \in 1 .. Len(t) /\ u[j] = t[j - Len(s)]
      BY <1>2, <1>3, <2>2
    <3>2. i - Len(s) = j - Len(s)
      BY <1>3, <3>1 DEF Lists
    <3> QED BY <3>2 DEF Lists
  <2> QED BY <1>2, <2>1, <2>2
<1>4. ASSUME NEW x \in S PROVE \E i \in 1 .. Len(u) : u[i] = x
  <2>1. PICK i \in 1 .. Len(s) : s[i] = x
    BY DEF Lists
  <2>2. i \in 1 .. Len(u) /\ u[i] = x
    BY <1>1, <2>1 DEF Lists
  <2> QED BY <2>2
<1>5. ASSUME NEW x \in T PROVE \E i \in 1 .. Len(u) : u[i] = x
  <2>1. PICK i \in 1 .. Len(t) : t[i] = x
    BY DEF Lists
  <2>2. Len(s) \in Nat /\ Len(t) \in Nat
    BY DEF Lists
  <2>3. i + Len(s) \in 1 .. Len(u) /\ ~(i + Len(s) <= Len(s)) /\ (i + Len(s)) - Len(s) = i
    BY <1>1, <2>2
  <2>4. u[i + Len(s)] = t[(i + Len(s)) - Len(s)]
    BY <1>1, <2>3
  <2> QED BY <2>1, <2>3, <2>4
<1> QED BY <1>1, <1>2, <1>3, <1>4, <1>5 DEF Lists, u

LEMMA ListsTail ==
  ASSUME NEW s, NEW S, Lists(s, S), s # <<>>
  PROVE  /\ Head(s) \in S /\ Head(s) \in Fds
         /\ Lists(Tail(s), S \ {Head(s)}) /\ Len(Tail(s)) = Len(s) - 1
<1> DEFINE u == Tail(s)
<1>1. /\ u \in Seq(Fds) /\ Len(u) = Len(s) - 1 /\ Len(s) >= 1 /\ Head(s) = s[1]
      /\ \A i \in 1 .. Len(u) : u[i] = s[i + 1]
      /\ s[1] \in Fds
  BY DEF Lists
<1> HIDE DEF u
<1>2. \A i, j \in 1 .. Len(u) : u[i] = u[j] => i = j
  BY <1>1 DEF Lists
<1>3. ASSUME NEW i \in 1 .. Len(u) PROVE u[i] \in S /\ u[i] # s[1]
  <2>1. i + 1 \in 1 .. Len(s) /\ 1 \in 1 .. Len(s) /\ i + 1 # 1 /\ u[i] = s[i + 1]
    BY <1>1 DEF Lists
  <2> QED BY <2>1 DEF Lists
<1>4. ASSUME NEW x \in S, x # s[1] PROVE \E i \in 1 .. Len(u) : u[i] = x
  <2>1. PICK j \in 1 .. Len(s) : s[j] = x
    BY DEF Lists
  <2>2. j - 1 \in 1 .. Len(u) /\ u[j - 1] = x
    BY <1>1, <1>4, <2>1 DEF Lists
  <2> QED BY <2>2
<1>5. s[1] \in S
  BY <1>1 DEF Lists
<1> QED BY <1>1, <1>2, <1>3, <1>4, <1>5 DEF Lists, u

LEMMA ListsOne ==
  ASSUME NEW x \in Fds PROVE Lists(<<x>>, {x})
BY DEF Lists

\* Lists says of a sequence of fds what ChangesMatch does
LEMMA ListsIs ==
  ASSUME NEW s \in Seq(Fds), NEW S \in SUBSET Fds
  PROVE  Lists(s, S) <=> IsInjective(s) /\ \A fd \in Fds : fd \in ToSet(s) <=> fd \in S
<1>1. /\ Len(s) \in Nat /\ DOMAIN s = 1 .. Len(s)
      /\ \A i \in 1 .. Len(s) : s[i] \in Fds
  OBVIOUS
<1>2. \A x : x \in ToSet(s) <=> \E i \in 1 .. Len(s) : s[i] = x
  BY <1>1 DEF ToSet
<1>3. IsInjective(s) <=> \A i, j \in 1 .. Len(s) : s[i] = s[j] => i = j
  BY <1>1 DEF IsInjective
<1> QED BY <1>1, <1>2, <1>3 DEF Lists

\* The fds that have a change queued
Changed == {fd \in Fds : anfds[fd].reify # {}}

LEMMA ChangesListed ==
  ASSUME fdchanges \in Seq(Fds) PROVE ChangesMatch <=> Lists(fdchanges, Changed)
<1>1. Changed \in SUBSET Fds /\ \A fd \in Fds : fd \in Changed <=> anfds[fd].reify # {}
  BY DEF Changed
<1> QED BY <1>1, ListsIs DEF ChangesMatch

LEMMA FdChangeLists ==
  ASSUME TypeOK, ChangesMatch, NEW fds \in SUBSET Fds, FdChange(fds)
  PROVE  /\ fdchanges' \in Seq(Fds) /\ Lists(fdchanges', Changed \cup fds)
         /\ Len(fdchanges') \in Nat /\ Len(fdchanges) <= Len(fdchanges')
<1> DEFINE more == {fd \in fds : anfds[fd].reify = {}}
<1>1. Lists(fdchanges, Changed)
  BY ChangesListed DEF TypeOK
<1>2. Lists(SetToSeq(more), more)
  BY ListsSet
<1>3. fdchanges' = fdchanges \o SetToSeq(more)
  BY DEF FdChange
<1>4. Changed \cap more = {} /\ Changed \cup more = Changed \cup fds
  BY DEF Changed
<1> HIDE DEF more
<1>5. Lists(fdchanges \o SetToSeq(more), Changed \cup more)
  BY <1>1, <1>2, <1>4, ListsMore
<1>6. Len(fdchanges') = Len(fdchanges) + Len(SetToSeq(more))
      /\ Len(fdchanges) \in Nat /\ Len(SetToSeq(more)) \in Nat
  BY <1>1, <1>2, <1>3 DEF Lists
<1> QED BY <1>3, <1>4, <1>5, <1>6 DEF Lists

-----------------------------------------------------------------------------
\* What a step that leaves events, emask and egen alone keeps
SameMasks ==
  /\ \A fd \in Fds : /\ anfds'[fd].events = anfds[fd].events
                     /\ anfds'[fd].emask = anfds[fd].emask
                     /\ anfds'[fd].egen = anfds[fd].egen
  /\ epoll_eperms' = epoll_eperms /\ unwanted' = unwanted

LEMMA GenerationsKept ==
  ASSUME TypeOK, GenerationsInv, SameMasks,
         \A fd \in Fds : RegOf(fd)' \subseteq RegOf(fd) /\ RegsOf(fd)' \subseteq RegsOf(fd)
  PROVE  GenerationsInv'
<1>1. \A fd \in Fds : \A r \in RegOf(fd)' :
        r.egen = anfds'[fd].egen /\ anfds'[fd].emask \in {{}, r.mask}
  BY DEF GenerationsInv, SameMasks
<1>2. \A fd \in Fds : \A r \in RegsOf(fd)' :
        /\ r.egen <= anfds'[fd].egen
        /\ \A s \in RegsOf(fd)' : r.egen = s.egen => r.file = s.file
  BY DEF GenerationsInv, SameMasks
<1>3. \A r \in unwanted' : r.egen <= anfds'[r.fd].egen
  <2>1. \A r \in unwanted : r.fd \in Fds
    BY DEF TypeOK, Registration
  <2> QED BY <2>1 DEF GenerationsInv, SameMasks
<1>4. \A fd \in Fds : "EV_EMASK_EPERM" \in anfds'[fd].emask =>
        fd \in epoll_eperms' /\ \A r \in RegsOf(fd)' : r.egen < anfds'[fd].egen
  BY DEF GenerationsInv, SameMasks
<1> QED BY <1>1, <1>2, <1>3, <1>4 DEF GenerationsInv

LEMMA UnwantedKept ==
  ASSUME TypeOK, UnwantedInv, SameMasks, interest' \subseteq interest,
         postfork' = postfork, phase' = phase
  PROVE  UnwantedInv'
<1>1. \A r \in unwanted : r.fd \in Fds
  BY DEF TypeOK, Registration
<1> QED BY <1>1 DEF UnwantedInv, SameMasks

LEMMA InitEpollInv ==
  Init => EpollInv
<1> SUFFICES ASSUME Init PROVE EpollInv
  OBVIOUS
<1> USE DEF Init
<1>1. TypeOK
  <2>1. anfds \in [Fds -> ANFD]
    BY DEF ANFD, Masks
  <2>2. file \in [Fds -> Files \cup {NoFile}] /\ iofdset \subseteq Watchers
        /\ pend \in [Watchers -> SUBSET (EV_RW \cup {"EV_ERROR"})]
    OBVIOUS
  <2>3. fdchanges \in Seq(Fds) /\ changecnt \in 0 .. Len(fdchanges)
    OBVIOUS
  <2> QED BY <2>1, <2>2, <2>3 DEF TypeOK
<1>2. FilesInv
  BY DEF FilesInv, HeadOf
<1>3. ReportsInv
  BY DEF ReportsInv
<1>4. ChangesInv
  BY DEF ChangesInv, ChangesMatch, IsInjective, ToSet
<1>5. GenerationsInv
  BY DEF GenerationsInv, RegOf, RegsOf
<1>6. SettledInv
  BY DEF SettledInv, Wanted, HeadOf
<1>7. UnwantedInv
  BY DEF UnwantedInv
<1> QED BY <1>1, <1>2, <1>3, <1>4, <1>5, <1>6, <1>7 DEF EpollInv

LEMMA EvIoSetEpollInv ==
  ASSUME EpollInv, NEW w \in Watchers, EvIoSet(w) PROVE EpollInv'
<1> USE DEF EpollInv, EvIoSet, kvars, avars, lvars
<1>1. TypeOK'
  BY EpollAssumption DEF TypeOK
<1>2. FilesInv'
  BY EpollAssumption DEF TypeOK, FilesInv, HeadOf, IsOpen, Registration
<1>3. ReportsInv'
  BY DEF ReportsInv
<1>4. ChangesInv'
  BY DEF ChangesInv, ChangesMatch
<1>5. GenerationsInv'
  <2>1. \A fd \in Fds : RegOf(fd)' = RegOf(fd) /\ RegsOf(fd)' = RegsOf(fd)
    BY DEF RegOf, RegsOf
  <2> QED BY <2>1, GenerationsKept DEF SameMasks
<1>6. SettledInv'
  <2>1. /\ \A fd \in Fds : HeadOf(fd)' = HeadOf(fd) /\ Wanted(fd)' = Wanted(fd)
        /\ \A fd \in Fds : RegOf(fd)' = RegOf(fd)
    BY DEF HeadOf, Wanted, RegOf
  <2>2. iofdset \subseteq iofdset' /\ UNCHANGED <<file, anfds, failed>>
    OBVIOUS
  <2> HIDE DEF EvIoSet
  <2> QED BY <2>1, <2>2 DEF SettledInv
<1>7. UnwantedInv'
  BY DEF TypeOK, UnwantedInv
<1> QED BY <1>1, <1>2, <1>3, <1>4, <1>5, <1>6, <1>7

LEMMA OpenEpollInv ==
  ASSUME EpollInv, NEW fd \in Fds, Open(fd) PROVE EpollInv'
<1> USE DEF EpollInv, Open, kvars, avars, lvars
<1>1. TypeOK'
  BY EpollAssumption DEF TypeOK
<1>2. FilesInv'
  BY EpollAssumption DEF TypeOK, FilesInv, HeadOf, IsOpen, Registration
<1>3. ReportsInv'
  BY DEF ReportsInv
<1>4. ChangesInv'
  BY DEF ChangesInv, ChangesMatch
<1>5. GenerationsInv'
  <2>1. PICK f \in Files : ~IsOpen(f) /\ file' = [file EXCEPT ![fd] = f]
    OBVIOUS
  <2>2. \A r \in interest : r.file # f
    BY <2>1 DEF FilesInv
  <2>3. \A gd \in Fds : RegOf(gd)' \subseteq RegOf(gd) /\ RegsOf(gd)' = RegsOf(gd)
    BY <2>1, <2>2 DEF TypeOK, RegOf, RegsOf
  <2> QED BY <2>3, GenerationsKept DEF SameMasks
<1>6. SettledInv'
  <2>1. \A gd \in Fds : HeadOf(gd)' = HeadOf(gd) /\ Wanted(gd)' = Wanted(gd)
    BY DEF HeadOf, Wanted
  <2>2. PICK f \in Files : file' = [file EXCEPT ![fd] = f]
    OBVIOUS
  <2>3. \A gd \in Fds : gd # fd => file'[gd] = file[gd] /\ RegOf(gd)' = RegOf(gd)
    BY <2>2 DEF TypeOK, RegOf
  <2>4. RegOf(fd) = {} /\ HeadOf(fd) = {} /\ file[fd] \notin EpermFiles
    BY EpollAssumption DEF TypeOK, RegOf, Registration, FilesInv
  <2>5. /\ iofdset \subseteq iofdset' /\ anfds' = anfds /\ failed' = failed
        /\ \A w \in Watchers : Fd[w] = fd => w \in iofdset'
    OBVIOUS
  <2>6. \A gd \in Fds : anfds'[gd].reify = {} => anfds'[gd].events = Wanted(gd)'
    BY <2>1, <2>5 DEF SettledInv
  <2> HIDE DEF Open
  <2> QED BY <2>1, <2>3, <2>4, <2>5, <2>6 DEF SettledInv
<1>7. UnwantedInv'
  BY DEF TypeOK, UnwantedInv
<1> QED BY <1>1, <1>2, <1>3, <1>4, <1>5, <1>6, <1>7

LEMMA CloseEpollInv ==
  ASSUME EpollInv, NEW fd \in Fds, Close(fd) PROVE EpollInv'
<1> USE DEF EpollInv, Close, kvars, avars, lvars
<1>1. TypeOK'
  BY EpollAssumption DEF TypeOK
<1>2. FilesInv'
  BY EpollAssumption DEF TypeOK, FilesInv, HeadOf, IsOpen, Registration
<1>3. ReportsInv'
  BY DEF ReportsInv
<1>4. ChangesInv'
  BY DEF ChangesInv, ChangesMatch
<1>5. GenerationsInv'
  <2>1. interest' \subseteq interest /\ reports' = reports
    OBVIOUS
  <2>2. \A r \in interest : r.file # NoFile
    BY EpollAssumption DEF TypeOK, Registration
  <2>3. \A gd \in Fds : RegOf(gd)' \subseteq RegOf(gd) /\ RegsOf(gd)' \subseteq RegsOf(gd)
    BY <2>1, <2>2 DEF TypeOK, RegOf, RegsOf, Registration
  <2> QED BY <2>3, GenerationsKept DEF SameMasks
<1>6. SettledInv'
  <2>1. \A gd \in Fds : HeadOf(gd)' = HeadOf(gd) /\ Wanted(gd)' = Wanted(gd)
    BY DEF HeadOf, Wanted
  <2>2. \A gd \in Fds : gd # fd => file'[gd] = file[gd]
    BY DEF TypeOK
  <2>3. \A gd \in Fds : gd # fd => RegOf(gd)' = RegOf(gd)
    BY <2>2 DEF RegOf, FilesInv
  <2>4. HeadOf(fd)' = {} /\ file'[fd] = NoFile /\ UNCHANGED <<anfds, iofdset, failed>>
    BY <2>1 DEF TypeOK
  <2>5. \A gd \in Fds : anfds'[gd].reify = {} => anfds'[gd].events = Wanted(gd)'
    BY <2>1, <2>4 DEF SettledInv
  <2> HIDE DEF Close
  <2> QED BY <2>1, <2>2, <2>3, <2>4, <2>5 DEF SettledInv
<1>7. UnwantedInv'
  BY DEF TypeOK, UnwantedInv
<1> QED BY <1>1, <1>2, <1>3, <1>4, <1>5, <1>6, <1>7

LEMMA DupEpollInv ==
  ASSUME EpollInv, NEW fd \in Fds, Dup(fd) PROVE EpollInv'
<1> USE DEF EpollInv, Dup, kvars, avars, lvars
<1>1. TypeOK'
  BY EpollAssumption DEF TypeOK
<1>2. FilesInv'
  BY EpollAssumption DEF TypeOK, FilesInv, HeadOf, IsOpen, Registration
<1>3. ReportsInv'
  BY DEF ReportsInv
<1>4. ChangesInv'
  BY DEF ChangesInv, ChangesMatch
<1>5. GenerationsInv'
  <2>1. \A gd \in Fds : RegOf(gd)' = RegOf(gd) /\ RegsOf(gd)' = RegsOf(gd)
    BY DEF RegOf, RegsOf
  <2> QED BY <2>1, GenerationsKept DEF SameMasks
<1>6. SettledInv'
  <2>1. /\ \A gd \in Fds : HeadOf(gd)' = HeadOf(gd) /\ Wanted(gd)' = Wanted(gd)
        /\ \A gd \in Fds : RegOf(gd)' = RegOf(gd)
    BY DEF HeadOf, Wanted, RegOf
  <2> QED BY <2>1 DEF SettledInv
<1>7. UnwantedInv'
  BY DEF TypeOK, UnwantedInv
<1> QED BY <1>1, <1>2, <1>3, <1>4, <1>5, <1>6, <1>7

LEMMA CloseOtherEpollInv ==
  ASSUME EpollInv, NEW f \in Files, CloseOther(f) PROVE EpollInv'
<1> USE DEF EpollInv, CloseOther, kvars, avars, lvars
<1>1. TypeOK'
  BY EpollAssumption DEF TypeOK
<1>2. FilesInv'
  BY EpollAssumption DEF TypeOK, FilesInv, HeadOf, IsOpen, Registration
<1>3. ReportsInv'
  BY DEF ReportsInv
<1>4. ChangesInv'
  BY DEF ChangesInv, ChangesMatch
<1>5. GenerationsInv'
  <2>1. interest' \subseteq interest /\ reports' = reports
    OBVIOUS
  <2>3. \A gd \in Fds : RegOf(gd)' \subseteq RegOf(gd) /\ RegsOf(gd)' \subseteq RegsOf(gd)
    BY <2>1 DEF TypeOK, RegOf, RegsOf, Registration
  <2> QED BY <2>3, GenerationsKept DEF SameMasks
<1>6. SettledInv'
  <2>1. \A gd \in Fds : HeadOf(gd)' = HeadOf(gd) /\ Wanted(gd)' = Wanted(gd)
    BY DEF HeadOf, Wanted
  <2>2. \A gd \in Fds : RegOf(gd)' = RegOf(gd)
    BY DEF RegOf
  <2> QED BY <2>1, <2>2 DEF SettledInv
<1>7. UnwantedInv'
  BY DEF TypeOK, UnwantedInv
<1> QED BY <1>1, <1>2, <1>3, <1>4, <1>5, <1>6, <1>7

LEMMA EvLoopForkEpollInv ==
  ASSUME EpollInv, EvLoopFork PROVE EpollInv'
<1> USE DEF EpollInv, EvLoopFork, kvars, avars, lvars
<1>1. TypeOK'
  BY EpollAssumption DEF TypeOK
<1>2. FilesInv'
  BY EpollAssumption DEF TypeOK, FilesInv, HeadOf, IsOpen, Registration
<1>3. ReportsInv'
  BY DEF ReportsInv
<1>4. ChangesInv'
  BY DEF ChangesInv, ChangesMatch
<1>5. GenerationsInv'
  <2>1. \A fd \in Fds : RegOf(fd)' = RegOf(fd) /\ RegsOf(fd)' = RegsOf(fd)
    BY DEF RegOf, RegsOf
  <2> QED BY <2>1, GenerationsKept DEF SameMasks
<1>6. SettledInv'
  <2>1. /\ \A fd \in Fds : HeadOf(fd)' = HeadOf(fd) /\ Wanted(fd)' = Wanted(fd)
        /\ \A fd \in Fds : RegOf(fd)' = RegOf(fd)
    BY DEF HeadOf, Wanted, RegOf
  <2> QED BY <2>1 DEF SettledInv
<1>7. UnwantedInv'
  BY DEF TypeOK, UnwantedInv
<1> QED BY <1>1, <1>2, <1>3, <1>4, <1>5, <1>6, <1>7

LEMMA InvokeEpollInv ==
  ASSUME EpollInv, NEW w \in Watchers, Invoke(w) PROVE EpollInv'
<1> USE DEF EpollInv, Invoke, kvars, avars, lvars
<1>1. TypeOK'
  BY EpollAssumption DEF TypeOK
<1>2. FilesInv'
  BY EpollAssumption DEF TypeOK, FilesInv, HeadOf, IsOpen, Registration
<1>3. ReportsInv'
  BY DEF ReportsInv
<1>4. ChangesInv'
  BY DEF ChangesInv, ChangesMatch
<1>5. GenerationsInv'
  <2>1. \A fd \in Fds : RegOf(fd)' = RegOf(fd) /\ RegsOf(fd)' = RegsOf(fd)
    BY DEF RegOf, RegsOf
  <2> QED BY <2>1, GenerationsKept DEF SameMasks
<1>6. SettledInv'
  <2>1. /\ \A fd \in Fds : HeadOf(fd)' = HeadOf(fd) /\ Wanted(fd)' = Wanted(fd)
        /\ \A fd \in Fds : RegOf(fd)' = RegOf(fd)
    BY DEF HeadOf, Wanted, RegOf
  <2> QED BY <2>1 DEF SettledInv
<1>7. UnwantedInv'
  BY DEF TypeOK, UnwantedInv
<1> QED BY <1>1, <1>2, <1>3, <1>4, <1>5, <1>6, <1>7

LEMMA IterateEpollInv ==
  ASSUME EpollInv, Iterate PROVE EpollInv'
<1> USE DEF EpollInv, Iterate, kvars, avars, lvars
<1>1. TypeOK'
  BY EpollAssumption DEF TypeOK
<1>2. FilesInv'
  BY EpollAssumption DEF TypeOK, FilesInv, HeadOf, IsOpen, Registration
<1>3. ReportsInv'
  BY DEF ReportsInv
<1>4. ChangesInv'
  BY DEF ChangesInv, ChangesMatch
<1>5. GenerationsInv'
  <2>1. \A fd \in Fds : RegOf(fd)' = RegOf(fd) /\ RegsOf(fd)' = RegsOf(fd)
    BY DEF RegOf, RegsOf
  <2> QED BY <2>1, GenerationsKept DEF SameMasks
<1>6. SettledInv'
  <2>1. /\ \A fd \in Fds : HeadOf(fd)' = HeadOf(fd) /\ Wanted(fd)' = Wanted(fd)
        /\ \A fd \in Fds : RegOf(fd)' = RegOf(fd)
    BY DEF HeadOf, Wanted, RegOf
  <2> QED BY <2>1 DEF SettledInv
<1>7. UnwantedInv'
  BY DEF TypeOK, UnwantedInv
<1> QED BY <1>1, <1>2, <1>3, <1>4, <1>5, <1>6, <1>7

LEMMA FdReifiedEpollInv ==
  ASSUME EpollInv, FdReified PROVE EpollInv'
<1> USE DEF EpollInv, FdReified, kvars, avars, lvars
<1>1. TypeOK'
  BY EpollAssumption DEF TypeOK
<1>2. FilesInv'
  BY EpollAssumption DEF TypeOK, FilesInv, HeadOf, IsOpen, Registration
<1>3. ReportsInv'
  BY DEF ReportsInv
<1>4. ChangesInv'
  <2>1. ChangesMatch' /\ phase' = "poll" /\ failed' = failed /\ fdchanges' = fdchanges
    BY DEF ChangesInv, ChangesMatch
  <2>2. fdchanges \in Seq(Fds) /\ phase = "reify" /\ changecnt = 0
    BY DEF TypeOK
  <2>3. ~failed => fdchanges = <<>>
    <3>1. ~failed => Len(fdchanges) = 0
      BY <2>2 DEF ChangesInv
    <3> QED BY <2>2, <3>1
  <2> QED BY <2>1, <2>3 DEF ChangesInv
<1>5. GenerationsInv'
  <2>1. \A fd \in Fds : RegOf(fd)' = RegOf(fd) /\ RegsOf(fd)' = RegsOf(fd)
    BY DEF RegOf, RegsOf
  <2> QED BY <2>1, GenerationsKept DEF SameMasks
<1>6. SettledInv'
  <2>1. /\ \A fd \in Fds : HeadOf(fd)' = HeadOf(fd) /\ Wanted(fd)' = Wanted(fd)
        /\ \A fd \in Fds : RegOf(fd)' = RegOf(fd)
    BY DEF HeadOf, Wanted, RegOf
  <2> QED BY <2>1 DEF SettledInv
<1>7. UnwantedInv'
  BY DEF TypeOK, UnwantedInv
<1> QED BY <1>1, <1>2, <1>3, <1>4, <1>5, <1>6, <1>7

LEMMA PollReturnsEpollInv ==
  ASSUME EpollInv, PollReturns PROVE EpollInv'
<1> USE DEF EpollInv, PollReturns, kvars, avars, lvars
<1>1. TypeOK'
  <2>1. reports' \subseteq Report
    <3>1. PICK ready \in SUBSET interest : \E got \in [ready -> Masks] :
            reports' = {[reg |-> r, got |-> got[r]] : r \in ready}
      OBVIOUS
    <3>2. PICK got \in [ready -> Masks] : reports' = {[reg |-> r, got |-> got[r]] : r \in ready}
      BY <3>1
    <3> QED BY <3>2 DEF TypeOK, Report
  <2> QED BY <2>1 DEF TypeOK
<1>2. FilesInv'
  BY EpollAssumption DEF TypeOK, FilesInv, HeadOf, IsOpen, Registration
<1>3. ReportsInv'
  <2>0. PICK ready \in SUBSET interest : \E got \in [ready -> Masks] :
          /\ \A r \in ready : got[r] \in Gots(r)
          /\ reports' = {[reg |-> r, got |-> got[r]] : r \in ready}
    OBVIOUS
  <2>1. PICK got \in [ready -> Masks] :
          /\ \A r \in ready : got[r] \in Gots(r)
          /\ reports' = {[reg |-> r, got |-> got[r]] : r \in ready}
    BY <2>0
  <2>2. phase' = "gather"
    OBVIOUS
  <2> HIDE DEF PollReturns
  <2>3. \A r \in ready : got[r] # {} /\ (got[r] \subseteq r.mask \/ got[r] = EV_RW)
    <3> TAKE r \in ready
    <3>1. EV_RW # {}
      BY DEF EV_RW
    <3>2. got[r] \in ((SUBSET r.mask) \ {{}}) \cup {EV_RW}
      BY <2>1 DEF Gots
    <3> HIDE DEF EV_RW
    <3>3. (got[r] \in SUBSET r.mask /\ got[r] # {}) \/ got[r] = EV_RW
      BY <3>2
    <3> QED BY <3>1, <3>3
  <2>4. \A r \in ready : r.mask # {}
    BY DEF FilesInv
  <2> QED BY <2>1, <2>2, <2>3, <2>4 DEF ReportsInv
<1>4. ChangesInv'
  BY DEF ChangesInv, ChangesMatch
<1>5. GenerationsInv'
  <2>1. \A fd \in Fds : RegOf(fd)' = RegOf(fd) /\ RegsOf(fd)' \subseteq RegsOf(fd)
    BY DEF RegOf, RegsOf, ReportsInv
  <2>2. unwanted' = {} /\ UNCHANGED <<anfds, epoll_eperms>>
    OBVIOUS
  <2> HIDE DEF PollReturns
  <2> QED BY <2>1, <2>2 DEF GenerationsInv
<1>6. SettledInv'
  <2>1. /\ \A fd \in Fds : HeadOf(fd)' = HeadOf(fd) /\ Wanted(fd)' = Wanted(fd)
        /\ \A fd \in Fds : RegOf(fd)' = RegOf(fd)
    BY DEF HeadOf, Wanted, RegOf
  <2> QED BY <2>1 DEF SettledInv
<1>7. UnwantedInv'
  <2>1. unwanted' = {}
    OBVIOUS
  <2> QED BY <2>1 DEF UnwantedInv
<1> QED BY <1>1, <1>2, <1>3, <1>4, <1>5, <1>6, <1>7

LEMMA PollInterruptedEpollInv ==
  ASSUME EpollInv, PollInterrupted PROVE EpollInv'
<1> USE DEF EpollInv, PollInterrupted, kvars, avars, lvars
<1>1. TypeOK'
  BY EpollAssumption DEF TypeOK
<1>2. FilesInv'
  BY EpollAssumption DEF TypeOK, FilesInv, HeadOf, IsOpen, Registration
<1>3. ReportsInv'
  BY DEF ReportsInv
<1>4. ChangesInv'
  BY DEF ChangesInv, ChangesMatch
<1>5. GenerationsInv'
  <2>1. \A fd \in Fds : RegOf(fd)' = RegOf(fd) /\ RegsOf(fd)' \subseteq RegsOf(fd)
    BY DEF RegOf, RegsOf
  <2>2. unwanted' = {} /\ UNCHANGED <<anfds, epoll_eperms>>
    OBVIOUS
  <2> HIDE DEF PollInterrupted
  <2> QED BY <2>1, <2>2 DEF GenerationsInv
<1>6. SettledInv'
  <2>1. /\ \A fd \in Fds : HeadOf(fd)' = HeadOf(fd) /\ Wanted(fd)' = Wanted(fd)
        /\ \A fd \in Fds : RegOf(fd)' = RegOf(fd)
    BY DEF HeadOf, Wanted, RegOf
  <2> QED BY <2>1 DEF SettledInv
<1>7. UnwantedInv'
  <2>1. unwanted' = {}
    OBVIOUS
  <2> QED BY <2>1 DEF UnwantedInv
<1> QED BY <1>1, <1>2, <1>3, <1>4, <1>5, <1>6, <1>7

\* A flag more in anfds [fd].reify
LEMMA ReifySet ==
  ASSUME TypeOK, NEW fd \in Fds, NEW R \in SUBSET {"EV_ANFD_REIFY", "EV__IOFDSET"},
         anfds' = [anfds EXCEPT ![fd].reify = R]
  PROVE  /\ anfds' \in [Fds -> ANFD] /\ anfds'[fd].reify = R
         /\ \A gd \in Fds : gd # fd => anfds'[gd] = anfds[gd]
         /\ \A gd \in Fds : /\ anfds'[gd].events = anfds[gd].events
                            /\ anfds'[gd].emask = anfds[gd].emask
                            /\ anfds'[gd].egen = anfds[gd].egen
<1>1. anfds \in [Fds -> ANFD] /\ anfds[fd] \in ANFD
  BY DEF TypeOK
<1>2. PICK a \in ANFD : a = anfds[fd] /\ anfds' = [anfds EXCEPT ![fd] = [a EXCEPT !.reify = R]]
  BY <1>1
<1>3. /\ [a EXCEPT !.reify = R] \in ANFD /\ [a EXCEPT !.reify = R].reify = R
      /\ [a EXCEPT !.reify = R].events = a.events
      /\ [a EXCEPT !.reify = R].emask = a.emask
      /\ [a EXCEPT !.reify = R].egen = a.egen
  BY DEF ANFD
<1> QED BY <1>1, <1>2, <1>3

LEMMA EvIoStartEpollInv ==
  ASSUME EpollInv, NEW w \in Watchers, EvIoStart(w) PROVE EpollInv'
<1> USE DEF EpollInv
<1>1. PICK fd \in Fds : fd = Fd[w]
  BY EpollAssumption
<1>2. PICK R \in SUBSET {"EV_ANFD_REIFY", "EV__IOFDSET"} :
        /\ "EV_ANFD_REIFY" \in R /\ anfds[fd].reify \subseteq R
        /\ w \in iofdset => "EV__IOFDSET" \in R
        /\ anfds' = [anfds EXCEPT ![fd].reify = R]
  <2> DEFINE S == anfds[fd].reify \cup {"EV_ANFD_REIFY"} \cup
                    IF w \in iofdset THEN {"EV__IOFDSET"} ELSE {}
  <2>1. anfds' = [anfds EXCEPT ![fd].reify = S]
    BY <1>1 DEF EvIoStart
  <2>2. S \in SUBSET {"EV_ANFD_REIFY", "EV__IOFDSET"}
    BY DEF TypeOK, ANFD
  <2>3. /\ "EV_ANFD_REIFY" \in S /\ anfds[fd].reify \subseteq S
        /\ w \in iofdset => "EV__IOFDSET" \in S
    OBVIOUS
  <2> HIDE DEF S
  <2> WITNESS S \in SUBSET {"EV_ANFD_REIFY", "EV__IOFDSET"}
  <2> QED BY <2>1, <2>3
<1>3. /\ phase = "user" /\ file[fd] # NoFile
      /\ active' = active \cup {w} /\ iofdset' = iofdset \ {w}
      /\ UNCHANGED <<kvars, epoll_eperms, lvars, pend, unwanted>>
      /\ FdChange({fd})
  BY <1>1 DEF EvIoStart
<1>4. /\ anfds' \in [Fds -> ANFD] /\ anfds'[fd].reify = R
      /\ \A gd \in Fds : gd # fd => anfds'[gd] = anfds[gd]
      /\ \A gd \in Fds : /\ anfds'[gd].events = anfds[gd].events
                         /\ anfds'[gd].emask = anfds[gd].emask
                         /\ anfds'[gd].egen = anfds[gd].egen
  BY <1>2, ReifySet
<1>5. /\ fdchanges' \in Seq(Fds) /\ Lists(fdchanges', Changed \cup {fd})
      /\ Len(fdchanges') \in Nat /\ Len(fdchanges) <= Len(fdchanges')
  BY <1>3, FdChangeLists DEF ChangesInv
<1>6. \A gd \in Fds : RegOf(gd)' = RegOf(gd) /\ RegsOf(gd)' = RegsOf(gd)
  BY <1>3 DEF RegOf, RegsOf, kvars, lvars
<1>7. \A gd \in Fds : gd # fd => HeadOf(gd)' = HeadOf(gd) /\ Wanted(gd)' = Wanted(gd)
  BY <1>1, <1>3 DEF HeadOf, Wanted
<1>8. TypeOK'
  BY <1>3, <1>4, <1>5 DEF TypeOK, lvars, kvars
<1>9. FilesInv'
  <2>1. \A gd \in Fds : file[gd] = NoFile => HeadOf(gd)' = {}
    BY <1>3, <1>7 DEF FilesInv
  <2> QED BY <2>1, <1>3 DEF FilesInv, IsOpen, kvars
<1>10. ReportsInv'
  BY <1>3 DEF ReportsInv, lvars
<1>11. ChangesInv'
  <2>1. Changed' = Changed \cup {fd}
    BY <1>2, <1>4 DEF Changed
  <2>2. Changed' \in SUBSET Fds /\ \A gd \in Fds : gd \in Changed' <=> anfds'[gd].reify # {}
    BY DEF Changed
  <2>3. ChangesMatch'
    BY <1>5, <2>1, <2>2, ListsIs DEF ChangesMatch
  <2> QED BY <2>3, <1>3 DEF ChangesInv, lvars
<1>12. GenerationsInv'
  BY <1>3, <1>4, <1>6, GenerationsKept DEF SameMasks
<1>13. SettledInv'
  <2>1. \A gd \in Fds : anfds'[gd].reify = {} => anfds'[gd].events = Wanted(gd)'
    BY <1>2, <1>4, <1>7 DEF SettledInv
  <2>2. ASSUME ~failed', NEW gd \in Fds, anfds'[gd].events # {}, "EV__IOFDSET" \notin anfds'[gd].reify
        PROVE  \/ \E r \in RegOf(gd)' : anfds'[gd].events \subseteq r.mask
               \/ file'[gd] \in EpermFiles /\ "EV_EMASK_EPERM" \in anfds'[gd].emask
               \/ /\ HeadOf(gd)' = {}
                  /\ file'[gd] = NoFile \/ \A v \in Watchers : Fd[v] = gd => v \in iofdset'
    <3>1. \/ \E r \in RegOf(gd) : anfds[gd].events \subseteq r.mask
          \/ file[gd] \in EpermFiles /\ "EV_EMASK_EPERM" \in anfds[gd].emask
          \/ /\ HeadOf(gd) = {}
             /\ file[gd] = NoFile \/ \A v \in Watchers : Fd[v] = gd => v \in iofdset
      BY <1>2, <1>3, <1>4, <2>2 DEF SettledInv, lvars
    <3>2. CASE gd = fd
      BY <1>1, <1>2, <1>3, <1>4, <1>6, <2>2, <3>1, <3>2 DEF kvars
    <3>3. CASE gd # fd
      BY <1>1, <1>3, <1>4, <1>6, <1>7, <3>1, <3>3 DEF kvars
    <3> QED BY <3>2, <3>3
  <2> QED BY <2>1, <2>2 DEF SettledInv
<1>14. UnwantedInv'
  BY <1>3, <1>4, UnwantedKept DEF SameMasks, kvars, lvars
<1> QED BY <1>8, <1>9, <1>10, <1>11, <1>12, <1>13, <1>14

LEMMA EvIoStopEpollInv ==
  ASSUME EpollInv, NEW w \in Watchers, EvIoStop(w) PROVE EpollInv'
<1> USE DEF EpollInv
<1>1. PICK fd \in Fds : fd = Fd[w]
  BY EpollAssumption
<1>2. /\ phase = "user" /\ active' = active \ {w}
      /\ UNCHANGED <<kvars, iofdset, epoll_eperms, lvars, unwanted>>
      /\ pend' = [pend EXCEPT ![w] = {}]
  BY DEF EvIoStop
<1>3. /\ anfds' \in [Fds -> ANFD]
      /\ anfds' # anfds => anfds'[fd].reify # {}
      /\ anfds[fd].reify \subseteq anfds'[fd].reify
      /\ "EV__IOFDSET" \in anfds'[fd].reify => "EV__IOFDSET" \in anfds[fd].reify
      /\ w \in active => anfds'[fd].reify # {}
      /\ \A gd \in Fds : gd # fd => anfds'[gd] = anfds[gd]
      /\ \A gd \in Fds : /\ anfds'[gd].events = anfds[gd].events
                         /\ anfds'[gd].emask = anfds[gd].emask
                         /\ anfds'[gd].egen = anfds[gd].egen
      /\ fdchanges' \in Seq(Fds) /\ Lists(fdchanges', Changed')
      /\ Len(fdchanges') \in Nat /\ Len(fdchanges) <= Len(fdchanges')
  <2>1. CASE w \in active
    <3>1. FdChange({fd}) /\ anfds' = [anfds EXCEPT ![fd].reify = @ \cup {"EV_ANFD_REIFY"}]
      BY <1>1, <2>1 DEF EvIoStop
    <3>2. PICK R \in SUBSET {"EV_ANFD_REIFY", "EV__IOFDSET"} :
            R = anfds[fd].reify \cup {"EV_ANFD_REIFY"} /\ anfds' = [anfds EXCEPT ![fd].reify = R]
      BY <3>1 DEF TypeOK, ANFD
    <3>3. /\ anfds' \in [Fds -> ANFD] /\ anfds'[fd].reify = R
          /\ \A gd \in Fds : gd # fd => anfds'[gd] = anfds[gd]
          /\ \A gd \in Fds : /\ anfds'[gd].events = anfds[gd].events
                             /\ anfds'[gd].emask = anfds[gd].emask
                             /\ anfds'[gd].egen = anfds[gd].egen
      BY <3>2, ReifySet
    <3>4. Changed' = Changed \cup {fd}
      BY <3>2, <3>3 DEF Changed
    <3>5. /\ fdchanges' \in Seq(Fds) /\ Lists(fdchanges', Changed')
          /\ Len(fdchanges') \in Nat /\ Len(fdchanges) <= Len(fdchanges')
      BY <3>1, <3>4, FdChangeLists DEF ChangesInv
    <3> QED BY <3>2, <3>3, <3>5
  <2>2. CASE w \notin active
    <3>1. anfds' = anfds /\ fdchanges' = fdchanges
      BY <2>2 DEF EvIoStop
    <3>2. Lists(fdchanges, Changed)
      BY ChangesListed DEF ChangesInv, TypeOK
    <3>3. Changed' = Changed
      BY <3>1 DEF Changed
    <3> QED BY <2>2, <3>1, <3>2, <3>3 DEF TypeOK, Lists
  <2> QED BY <2>1, <2>2
<1>4. \A gd \in Fds : RegOf(gd)' = RegOf(gd) /\ RegsOf(gd)' = RegsOf(gd)
  BY <1>2 DEF RegOf, RegsOf, kvars, lvars
<1>5. \A gd \in Fds : HeadOf(gd)' \subseteq HeadOf(gd)
  BY <1>2 DEF HeadOf
<1>6. TypeOK'
  BY <1>2, <1>3 DEF TypeOK, lvars, kvars
<1>7. FilesInv'
  BY <1>2, <1>5 DEF FilesInv, IsOpen, kvars
<1>8. ReportsInv'
  BY <1>2 DEF ReportsInv, lvars
<1>9. ChangesInv'
  <2>1. Changed' \in SUBSET Fds /\ \A gd \in Fds : gd \in Changed' <=> anfds'[gd].reify # {}
    BY DEF Changed
  <2>2. ChangesMatch'
    BY <1>3, <2>1, ListsIs DEF ChangesMatch
  <2> QED BY <2>2, <1>2 DEF ChangesInv, lvars
<1>10. GenerationsInv'
  BY <1>2, <1>3, <1>4, GenerationsKept DEF SameMasks
<1>11. SettledInv'
  <2>1. ASSUME NEW gd \in Fds, anfds'[gd].reify = {} PROVE anfds'[gd].events = Wanted(gd)'
    <3>1. gd # fd \/ w \notin active
      BY <1>3, <2>1
    <3>2. HeadOf(gd)' = HeadOf(gd)
      BY <1>1, <1>2, <3>1 DEF HeadOf
    <3>3. anfds[gd].reify = {}
      BY <1>3, <2>1
    <3> QED BY <1>3, <3>2, <3>3 DEF SettledInv, Wanted
  <2>2. \A gd \in Fds : "EV__IOFDSET" \notin anfds'[gd].reify => "EV__IOFDSET" \notin anfds[gd].reify
    BY <1>3
  <2> QED BY <1>2, <1>3, <1>4, <1>5, <2>1, <2>2 DEF SettledInv, kvars, lvars
<1>12. UnwantedInv'
  BY <1>2, <1>3, UnwantedKept DEF SameMasks, kvars, lvars
<1> QED BY <1>6, <1>7, <1>8, <1>9, <1>10, <1>11, <1>12

-----------------------------------------------------------------------------
LEMMA LoopForkEpollInv ==
  ASSUME EpollInv, LoopFork PROVE EpollInv'
<1> USE DEF EpollInv
<1>1. /\ phase = "fork" /\ phase' = "reify" /\ postfork' = FALSE /\ changecnt' = Len(fdchanges')
      /\ UNCHANGED <<file, others, active, iofdset, epoll_eperms, reports, pend, unwanted,
                    failed>>
      /\ reports = {}
  BY DEF LoopFork, ReportsInv
<1>2. \A fd \in Fds : HeadOf(fd)' = HeadOf(fd) /\ Wanted(fd)' = Wanted(fd)
  BY <1>1 DEF HeadOf, Wanted
<1>3. CASE postfork
  <2>1. interest' = {} /\ FdRearmAll
    BY <1>3 DEF LoopFork
  <2>2. Rearmed \in SUBSET Fds /\ FdChange(Rearmed)
    BY <2>1 DEF Rearmed, FdRearmAll
  <2>3. ASSUME NEW fd \in Fds
        PROVE  /\ anfds'[fd] \in ANFD
               /\ anfds'[fd].events = {} /\ anfds'[fd].egen = anfds[fd].egen
               /\ IF fd \in Rearmed
                    THEN anfds'[fd].emask = {} /\ anfds'[fd].reify = {"EV_ANFD_REIFY", "EV__IOFDSET"}
                    ELSE anfds'[fd] = anfds[fd]
    <3>1. anfds[fd] \in ANFD
      BY DEF TypeOK
    <3>2. CASE fd \in Rearmed
      <4>1. anfds'[fd] = [anfds[fd] EXCEPT !.events = {}, !.emask = {},
                                           !.reify = {"EV_ANFD_REIFY", "EV__IOFDSET"}]
        BY <2>1, <3>2 DEF FdRearmAll
      <4> QED BY <3>1, <3>2, <4>1 DEF ANFD, Masks
    <3>3. CASE fd \notin Rearmed
      <4>1. anfds'[fd] = anfds[fd]
        BY <2>1, <3>3 DEF FdRearmAll
      <4>2. anfds[fd].events = {}
        BY <3>3 DEF Rearmed
      <4> QED BY <3>1, <3>3, <4>1, <4>2
    <3> QED BY <3>2, <3>3
  <2>4. /\ fdchanges' \in Seq(Fds) /\ Lists(fdchanges', Changed \cup Rearmed)
        /\ Len(fdchanges') \in Nat
    BY <2>2, FdChangeLists DEF ChangesInv
  <2>5. Changed' = Changed \cup Rearmed
    BY <2>2, <2>3 DEF Changed
  <2>6. TypeOK'
    <3>1. anfds' \in [Fds -> ANFD]
      BY <2>1, <2>3 DEF FdRearmAll
    <3>2. changecnt' \in 0 .. Len(fdchanges')
      BY <1>1, <2>4
    <3>3. phase' \in {"user", "fork", "reify", "poll", "gather"} /\ postfork' \in BOOLEAN
      BY <1>1
    <3> QED BY <1>1, <2>1, <2>4, <3>1, <3>2, <3>3 DEF TypeOK
  <2>7. FilesInv'
    BY <1>1, <1>2, <2>1 DEF FilesInv
  <2>8. ReportsInv'
    BY <1>1 DEF ReportsInv
  <2>9. ChangesInv'
    <3>1. Changed' \in SUBSET Fds /\ \A fd \in Fds : fd \in Changed' <=> anfds'[fd].reify # {}
      BY DEF Changed
    <3>2. ChangesMatch'
      BY <2>4, <2>5, <3>1, ListsIs DEF ChangesMatch
    <3> QED BY <1>1, <3>2 DEF ChangesInv
  <2>10. GenerationsInv'
    <3>1. \A fd \in Fds : RegOf(fd)' = {} /\ RegsOf(fd)' = {}
      BY <1>1, <2>1 DEF RegOf, RegsOf
    <3>2. \A r \in unwanted : r.fd \in Fds
      BY DEF TypeOK, Registration
    <3>3. \A fd \in Fds : "EV_EMASK_EPERM" \in anfds'[fd].emask => fd \in epoll_eperms
      BY <2>3 DEF GenerationsInv
    <3> QED BY <1>1, <2>3, <3>1, <3>2, <3>3 DEF GenerationsInv
  <2>11. SettledInv'
    BY <1>2, <2>3 DEF SettledInv
  <2>12. UnwantedInv'
    BY <1>1, <2>1 DEF UnwantedInv
  <2> QED BY <2>6, <2>7, <2>8, <2>9, <2>10, <2>11, <2>12
<1>4. CASE ~postfork
  <2>1. UNCHANGED <<interest, anfds, fdchanges>>
    BY <1>4 DEF LoopFork
  <2>2. \A fd \in Fds : RegOf(fd)' = RegOf(fd) /\ RegsOf(fd)' = RegsOf(fd)
    BY <1>1, <2>1 DEF RegOf, RegsOf
  <2>3. TypeOK'
    <3>1. Len(fdchanges) \in Nat
      BY DEF TypeOK
    <3>2. changecnt' \in 0 .. Len(fdchanges')
      BY <1>1, <2>1, <3>1
    <3>3. phase' \in {"user", "fork", "reify", "poll", "gather"} /\ postfork' \in BOOLEAN
      BY <1>1
    <3> QED BY <1>1, <2>1, <3>1, <3>2, <3>3 DEF TypeOK
  <2>4. FilesInv'
    BY <1>1, <1>2, <2>1 DEF FilesInv, IsOpen
  <2>5. ReportsInv'
    BY <1>1 DEF ReportsInv
  <2>6. ChangesInv'
    BY <1>1, <2>1 DEF ChangesInv, ChangesMatch
  <2>7. GenerationsInv'
    BY <1>1, <2>1, <2>2, GenerationsKept DEF SameMasks
  <2>8. SettledInv'
    BY <1>1, <1>2, <2>1, <2>2 DEF SettledInv
  <2>9. UnwantedInv'
    BY <1>1, <1>4, <2>1 DEF UnwantedInv
  <2> QED BY <2>3, <2>4, <2>5, <2>6, <2>7, <2>8, <2>9
<1> QED BY <1>3, <1>4

-----------------------------------------------------------------------------
\* The outcomes of a round of fd_reify for fd: nothing to do, a file that epoll
\* refuses, a registration that is there already, a new or changed one, and a
\* failure

ReifyNothing(fd) ==
  /\ UNCHANGED <<interest, epoll_eperms, active, pend>>
  /\ anfds'[fd].emask = anfds[fd].emask /\ anfds'[fd].egen = anfds[fd].egen
  /\ \/ Wanted(fd) = {}
     \/ anfds[fd].events = Wanted(fd) /\ "EV__IOFDSET" \notin anfds[fd].reify

ReifyRefused(fd) ==
  /\ UNCHANGED <<interest, active, pend>>
  /\ file[fd] \in EpermFiles
  /\ epoll_eperms' = epoll_eperms \cup {fd}
  /\ anfds'[fd].emask = {"EV_EMASK_EPERM"} /\ anfds'[fd].egen = anfds[fd].egen + 1

ReifySame(fd) ==
  /\ UNCHANGED <<interest, epoll_eperms, active, pend>>
  /\ RegOf(fd) # {}
  /\ anfds[fd].emask = Wanted(fd) /\ Wanted(fd) # {}
  /\ anfds'[fd].emask = Wanted(fd) /\ anfds'[fd].egen = anfds[fd].egen

ReifyRegisters(fd) ==
  /\ UNCHANGED <<epoll_eperms, active, pend>>
  /\ Wanted(fd) # {} /\ file[fd] \notin EpermFiles
  /\ Register(fd, Wanted(fd), anfds[fd].egen + 1)
  /\ anfds'[fd].emask = Wanted(fd) /\ anfds'[fd].egen = anfds[fd].egen + 1

ReifyDone(fd) ==
  /\ fdchanges' = Tail(fdchanges) /\ anfds'[fd].reify = {} /\ failed' = failed
  /\ ReifyNothing(fd) \/ ReifyRefused(fd) \/ ReifySame(fd) \/ ReifyRegisters(fd)

ReifyKills(fd) ==
  /\ failed' = TRUE
  /\ UNCHANGED <<interest, epoll_eperms>> /\ RegOf(fd) = {}
  /\ active' = active \ HeadOf(fd)
  /\ pend' \in [Watchers -> SUBSET (EV_RW \cup {"EV_ERROR"})]
  /\ anfds'[fd].emask = Wanted(fd) /\ anfds'[fd].egen = anfds[fd].egen
  /\ fdchanges' = Append(Tail(fdchanges), fd) /\ anfds'[fd].reify = {"EV_ANFD_REIFY"}

LEMMA WantedIsMask ==
  ASSUME NEW fd \in Fds, active \in SUBSET Watchers PROVE Wanted(fd) \in Masks
BY EpollAssumption DEF Wanted, HeadOf, Masks

LEMMA FdReifyDoes ==
  ASSUME EpollInv, FdReify, NEW fd, fd = Head(fdchanges)
  PROVE  /\ fd \in Fds /\ fdchanges # <<>>
         /\ anfds' \in [Fds -> ANFD]
         /\ \A gd \in Fds : gd # fd => anfds'[gd] = anfds[gd]
         /\ anfds'[fd].events = Wanted(fd)
         /\ ReifyDone(fd) \/ ReifyKills(fd)
<1> USE DEF EpollInv
<1>1. fd \in Fds /\ fdchanges # <<>> /\ anfds[fd] \in ANFD
  <2>1. fdchanges \in Seq(Fds) /\ Len(fdchanges) > 0
    BY DEF TypeOK, FdReify
  <2> QED BY <2>1 DEF TypeOK
<1> DEFINE nev == Wanted(fd)
           old == anfds[fd]
           anfd == [old EXCEPT !.events = nev, !.reify = {}]
<1>2. nev \in Masks
  BY <1>1, WantedIsMask DEF TypeOK
<1>3. /\ anfd \in ANFD /\ anfd.events = nev /\ anfd.reify = {}
      /\ anfd.emask = old.emask /\ anfd.egen = old.egen /\ old.egen \in Nat
  BY <1>1, <1>2 DEF ANFD
<1>4. CASE ~(nev # {} /\ (old.events # nev \/ "EV__IOFDSET" \in old.reify))
  <2>1. /\ anfds' = [anfds EXCEPT ![fd] = anfd]
        /\ fdchanges' = Tail(fdchanges)
        /\ UNCHANGED <<interest, epoll_eperms, active, pend, failed>>
    BY <1>4 DEF FdReify
  <2> HIDE DEF anfd, nev
  <2>2. anfds' \in [Fds -> ANFD] /\ anfds'[fd] = anfd
        /\ \A gd \in Fds : gd # fd => anfds'[gd] = anfds[gd]
    BY <1>1, <1>3, <2>1 DEF TypeOK
  <2>3. \/ Wanted(fd) = {}
        \/ old.events = Wanted(fd) /\ "EV__IOFDSET" \notin old.reify
    BY <1>4 DEF nev
  <2>4. ReifyNothing(fd)
    BY <1>3, <2>1, <2>2, <2>3 DEF ReifyNothing
  <2> QED BY <1>1, <1>3, <2>1, <2>2, <2>4 DEF ReifyDone, nev
<1>5. CASE nev # {} /\ (old.events # nev \/ "EV__IOFDSET" \in old.reify)
  <2> DEFINE same == ~(old.events # {} /\ anfd.emask # nev) /\ RegOf(fd) # {} /\ anfd.emask = nev
             egen == IF same THEN anfd.egen ELSE anfd.egen + 1
             refused == [anfd EXCEPT !.emask = EpermMask(nev), !.egen = egen]
             told == [anfd EXCEPT !.emask = nev, !.egen = egen]
             killed == [anfd EXCEPT !.emask = nev]
  <2>1. EpollModify(fd, old.events, nev, anfd)
    BY <1>5 DEF FdReify
  <2>2. \/ /\ file[fd] \in EpermFiles
           /\ anfds' = [anfds EXCEPT ![fd] = refused]
           /\ epoll_eperms' = IF "EV_EMASK_EPERM" \in anfd.emask THEN epoll_eperms
                              ELSE epoll_eperms \cup {fd}
           /\ fdchanges' = Tail(fdchanges)
           /\ UNCHANGED <<interest, active, pend, failed>>
        \/ /\ file[fd] \notin EpermFiles
           /\ IF same THEN UNCHANGED interest ELSE Register(fd, nev, egen)
           /\ anfds' = [anfds EXCEPT ![fd] = told]
           /\ fdchanges' = Tail(fdchanges)
           /\ UNCHANGED <<epoll_eperms, active, pend, failed>>
        \/ /\ failed' = TRUE /\ file[fd] \notin EpermFiles /\ RegOf(fd) = {}
           /\ FdKill(fd, killed)
           /\ UNCHANGED <<interest, epoll_eperms>>
    BY <2>1 DEF EpollModify
  <2>3. same => RegOf(fd) # {} /\ old.emask = nev
    BY <1>3
  <2>4. egen \in Nat /\ (same => egen = old.egen) /\ (~same => egen = old.egen + 1)
    BY <1>3
  <2> HIDE DEF anfd, nev, same, egen
  <2>5. /\ refused \in ANFD /\ refused.events = nev /\ refused.reify = {}
        /\ refused.emask = {"EV_EMASK_EPERM"} /\ refused.egen = egen
        /\ told \in ANFD /\ told.events = nev /\ told.reify = {}
        /\ told.emask = nev /\ told.egen = egen
        /\ killed \in ANFD /\ killed.events = nev /\ killed.emask = nev /\ killed.egen = old.egen
    BY <1>2, <1>3, <2>4 DEF ANFD, EpermMask
  <2> HIDE DEF refused, told, killed
  <2>6. CASE /\ file[fd] \in EpermFiles
             /\ anfds' = [anfds EXCEPT ![fd] = refused]
             /\ epoll_eperms' = IF "EV_EMASK_EPERM" \in anfd.emask THEN epoll_eperms
                                ELSE epoll_eperms \cup {fd}
             /\ fdchanges' = Tail(fdchanges)
             /\ UNCHANGED <<interest, active, pend, failed>>
    <3>1. anfds' \in [Fds -> ANFD] /\ anfds'[fd] = refused
          /\ \A gd \in Fds : gd # fd => anfds'[gd] = anfds[gd]
      BY <1>1, <2>5, <2>6 DEF TypeOK
    <3>2. RegOf(fd) = {}
      BY <2>6 DEF RegOf, FilesInv
    <3>3. egen = old.egen + 1
      BY <2>3, <2>4, <3>2
    <3>4. epoll_eperms' = epoll_eperms \cup {fd}
      BY <1>1, <1>3, <2>6 DEF GenerationsInv
    <3>5. ReifyRefused(fd)
      BY <2>5, <2>6, <3>1, <3>3, <3>4 DEF ReifyRefused
    <3> QED BY <1>1, <2>5, <2>6, <3>1, <3>5 DEF ReifyDone, nev
  <2>7. CASE /\ file[fd] \notin EpermFiles
             /\ IF same THEN UNCHANGED interest ELSE Register(fd, nev, egen)
             /\ anfds' = [anfds EXCEPT ![fd] = told]
             /\ fdchanges' = Tail(fdchanges)
             /\ UNCHANGED <<epoll_eperms, active, pend, failed>>
    <3>1. anfds' \in [Fds -> ANFD] /\ anfds'[fd] = told
          /\ \A gd \in Fds : gd # fd => anfds'[gd] = anfds[gd]
      BY <1>1, <2>5, <2>7 DEF TypeOK
    <3>2. CASE same
      <4>1. ReifySame(fd)
        BY <1>5, <2>3, <2>4, <2>5, <2>7, <3>1, <3>2 DEF ReifySame, nev
      <4> QED BY <1>1, <2>5, <2>7, <3>1, <4>1 DEF ReifyDone, nev
    <3>3. CASE ~same
      <4>1. Register(fd, nev, old.egen + 1)
        BY <2>4, <2>7, <3>3
      <4>2. ReifyRegisters(fd)
        BY <1>5, <2>4, <2>5, <2>7, <3>1, <3>3, <4>1 DEF ReifyRegisters, nev
      <4> QED BY <1>1, <2>5, <2>7, <3>1, <4>2 DEF ReifyDone, nev
    <3> QED BY <3>2, <3>3
  <2>8. CASE /\ failed' = TRUE /\ file[fd] \notin EpermFiles /\ RegOf(fd) = {}
             /\ FdKill(fd, killed)
             /\ UNCHANGED <<interest, epoll_eperms>>
    <3> DEFINE last == [killed EXCEPT !.reify = {"EV_ANFD_REIFY"}]
    <3>1. /\ anfds' = [anfds EXCEPT ![fd] = last]
          /\ active' = active \ HeadOf(fd)
          /\ pend' = [w \in Watchers |->
                IF w \in HeadOf(fd) THEN EV_RW \cup {"EV_ERROR"} ELSE pend[w]]
          /\ fdchanges' = Append(Tail(fdchanges), fd)
      BY <2>8 DEF FdKill
    <3>2. /\ last \in ANFD /\ last.events = nev /\ last.emask = nev /\ last.egen = old.egen
          /\ last.reify = {"EV_ANFD_REIFY"}
      BY <2>5 DEF ANFD
    <3> HIDE DEF last
    <3>3. anfds' \in [Fds -> ANFD] /\ anfds'[fd] = last
          /\ \A gd \in Fds : gd # fd => anfds'[gd] = anfds[gd]
      BY <1>1, <3>1, <3>2 DEF TypeOK
    <3>4. pend' \in [Watchers -> SUBSET (EV_RW \cup {"EV_ERROR"})]
      BY <3>1 DEF TypeOK
    <3>5. ReifyKills(fd)
      BY <2>8, <3>1, <3>2, <3>3, <3>4 DEF ReifyKills, nev
    <3> QED BY <1>1, <3>2, <3>3, <3>5 DEF nev
  <2> QED BY <2>2, <2>6, <2>7, <2>8
<1> QED BY <1>4, <1>5

LEMMA FdReifyEpollInv ==
  ASSUME EpollInv, FdReify PROVE EpollInv'
<1> USE DEF EpollInv
<1>1. PICK fd : fd = Head(fdchanges)
  OBVIOUS
<1>2. /\ fd \in Fds /\ fdchanges # <<>> /\ anfds' \in [Fds -> ANFD]
      /\ \A gd \in Fds : gd # fd => anfds'[gd] = anfds[gd]
      /\ anfds'[fd].events = Wanted(fd)
      /\ ReifyDone(fd) \/ ReifyKills(fd)
  BY <1>1, FdReifyDoes
<1>3. /\ phase = "reify" /\ phase' = "reify" /\ changecnt > 0 /\ changecnt' = changecnt - 1
      /\ UNCHANGED <<file, others, iofdset, postfork, reports, unwanted>>
      /\ reports = {}
  BY DEF FdReify, ReportsInv
<1>4. /\ Lists(fdchanges, Changed) /\ Lists(Tail(fdchanges), Changed \ {fd})
      /\ Len(Tail(fdchanges)) = Len(fdchanges) - 1 /\ Len(fdchanges) \in Nat
  <2>1. Lists(fdchanges, Changed)
    BY ChangesListed DEF ChangesInv, TypeOK
  <2>2. Lists(Tail(fdchanges), Changed \ {fd}) /\ Len(Tail(fdchanges)) = Len(fdchanges) - 1
    BY <1>1, <1>2, <2>1, ListsTail
  <2>3. Len(fdchanges) \in Nat
    BY <2>1 DEF Lists
  <2> QED BY <2>1, <2>2, <2>3
<1>5. /\ fdchanges' \in Seq(Fds) /\ Lists(fdchanges', Changed')
      /\ Len(fdchanges') = IF ReifyKills(fd) THEN Len(fdchanges) ELSE Len(fdchanges) - 1
  <2>1. CASE ReifyDone(fd)
    <3>1. Changed' = Changed \ {fd} /\ fdchanges' = Tail(fdchanges)
      BY <1>2, <2>1 DEF Changed, ReifyDone
    <3>2. ~ReifyKills(fd)
      BY <2>1 DEF ReifyDone, ReifyKills
    <3> QED BY <1>4, <3>1, <3>2 DEF Lists
  <2>2. CASE ReifyKills(fd)
    <3>1. Changed' = (Changed \ {fd}) \cup {fd}
      BY <1>2, <2>2 DEF Changed, ReifyKills
    <3>2. fdchanges' = Tail(fdchanges) \o <<fd>> /\ Len(fdchanges') = Len(fdchanges)
      <4>1. Tail(fdchanges) \in Seq(Fds)
        BY <1>4 DEF Lists
      <4>2. fdchanges' = Append(Tail(fdchanges), fd)
        BY <2>2 DEF ReifyKills
      <4>3. \A s \in Seq(Fds) : Append(s, fd) = s \o <<fd>> /\ Len(Append(s, fd)) = Len(s) + 1
        BY <1>2
      <4> QED BY <1>4, <4>1, <4>2, <4>3
    <3>3. Lists(<<fd>>, {fd}) /\ (Changed \ {fd}) \cap {fd} = {}
      BY <1>2, ListsOne
    <3>4. Lists(Tail(fdchanges) \o <<fd>>, (Changed \ {fd}) \cup {fd})
      BY <1>4, <3>3, ListsMore
    <3> QED BY <2>2, <3>1, <3>2, <3>4 DEF Lists
  <2> QED BY <1>2, <2>1, <2>2
<1>6. /\ active' \subseteq active /\ epoll_eperms \subseteq epoll_eperms'
      /\ epoll_eperms' \subseteq Fds
      /\ pend' \in [Watchers -> SUBSET (EV_RW \cup {"EV_ERROR"})]
      /\ failed' \in BOOLEAN /\ (~failed' => ~failed)
  <2>1. failed' \in BOOLEAN /\ (~failed' => ~failed)
    <3>1. failed' = failed \/ failed' = TRUE
      BY <1>2, Zenon DEF ReifyDone, ReifyKills
    <3>2. failed \in BOOLEAN
      BY DEF TypeOK
    <3>3. CASE failed' = failed
      BY <3>2, <3>3
    <3>4. CASE failed' = TRUE
      BY <3>4
    <3> QED BY <3>1, <3>3, <3>4
  <2> QED BY <1>2, <2>1
       DEF ReifyDone, ReifyKills, ReifyNothing, ReifyRefused, ReifySame, ReifyRegisters, TypeOK
<1>7. \A gd \in Fds : gd # fd => HeadOf(gd)' = HeadOf(gd) /\ Wanted(gd)' = Wanted(gd)
  <2>1. active' = active \/ active' = active \ HeadOf(fd)
    BY <1>2 DEF ReifyDone, ReifyKills, ReifyNothing, ReifyRefused, ReifySame, ReifyRegisters
  <2>2. \A gd \in Fds : gd # fd => HeadOf(gd)' = HeadOf(gd)
    BY <2>1 DEF HeadOf
  <2> QED BY <2>2 DEF Wanted
<1>8. /\ anfds[fd].egen \in Nat /\ anfds[fd].egen <= anfds'[fd].egen
      /\ Wanted(fd) \in Masks
  <2>1. anfds[fd] \in ANFD
    BY <1>2 DEF TypeOK
  <2>2. anfds[fd].egen \in Nat
    BY <2>1 DEF ANFD
  <2> QED BY <1>2, <2>2, WantedIsMask
       DEF ReifyDone, ReifyKills, ReifyNothing, ReifyRefused, ReifySame, ReifyRegisters, TypeOK
<1>9. ReifyRegisters(fd) =>
        /\ interest' = (interest \ RegOf(fd)) \cup
             {[fd |-> fd, file |-> file[fd], mask |-> Wanted(fd), egen |-> anfds[fd].egen + 1]}
        /\ file[fd] \in Files /\ file[fd] \notin EpermFiles /\ Wanted(fd) # {}
  BY <1>2 DEF ReifyRegisters, Register, FilesInv, Wanted, TypeOK
<1>10. ~ReifyRegisters(fd) => interest' = interest
  BY <1>2 DEF ReifyDone, ReifyKills, ReifyNothing, ReifyRefused, ReifySame
<1>11. ASSUME NEW r \in interest'
       PROVE  \/ r \in interest /\ (ReifyRegisters(fd) => r \notin RegOf(fd))
              \/ /\ ReifyRegisters(fd) /\ r \in Registration /\ r.fd = fd /\ r.file = file[fd]
                 /\ r.mask = Wanted(fd) /\ r.egen = anfds[fd].egen + 1
  BY <1>2, <1>8, <1>9, <1>10, <1>11 DEF Registration
<1>12. \A gd \in Fds : gd # fd => RegOf(gd)' = RegOf(gd) /\ RegsOf(gd)' = RegsOf(gd)
  <2>1. \A r : r.fd # fd => (r \in interest' <=> r \in interest)
    BY <1>9, <1>10 DEF RegOf
  <2> QED BY <1>3, <2>1 DEF RegOf, RegsOf
<1>13. TypeOK'
  <2>1. interest' \subseteq Registration
    BY <1>11 DEF TypeOK
  <2>2. changecnt' \in 0 .. Len(fdchanges')
    BY <1>3, <1>4, <1>5 DEF TypeOK
  <2>3. active' \subseteq Watchers
    BY <1>6 DEF TypeOK
  <2> QED BY <1>2, <1>3, <1>5, <1>6, <2>1, <2>2, <2>3 DEF TypeOK
<1>14. FilesInv'
  <2>1. \A gd \in Fds : HeadOf(gd)' \subseteq HeadOf(gd)
    BY <1>6 DEF HeadOf
  <2>2. ASSUME NEW r \in interest' PROVE IsOpen(r.file) /\ r.file \notin EpermFiles /\ r.mask # {}
    BY <1>2, <1>9, <1>11, <2>2 DEF FilesInv, IsOpen
  <2> QED BY <1>3, <2>1, <2>2 DEF FilesInv, IsOpen
<1>15. ReportsInv'
  BY <1>3 DEF ReportsInv
<1>16. ChangesInv'
  <2>1. Changed' \in SUBSET Fds /\ \A gd \in Fds : gd \in Changed' <=> anfds'[gd].reify # {}
    BY DEF Changed
  <2>2. ChangesMatch'
    BY <1>5, <2>1, ListsIs DEF ChangesMatch
  <2>3. ~failed' => Len(fdchanges') = Len(fdchanges) - 1
    BY <1>5 DEF ReifyKills
  <2> QED BY <1>3, <1>6, <2>2, <2>3 DEF ChangesInv
<1>17. GenerationsInv'
  <2>1. ASSUME NEW gd \in Fds, gd # fd
        PROVE  /\ \A r \in RegOf(gd)' : r.egen = anfds'[gd].egen /\ anfds'[gd].emask \in {{}, r.mask}
               /\ \A r \in RegsOf(gd)' :
                    /\ r.egen <= anfds'[gd].egen
                    /\ \A s \in RegsOf(gd)' : r.egen = s.egen => r.file = s.file
               /\ "EV_EMASK_EPERM" \in anfds'[gd].emask =>
                    gd \in epoll_eperms' /\ \A r \in RegsOf(gd)' : r.egen < anfds'[gd].egen
    <3>1. anfds'[gd] = anfds[gd] /\ RegOf(gd)' = RegOf(gd) /\ RegsOf(gd)' = RegsOf(gd)
      BY <1>2, <1>12, <2>1
    <3> QED BY <1>6, <3>1 DEF GenerationsInv
  <2>2. \A r \in RegsOf(fd) : r.egen \in Nat /\ r.egen <= anfds[fd].egen
    BY <1>2, <1>3 DEF GenerationsInv, RegsOf, TypeOK, Registration
  <2>3. \A r \in RegOf(fd)' : r.egen = anfds'[fd].egen /\ anfds'[fd].emask \in {{}, r.mask}
    <3>1. CASE ReifyNothing(fd)
      BY <1>2, <1>3, <3>1 DEF ReifyNothing, RegOf, GenerationsInv
    <3>2. CASE ReifyRefused(fd)
      BY <1>3, <3>2 DEF ReifyRefused, RegOf, FilesInv
    <3>3. CASE ReifySame(fd)
      BY <1>2, <1>3, <3>3 DEF ReifySame, RegOf, GenerationsInv
    <3>4. CASE ReifyRegisters(fd)
      <4>1. anfds'[fd].emask = Wanted(fd) /\ anfds'[fd].egen = anfds[fd].egen + 1
        BY <3>4 DEF ReifyRegisters
      <4>2. \A r \in RegOf(fd)' : r \in interest' /\ ~(r \in interest /\ r \notin RegOf(fd))
        BY <1>3 DEF RegOf
      <4> QED BY <1>11, <3>4, <4>1, <4>2
    <3>5. CASE ReifyKills(fd)
      BY <1>3, <3>5 DEF ReifyKills, RegOf
    <3> QED BY <1>2, <3>1, <3>2, <3>3, <3>4, <3>5 DEF ReifyDone
  <2>4. ASSUME NEW r \in RegsOf(fd)'
        PROVE  /\ r.egen <= anfds'[fd].egen
               /\ "EV_EMASK_EPERM" \in anfds'[fd].emask => r.egen < anfds'[fd].egen
               /\ \A s \in RegsOf(fd)' : r.egen = s.egen => r.file = s.file
    <3>1. ~ReifyRegisters(fd) => RegsOf(fd)' = RegsOf(fd)
      BY <1>3, <1>10 DEF RegsOf
    <3>2. CASE ReifyRegisters(fd)
      <4>1. /\ anfds'[fd].emask = Wanted(fd) /\ anfds'[fd].egen = anfds[fd].egen + 1
            /\ "EV_EMASK_EPERM" \notin anfds'[fd].emask
        BY <1>8, <3>2 DEF ReifyRegisters, Masks, EV_RW
      <4>2. ASSUME NEW s \in RegsOf(fd)'
            PROVE  \/ s \in RegsOf(fd) /\ s.egen \in Nat /\ s.egen <= anfds[fd].egen
                   \/ s.file = file[fd] /\ s.egen = anfds[fd].egen + 1
        <5>1. s \in interest' /\ s.fd = fd
          BY <1>3 DEF RegsOf
        <5> QED BY <1>11, <2>2, <5>1 DEF RegsOf
      <4> QED BY <1>2, <1>8, <2>4, <4>1, <4>2 DEF GenerationsInv
    <3>3. CASE ~ReifyRegisters(fd)
      <4>1. /\ r \in RegsOf(fd) /\ r.egen \in Nat /\ r.egen <= anfds[fd].egen
            /\ \A s \in RegsOf(fd)' : r.egen = s.egen => r.file = s.file
        BY <1>2, <2>2, <2>4, <3>1, <3>3 DEF GenerationsInv
      <4>2. "EV_EMASK_EPERM" \in anfds'[fd].emask => r.egen < anfds'[fd].egen
        <5>1. CASE ReifyNothing(fd)
          BY <1>2, <4>1, <5>1 DEF ReifyNothing, GenerationsInv
        <5>2. CASE ReifyRefused(fd)
          BY <1>8, <4>1, <5>2 DEF ReifyRefused
        <5>3. CASE ReifySame(fd) \/ ReifyKills(fd)
          BY <1>8, <5>3 DEF ReifySame, ReifyKills, Masks, EV_RW
        <5> QED BY <1>2, <3>3, <5>1, <5>2, <5>3 DEF ReifyDone
      <4>3. r.egen <= anfds'[fd].egen
        BY <1>8, <1>2, <4>1 DEF ANFD
      <4> QED BY <4>1, <4>2, <4>3
    <3> QED BY <3>2, <3>3
  <2>5. "EV_EMASK_EPERM" \in anfds'[fd].emask => fd \in epoll_eperms'
    <3>1. CASE ReifyNothing(fd)
      BY <1>2, <3>1 DEF ReifyNothing, GenerationsInv
    <3>2. CASE ReifyRefused(fd)
      BY <3>2 DEF ReifyRefused
    <3>3. CASE ReifySame(fd) \/ ReifyRegisters(fd) \/ ReifyKills(fd)
      BY <1>8, <3>3 DEF ReifySame, ReifyRegisters, ReifyKills, Masks, EV_RW
    <3> QED BY <1>2, <3>1, <3>2, <3>3 DEF ReifyDone
  <2>6. ASSUME NEW r \in unwanted' PROVE r.egen <= anfds'[r.fd].egen
    <3>1. r \in unwanted /\ r \in Registration /\ r.egen <= anfds[r.fd].egen
      BY <1>3, <2>6 DEF TypeOK, GenerationsInv
    <3>2. r.fd \in Fds /\ r.egen \in Nat
      BY <3>1 DEF Registration
    <3>3. CASE r.fd = fd
      <4>1. anfds'[fd].egen \in Nat
        BY <1>2 DEF ANFD
      <4> QED BY <1>8, <3>1, <3>2, <3>3, <4>1
    <3>4. CASE r.fd # fd
      BY <1>2, <3>1, <3>2, <3>4
    <3> QED BY <3>3, <3>4
  <2>7. \A gd \in Fds : gd = fd \/ gd # fd
    OBVIOUS
  <2> QED BY <2>1, <2>3, <2>4, <2>5, <2>6, <2>7 DEF GenerationsInv
<1>18. SettledInv'
  <2>1. ReifyDone(fd) => HeadOf(fd)' = HeadOf(fd) /\ Wanted(fd)' = Wanted(fd)
    BY DEF ReifyDone, ReifyNothing, ReifyRefused, ReifySame, ReifyRegisters, HeadOf, Wanted
  <2>2. ASSUME NEW gd \in Fds, anfds'[gd].reify = {} PROVE anfds'[gd].events = Wanted(gd)'
    <3>1. CASE gd = fd
      BY <1>2, <2>1, <2>2, <3>1 DEF ReifyKills
    <3>2. CASE gd # fd
      BY <1>2, <1>7, <2>2, <3>2 DEF SettledInv
    <3> QED BY <3>1, <3>2
  <2>3. ASSUME ~failed', NEW gd \in Fds, anfds'[gd].events # {}, "EV__IOFDSET" \notin anfds'[gd].reify
        PROVE  \/ \E r \in RegOf(gd)' : anfds'[gd].events \subseteq r.mask
               \/ file'[gd] \in EpermFiles /\ "EV_EMASK_EPERM" \in anfds'[gd].emask
               \/ /\ HeadOf(gd)' = {}
                  /\ file'[gd] = NoFile \/ \A v \in Watchers : Fd[v] = gd => v \in iofdset'
    <3>1. CASE gd # fd
      BY <1>2, <1>3, <1>6, <1>7, <1>12, <2>3, <3>1 DEF SettledInv
    <3>2. CASE gd = fd
      <4>1. ReifyDone(fd) /\ Wanted(fd) # {} /\ HeadOf(fd) # {}
        BY <1>2, <2>3, <3>2 DEF ReifyKills, Wanted
      <4>2. CASE ReifyNothing(fd)
        <5>1. /\ anfds[fd].events = Wanted(fd) /\ "EV__IOFDSET" \notin anfds[fd].reify
              /\ anfds'[fd].emask = anfds[fd].emask /\ RegOf(fd)' = RegOf(fd)
          BY <1>3, <4>1, <4>2 DEF ReifyNothing, RegOf
        <5> QED BY <1>2, <1>3, <1>6, <2>3, <3>2, <4>1, <5>1 DEF SettledInv
      <4>3. CASE ReifyRefused(fd)
        BY <1>3, <3>2, <4>3 DEF ReifyRefused
      <4>4. CASE ReifySame(fd)
        <5>1. RegOf(fd)' = RegOf(fd) /\ RegOf(fd) # {} /\ anfds[fd].emask = Wanted(fd)
          BY <1>3, <4>4 DEF ReifySame, RegOf
        <5>2. \A r \in RegOf(fd) : r.mask = Wanted(fd)
          BY <1>2, <4>1, <5>1 DEF GenerationsInv
        <5> QED BY <1>2, <3>2, <5>1, <5>2
      <4>5. CASE ReifyRegisters(fd)
        <5> DEFINE new == [fd |-> fd, file |-> file[fd], mask |-> Wanted(fd),
                           egen |-> anfds[fd].egen + 1]
        <5>1. new \in interest' /\ new.fd = fd /\ new.file = file'[fd] /\ new.mask = Wanted(fd)
          BY <1>3, <1>9, <4>5
        <5> HIDE DEF new
        <5>2. new \in RegOf(fd)'
          BY <5>1 DEF RegOf
        <5> QED BY <1>2, <3>2, <5>1, <5>2
      <4> QED BY <4>1, <4>2, <4>3, <4>4, <4>5 DEF ReifyDone
    <3> QED BY <3>1, <3>2
  <2> QED BY <2>2, <2>3 DEF SettledInv
<1>19. UnwantedInv'
  <2>1. unwanted \cap interest = {}
    BY <1>3 DEF UnwantedInv
  <2>2. ASSUME NEW r \in unwanted, r \in interest' PROVE FALSE
    <3>1. r.fd = fd /\ r.egen = anfds[fd].egen + 1
      BY <1>11, <2>1, <2>2
    <3>2. r.egen <= anfds[fd].egen
      BY <3>1 DEF GenerationsInv
    <3> QED BY <1>8, <3>1, <3>2
  <2> QED BY <1>3, <2>2 DEF UnwantedInv
<1> QED BY <1>13, <1>14, <1>15, <1>16, <1>17, <1>18, <1>19

-----------------------------------------------------------------------------
\* A report of the generation libev believes in is one of the fd's file, if the
\* fd has a registration
LEMMA NotStale ==
  ASSUME EpollInv, NEW e \in reports, ~IsStale(e), RegOf(e.reg.fd) # {}
  PROVE  e.reg.file = file[e.reg.fd]
<1> DEFINE fd == e.reg.fd
<1>1. fd \in Fds /\ e.reg \in RegsOf(fd)
  BY DEF EpollInv, TypeOK, Report, Registration, RegsOf
<1>2. PICK r : r \in RegOf(fd)
  OBVIOUS
<1>3. r \in RegsOf(fd) /\ r.file = file[fd]
  BY <1>2 DEF RegOf, RegsOf
<1>4. r.egen = anfds[fd].egen
  BY <1>1, <1>2 DEF EpollInv, GenerationsInv
<1>5. e.reg.egen = anfds[fd].egen
  BY DEF IsStale
<1> HIDE DEF fd
<1>6. e.reg.file = r.file
  BY <1>1, <1>3, <1>4, <1>5 DEF EpollInv, GenerationsInv
<1> QED BY <1>3, <1>6 DEF fd

\* What GatherReport does with a report: it is stale, wanted, or changes the
\* registration

GatherStale(e) ==
  /\ IsStale(e)
  /\ postfork' = TRUE /\ UNCHANGED <<interest, anfds, pend>>

GatherWanted(e) ==
  /\ ~IsStale(e) /\ e.got \subseteq anfds[e.reg.fd].events
  /\ FdEvent(e.reg.fd, e.got) /\ UNCHANGED <<interest, anfds, postfork>>

GatherGone(e) ==
  /\ ~IsStale(e) /\ RegOf(e.reg.fd) = {}
  /\ anfds' = [anfds EXCEPT ![e.reg.fd].emask = anfds[e.reg.fd].events]
  /\ postfork' = TRUE /\ UNCHANGED <<interest, pend>>

GatherTells(e) ==
  /\ ~IsStale(e) /\ RegOf(e.reg.fd) # {}
  /\ anfds' = [anfds EXCEPT ![e.reg.fd].emask = anfds[e.reg.fd].events]
  /\ Tell(e.reg.fd, anfds[e.reg.fd].events, e.reg.egen)
  /\ FdEvent(e.reg.fd, e.got) /\ UNCHANGED postfork

LEMMA GatherReportDoes ==
  ASSUME NEW e, GatherReport(e)
  PROVE  GatherStale(e) \/ GatherWanted(e) \/ GatherGone(e) \/ GatherTells(e)
BY DEF GatherReport, GatherStale, GatherWanted, GatherGone, GatherTells

LEMMA EmaskSet ==
  ASSUME TypeOK, NEW fd \in Fds, NEW m \in Masks, anfds' = [anfds EXCEPT ![fd].emask = m]
  PROVE  /\ anfds' \in [Fds -> ANFD] /\ anfds'[fd].emask = m
         /\ \A gd \in Fds : gd # fd => anfds'[gd] = anfds[gd]
         /\ \A gd \in Fds : /\ anfds'[gd].events = anfds[gd].events
                            /\ anfds'[gd].reify = anfds[gd].reify
                            /\ anfds'[gd].egen = anfds[gd].egen
<1>1. anfds \in [Fds -> ANFD] /\ anfds[fd] \in ANFD
  BY DEF TypeOK
<1>2. PICK a \in ANFD : a = anfds[fd] /\ anfds' = [anfds EXCEPT ![fd] = [a EXCEPT !.emask = m]]
  BY <1>1
<1>3. /\ [a EXCEPT !.emask = m] \in ANFD /\ [a EXCEPT !.emask = m].emask = m
      /\ [a EXCEPT !.emask = m].events = a.events
      /\ [a EXCEPT !.emask = m].reify = a.reify
      /\ [a EXCEPT !.emask = m].egen = a.egen
  BY DEF ANFD
<1> QED BY <1>1, <1>2, <1>3

LEMMA FdEventType ==
  ASSUME TypeOK, NEW fd, NEW revents, FdEvent(fd, revents)
  PROVE  pend' \in [Watchers -> SUBSET (EV_RW \cup {"EV_ERROR"})]
<1>1. \A w \in Watchers : Events[w] \cap revents \in SUBSET (EV_RW \cup {"EV_ERROR"})
  BY EpollAssumption
<1>2. \A w \in Watchers : pend[w] \cup (Events[w] \cap revents) \in SUBSET (EV_RW \cup {"EV_ERROR"})
  BY <1>1 DEF TypeOK
<1> QED BY <1>2 DEF FdEvent, TypeOK

LEMMA GatherReportEpollInv ==
  ASSUME EpollInv, NEW e \in reports, GatherReport(e) PROVE EpollInv'
<1> USE DEF EpollInv
<1>1. PICK fd \in Fds, want \in Masks : fd = e.reg.fd /\ want = anfds[fd].events
  <2>1. e.reg.fd \in Fds
    BY DEF TypeOK, Report, Registration
  <2>2. anfds[e.reg.fd].events \in Masks
    BY <2>1 DEF TypeOK, ANFD
  <2> QED BY <2>1, <2>2
<1>2. /\ phase = "gather" /\ reports' = reports \ {e}
      /\ unwanted' = IF IsStale(e) \/ e.got \cap want = {} THEN unwanted \cup {e.reg} ELSE unwanted
      /\ UNCHANGED <<file, others, active, iofdset, fdchanges, epoll_eperms, phase, changecnt,
                    failed>>
  BY <1>1 DEF GatherReport
<1>3. GatherStale(e) \/ GatherWanted(e) \/ GatherGone(e) \/ GatherTells(e)
  BY GatherReportDoes
<1>4. /\ anfds' \in [Fds -> ANFD]
      /\ \A gd \in Fds : /\ anfds'[gd].events = anfds[gd].events
                         /\ anfds'[gd].reify = anfds[gd].reify
                         /\ anfds'[gd].egen = anfds[gd].egen
                         /\ gd # fd => anfds'[gd] = anfds[gd]
      /\ \/ anfds'[fd] = anfds[fd] /\ (GatherStale(e) \/ GatherWanted(e))
         \/ anfds'[fd].emask = want /\ (GatherGone(e) \/ GatherTells(e))
  <2>1. CASE GatherStale(e) \/ GatherWanted(e)
    BY <2>1 DEF GatherStale, GatherWanted, TypeOK
  <2>2. CASE GatherGone(e) \/ GatherTells(e)
    <3>1. anfds' = [anfds EXCEPT ![fd].emask = want]
      BY <1>1, <2>2 DEF GatherGone, GatherTells
    <3> QED BY <2>2, <3>1, EmaskSet
  <2> QED BY <1>3, <2>1, <2>2
<1>5. pend' \in [Watchers -> SUBSET (EV_RW \cup {"EV_ERROR"})] /\ postfork' \in BOOLEAN
  <2>1. CASE GatherStale(e) \/ GatherGone(e)
    BY <2>1 DEF GatherStale, GatherGone, TypeOK
  <2>2. CASE GatherWanted(e) \/ GatherTells(e)
    BY <2>2, FdEventType DEF GatherWanted, GatherTells, TypeOK
  <2> QED BY <1>3, <2>1, <2>2
<1>6. e.reg \in Registration /\ e.reg \in RegsOf(fd)
  BY <1>1 DEF TypeOK, Report, RegsOf, Registration
<1>7. GatherTells(e) => e.reg.file = file[fd] /\ e.reg.egen = anfds[fd].egen
  BY <1>1, NotStale DEF GatherTells, IsStale
<1>8. ASSUME NEW r \in interest'
      PROVE  \/ r \in interest /\ (GatherTells(e) => r \notin RegOf(fd))
             \/ /\ GatherTells(e) /\ r \in Registration /\ r.fd = fd /\ r.file = file[fd]
                /\ r.mask = want /\ want # {} /\ r.egen = anfds[fd].egen
  <2>1. CASE GatherTells(e)
    <3>1. CASE want = {}
      <4>1. interest' = interest \ RegOf(fd)
        BY <1>1, <2>1, <3>1 DEF GatherTells, Tell
      <4> QED BY <1>8, <4>1
    <3>2. CASE want # {}
      <4>1. interest' = (interest \ RegOf(fd)) \cup
              {[fd |-> fd, file |-> file[fd], mask |-> want, egen |-> e.reg.egen]}
        BY <1>1, <2>1, <3>2 DEF GatherTells, Tell, Register
      <4>2. file[fd] \in Files /\ e.reg.egen \in Nat
        BY <1>6, <1>7, <2>1 DEF Registration
      <4> QED BY <1>1, <1>7, <1>8, <2>1, <3>2, <4>1, <4>2 DEF Registration
    <3> QED BY <3>1, <3>2
  <2>2. CASE ~GatherTells(e)
    <3>1. interest' = interest
      BY <1>3, <2>2 DEF GatherStale, GatherWanted, GatherGone
    <3> QED BY <1>8, <2>2, <3>1
  <2> QED BY <2>1, <2>2
<1>9. \A gd \in Fds : HeadOf(gd)' = HeadOf(gd) /\ Wanted(gd)' = Wanted(gd)
  BY <1>2 DEF HeadOf, Wanted
<1>10. TypeOK'
  <2>1. interest' \subseteq Registration
    BY <1>8 DEF TypeOK
  <2>2. unwanted' \subseteq Registration /\ reports' \subseteq Report
    BY <1>2, <1>6 DEF TypeOK
  <2> QED BY <1>2, <1>4, <1>5, <2>1, <2>2 DEF TypeOK
<1>11. FilesInv'
  <2>1. ASSUME NEW r \in interest' PROVE IsOpen(r.file) /\ r.file \notin EpermFiles /\ r.mask # {}
    <3>1. CASE r \in interest
      BY <3>1 DEF FilesInv
    <3>2. CASE r \notin interest
      <4>1. GatherTells(e) /\ r.file = file[fd] /\ r.mask # {}
        BY <1>8, <2>1, <3>2
      <4>2. PICK s \in interest : s.file = file[fd]
        BY <1>1, <4>1 DEF GatherTells, RegOf
      <4> QED BY <4>1, <4>2 DEF FilesInv
    <3> QED BY <3>1, <3>2
  <2> QED BY <1>2, <1>9, <2>1 DEF FilesInv, IsOpen
<1>12. ReportsInv'
  BY <1>2 DEF ReportsInv
<1>13. ChangesInv'
  BY <1>2, <1>4 DEF ChangesInv, ChangesMatch
<1>14. ASSUME NEW gd \in Fds, gd # fd
       PROVE  RegOf(gd)' = RegOf(gd) /\ RegsOf(gd)' \subseteq RegsOf(gd)
  <2>1. \A r : r.fd # fd => (r \in interest' <=> r \in interest)
    <3>1. \A r : r.fd # fd /\ r \in interest' => r \in interest
      BY <1>8
    <3>2. \A r : r.fd # fd /\ r \in interest => r \in interest'
      BY <1>1, <1>3 DEF GatherStale, GatherWanted, GatherGone, GatherTells, Tell, Register, RegOf
    <3> QED BY <3>1, <3>2
  <2> QED BY <1>2, <1>14, <2>1 DEF RegOf, RegsOf
<1>15. GenerationsInv'
  <2>1. ASSUME NEW gd \in Fds, gd # fd
        PROVE  /\ \A r \in RegOf(gd)' : r.egen = anfds'[gd].egen /\ anfds'[gd].emask \in {{}, r.mask}
               /\ \A r \in RegsOf(gd)' :
                    /\ r.egen <= anfds'[gd].egen
                    /\ \A s \in RegsOf(gd)' : r.egen = s.egen => r.file = s.file
               /\ "EV_EMASK_EPERM" \in anfds'[gd].emask =>
                    gd \in epoll_eperms' /\ \A r \in RegsOf(gd)' : r.egen < anfds'[gd].egen
    <3>1. anfds'[gd] = anfds[gd] /\ RegOf(gd)' = RegOf(gd) /\ RegsOf(gd)' \subseteq RegsOf(gd)
      BY <1>4, <1>14, <2>1
    <3> QED BY <1>2, <3>1 DEF GenerationsInv
  <2>2. \A r \in RegOf(fd)' : r.egen = anfds'[fd].egen /\ anfds'[fd].emask \in {{}, r.mask}
    <3>1. CASE GatherStale(e) \/ GatherWanted(e)
      <4>1. RegOf(fd)' = RegOf(fd) /\ anfds'[fd] = anfds[fd]
        BY <1>2, <3>1 DEF GatherStale, GatherWanted, RegOf
      <4> QED BY <4>1 DEF GenerationsInv
    <3>2. CASE GatherGone(e)
      <4>1. RegOf(fd)' = {}
        BY <1>1, <1>2, <3>2 DEF GatherGone, RegOf
      <4> QED BY <4>1
    <3>3. CASE GatherTells(e)
      <4>1. \A r \in RegOf(fd)' : r \in interest' /\ ~(r \in interest /\ r \notin RegOf(fd))
        BY <1>2 DEF RegOf
      <4>2. anfds'[fd].emask = want
        <5>1. anfds' = [anfds EXCEPT ![fd].emask = want]
          BY <1>1, <3>3 DEF GatherTells
        <5> QED BY <5>1, EmaskSet
      <4> QED BY <1>4, <1>8, <3>3, <4>1, <4>2
    <3> QED BY <1>3, <3>1, <3>2, <3>3
  <2>3. ASSUME NEW r \in RegsOf(fd)'
        PROVE  \E s \in RegsOf(fd) : s.egen = r.egen /\ s.file = r.file
    <3>1. CASE r \in RegsOf(fd)
      BY <3>1
    <3>2. CASE r \notin RegsOf(fd)
      <4>1. r \in interest' /\ r \notin interest /\ r.fd = fd
        BY <1>2, <2>3, <3>2 DEF RegsOf
      <4>2. GatherTells(e) /\ r.egen = anfds[fd].egen /\ r.file = file[fd]
        BY <1>8, <4>1
      <4> QED BY <1>6, <1>7, <4>2
    <3> QED BY <3>1, <3>2
  <2>4. \A r \in RegsOf(fd)' :
          /\ r.egen <= anfds'[fd].egen
          /\ \A s \in RegsOf(fd)' : r.egen = s.egen => r.file = s.file
    BY <1>4, <2>3 DEF GenerationsInv
  <2>5. "EV_EMASK_EPERM" \in anfds'[fd].emask =>
          fd \in epoll_eperms' /\ \A r \in RegsOf(fd)' : r.egen < anfds'[fd].egen
    <3>1. "EV_EMASK_EPERM" \notin want
      BY <1>1 DEF Masks, EV_RW
    <3>2. "EV_EMASK_EPERM" \in anfds'[fd].emask => anfds'[fd] = anfds[fd]
      BY <1>4, <3>1
    <3> QED BY <1>2, <2>3, <3>2 DEF GenerationsInv
  <2>6. ASSUME NEW r \in unwanted' PROVE r.egen <= anfds'[r.fd].egen
    <3>1. r \in Registration /\ (r \in unwanted \/ r = e.reg)
      BY <1>2, <1>6, <2>6 DEF TypeOK
    <3>2. r.fd \in Fds /\ r.egen <= anfds[r.fd].egen
      BY <1>1, <1>6, <3>1 DEF Registration, GenerationsInv
    <3> QED BY <1>4, <3>2
  <2> QED BY <2>1, <2>2, <2>4, <2>5, <2>6 DEF GenerationsInv
<1>16. SettledInv'
  <2>1. \A gd \in Fds : anfds'[gd].reify = {} => anfds'[gd].events = Wanted(gd)'
    BY <1>4, <1>9 DEF SettledInv
  <2>2. ASSUME ~failed', NEW gd \in Fds, anfds'[gd].events # {}, "EV__IOFDSET" \notin anfds'[gd].reify
        PROVE  \/ \E r \in RegOf(gd)' : anfds'[gd].events \subseteq r.mask
               \/ file'[gd] \in EpermFiles /\ "EV_EMASK_EPERM" \in anfds'[gd].emask
               \/ /\ HeadOf(gd)' = {}
                  /\ file'[gd] = NoFile \/ \A v \in Watchers : Fd[v] = gd => v \in iofdset'
    <3>1. \/ \E r \in RegOf(gd) : anfds[gd].events \subseteq r.mask
          \/ file[gd] \in EpermFiles /\ "EV_EMASK_EPERM" \in anfds[gd].emask
          \/ /\ HeadOf(gd) = {}
             /\ file[gd] = NoFile \/ \A v \in Watchers : Fd[v] = gd => v \in iofdset
      BY <1>2, <1>4, <2>2 DEF SettledInv
    <3>2. CASE gd # fd
      <4>1. anfds'[gd] = anfds[gd] /\ RegOf(gd)' = RegOf(gd)
        BY <1>4, <1>14, <3>2
      <4> QED BY <1>2, <1>9, <3>1, <4>1
    <3>3. CASE gd = fd /\ (GatherStale(e) \/ GatherWanted(e))
      <4>1. RegOf(fd)' = RegOf(fd) /\ anfds'[fd] = anfds[fd]
        BY <1>2, <3>3 DEF GatherStale, GatherWanted, RegOf
      <4> QED BY <1>2, <1>9, <3>1, <3>3, <4>1
    <3>4. CASE gd = fd /\ (GatherGone(e) \/ GatherTells(e))
      <4>1. ~IsStale(e)
        BY <3>4 DEF GatherGone, GatherTells
      <4>2. "EV_EMASK_EPERM" \notin anfds[fd].emask
        <5>1. e.reg.egen = anfds[fd].egen /\ anfds[fd].egen \in Nat
          BY <1>1, <1>6, <4>1 DEF IsStale, Registration
        <5> QED BY <1>6, <5>1 DEF GenerationsInv
      <4>3. CASE GatherGone(e)
        <5>1. RegOf(fd) = {}
          BY <1>1, <4>3 DEF GatherGone
        <5> QED BY <1>2, <1>9, <3>1, <3>4, <4>2, <5>1
      <4>4. CASE GatherTells(e)
        <5>1. want # {}
          BY <1>1, <1>4, <2>2, <3>4
        <5> DEFINE new == [fd |-> fd, file |-> file[fd], mask |-> want, egen |-> e.reg.egen]
        <5>2. new \in interest' /\ new.fd = fd /\ new.file = file'[fd] /\ new.mask = want
          BY <1>1, <1>2, <4>4, <5>1 DEF GatherTells, Tell, Register
        <5> HIDE DEF new
        <5>3. new \in RegOf(fd)'
          BY <5>2 DEF RegOf
        <5> QED BY <1>1, <1>4, <3>4, <5>2, <5>3
      <4> QED BY <3>4, <4>3, <4>4
    <3> QED BY <1>3, <3>2, <3>3, <3>4
  <2> QED BY <2>1, <2>2 DEF SettledInv
<1>17. UnwantedInv'
  <2>1. CASE postfork' = TRUE
    BY <1>2, <2>1 DEF UnwantedInv
  <2>2. CASE postfork' # TRUE
    <3>1. ~postfork /\ (GatherWanted(e) \/ GatherTells(e))
      BY <1>3, <2>2 DEF GatherStale, GatherWanted, GatherGone, GatherTells
    <3>2. unwanted \cap interest = {} /\ \A r \in unwanted : r.mask # anfds[r.fd].events
      BY <1>2, <3>1 DEF UnwantedInv
    <3>3. e.reg.mask # {} /\ e.got # {} /\ (e.got \subseteq e.reg.mask \/ e.got = EV_RW)
      BY DEF ReportsInv
    <3>4. e.reg \in unwanted' => e.reg.mask # want
      <4>1. CASE e.got \cap want = {}
        <5>1. want \in SUBSET EV_RW
          BY <1>1 DEF Masks
        <5> QED BY <3>3, <4>1, <5>1
      <4>2. CASE ~(e.got \cap want = {})
        <5>1. e.reg \in unwanted' => e.reg \in unwanted
          BY <1>2, <3>1, <4>2 DEF GatherWanted, GatherTells
        <5> QED BY <1>1, <3>2, <5>1
      <4> QED BY <4>1, <4>2
    <3>5. ASSUME NEW r \in unwanted' PROVE r \notin interest' /\ r.mask # anfds'[r.fd].events
      <4>1. CASE r \in unwanted
        <5>1. r.fd \in Fds /\ r.mask # anfds'[r.fd].events
          BY <1>4, <3>2, <4>1 DEF TypeOK, Registration
        <5>2. r.fd = fd => r.mask # want
          BY <1>1, <3>2, <4>1
        <5> QED BY <1>8, <3>2, <4>1, <5>1, <5>2
      <4>2. CASE r \notin unwanted
        <5>1. r = e.reg /\ e.got \cap want = {}
          BY <1>2, <3>1, <3>5, <4>2 DEF GatherWanted, GatherTells
        <5>2. r.mask # want /\ GatherTells(e)
          BY <1>1, <3>1, <3>3, <3>4, <3>5, <5>1 DEF GatherWanted
        <5>3. r \in interest => r \in RegOf(fd)
          BY <1>1, <1>7, <5>1, <5>2 DEF RegOf
        <5> QED BY <1>1, <1>4, <1>8, <5>1, <5>2, <5>3
      <4> QED BY <4>1, <4>2
    <3> QED BY <1>2, <3>5 DEF UnwantedInv
  <2> QED BY <2>1, <2>2
<1> QED BY <1>10, <1>11, <1>12, <1>13, <1>15, <1>16, <1>17

LEMMA GatherEpermsEpollInv ==
  ASSUME EpollInv, GatherEperms PROVE EpollInv'
<1> USE DEF EpollInv
<1>1. /\ phase = "gather" /\ phase' = "user" /\ reports = {}
      /\ UNCHANGED <<file, others, interest, active, iofdset, fdchanges, postfork, changecnt,
                    reports, unwanted, failed>>
  BY DEF GatherEperms, kvars
<1>2. ASSUME NEW fd \in Fds
      PROVE  /\ anfds'[fd] \in ANFD
             /\ anfds'[fd].events = anfds[fd].events
             /\ anfds'[fd].reify = anfds[fd].reify
             /\ anfds'[fd].egen = anfds[fd].egen
             /\ anfds'[fd].emask \in {{}, anfds[fd].emask}
             /\ "EV_EMASK_EPERM" \in anfds'[fd].emask => fd \in epoll_eperms'
             /\ /\ anfds[fd].events # {}
                /\ "EV_EMASK_EPERM" \in anfds[fd].emask
                => "EV_EMASK_EPERM" \in anfds'[fd].emask
  <2> DEFINE Ready == "EV_EMASK_EPERM" \in anfds[fd].emask /\ anfds[fd].events # {}
  <2>1. anfds'[fd] = IF fd \in epoll_eperms /\ ~Ready THEN [anfds[fd] EXCEPT !.emask = {}]
                     ELSE anfds[fd]
    BY DEF GatherEperms
  <2>2. fd \in epoll_eperms' <=> fd \in epoll_eperms /\ Ready
    BY DEF GatherEperms
  <2>3. anfds[fd] \in ANFD
    BY DEF TypeOK
  <2>4. "EV_EMASK_EPERM" \in anfds[fd].emask => fd \in epoll_eperms
    BY DEF GenerationsInv
  <2>5. CASE fd \in epoll_eperms /\ ~Ready
    BY <2>1, <2>3, <2>5 DEF ANFD, Masks
  <2>6. CASE ~(fd \in epoll_eperms /\ ~Ready)
    BY <2>1, <2>2, <2>3, <2>4, <2>6
  <2> QED BY <2>5, <2>6
<1>3. \A fd \in Fds : /\ HeadOf(fd)' = HeadOf(fd) /\ Wanted(fd)' = Wanted(fd)
                      /\ RegOf(fd)' = RegOf(fd) /\ RegsOf(fd)' = RegsOf(fd)
  BY <1>1 DEF HeadOf, Wanted, RegOf, RegsOf
<1>4. TypeOK'
  <2>1. anfds' \in [Fds -> ANFD]
    BY <1>2 DEF GatherEperms
  <2>2. epoll_eperms' \subseteq Fds
    BY DEF GatherEperms, TypeOK
  <2>3. pend' \in [Watchers -> SUBSET (EV_RW \cup {"EV_ERROR"})]
    <3>1. \A w \in Watchers : pend[w] \cup (Events[w] \cap anfds[Fd[w]].events)
                               \in SUBSET (EV_RW \cup {"EV_ERROR"})
      BY EpollAssumption DEF TypeOK
    <3> QED BY <3>1 DEF GatherEperms, TypeOK
  <2> QED BY <1>1, <2>1, <2>2, <2>3 DEF TypeOK
<1>5. FilesInv'
  BY <1>1, <1>3 DEF FilesInv, IsOpen
<1>6. ReportsInv'
  BY <1>1 DEF ReportsInv
<1>7. ChangesInv'
  BY <1>1, <1>2 DEF ChangesInv, ChangesMatch
<1>8. GenerationsInv'
  <2>1. \A fd \in Fds : \A r \in RegOf(fd)' :
          r.egen = anfds'[fd].egen /\ anfds'[fd].emask \in {{}, r.mask}
    BY <1>2, <1>3 DEF GenerationsInv
  <2>2. \A fd \in Fds : \A r \in RegsOf(fd)' :
          /\ r.egen <= anfds'[fd].egen
          /\ \A s \in RegsOf(fd)' : r.egen = s.egen => r.file = s.file
    BY <1>2, <1>3 DEF GenerationsInv
  <2>3. \A r \in unwanted : r.fd \in Fds
    BY DEF TypeOK, Registration
  <2>4. \A r \in unwanted' : r.egen <= anfds'[r.fd].egen
    BY <1>1, <1>2, <2>3 DEF GenerationsInv
  <2>5. \A fd \in Fds : "EV_EMASK_EPERM" \in anfds'[fd].emask =>
          fd \in epoll_eperms' /\ \A r \in RegsOf(fd)' : r.egen < anfds'[fd].egen
    BY <1>2, <1>3 DEF GenerationsInv
  <2> QED BY <2>1, <2>2, <2>4, <2>5 DEF GenerationsInv
<1>9. SettledInv'
  BY <1>1, <1>2, <1>3 DEF SettledInv
<1>10. UnwantedInv'
  BY <1>1 DEF UnwantedInv
<1> QED BY <1>4, <1>5, <1>6, <1>7, <1>8, <1>9, <1>10

-----------------------------------------------------------------------------
LEMMA StepEpollInv ==
  EpollInv /\ [Next]_vars => EpollInv'
<1> SUFFICES ASSUME EpollInv, [Next]_vars PROVE EpollInv'
  OBVIOUS
<1>1. CASE Next
  BY <1>1, EvIoSetEpollInv, EvIoStartEpollInv, EvIoStopEpollInv, InvokeEpollInv, OpenEpollInv,
     CloseEpollInv, DupEpollInv, CloseOtherEpollInv, EvLoopForkEpollInv, IterateEpollInv,
     LoopForkEpollInv, FdReifyEpollInv, FdReifiedEpollInv, PollReturnsEpollInv,
     PollInterruptedEpollInv, GatherReportEpollInv, GatherEpermsEpollInv DEF Next
<1>2. CASE UNCHANGED vars
  <2> USE <1>2 DEF EpollInv, vars, kvars, avars, lvars
  <2>1. \A fd \in Fds : /\ HeadOf(fd)' = HeadOf(fd) /\ Wanted(fd)' = Wanted(fd)
                        /\ RegOf(fd)' = RegOf(fd) /\ RegsOf(fd)' = RegsOf(fd)
    BY DEF HeadOf, Wanted, RegOf, RegsOf
  <2>2. TypeOK' /\ ReportsInv' /\ UnwantedInv'
    BY DEF TypeOK, ReportsInv, UnwantedInv
  <2>3. FilesInv'
    BY <2>1 DEF FilesInv, IsOpen
  <2>4. ChangesInv'
    BY DEF ChangesInv, ChangesMatch
  <2>5. GenerationsInv'
    BY <2>1 DEF GenerationsInv
  <2>6. SettledInv'
    BY <2>1 DEF SettledInv
  <2> QED BY <2>2, <2>3, <2>4, <2>5, <2>6
<1> QED BY <1>1, <1>2

(***************************************************************************)
(* The inductive invariant of fds, registrations and generations, for any  *)
(* number of fds, files and watchers, also when epoll_ctl fails.           *)
(***************************************************************************)
THEOREM SpecEpollInv == Spec => []EpollInv
<1> QED BY InitEpollInv, StepEpollInv, PTL DEF Spec

(***************************************************************************)
(* A registration whose report nobody wanted is gone or changed when the   *)
(* loop polls again.                                                       *)
(***************************************************************************)
THEOREM UnwantedIsGone == Spec => []UnwantedGone
<1>1. EpollInv => UnwantedGone
  BY DEF EpollInv, UnwantedInv, UnwantedGone
<1> QED BY <1>1, SpecEpollInv, PTL

(***************************************************************************)
(* An fd is in fdchanges, and once, exactly when its reify flags are set;  *)
(* and as long as epoll_ctl has not failed, the kernel knows everything    *)
(* the active watchers want whenever the loop polls.                       *)
(***************************************************************************)
THEOREM KernelInSync == Spec => []EpollInSync
<1>1. EpollInv => EpollInSync
  <2>0. EpollInv => TypeOK /\ ChangesMatch
    BY DEF EpollInv, ChangesInv
  <2> SUFFICES ASSUME EpollInv, ~failed, phase = "poll", NEW fd \in Fds, Wanted(fd) # {} PROVE Registered(fd)
    BY <2>0 DEF EpollInSync, InSync
  <2> USE DEF EpollInv
  <2>1. anfds[fd].reify = {}
    <3>1. fdchanges = <<>>
      BY DEF ChangesInv
    <3>2. fd \notin ToSet(fdchanges)
      BY <3>1 DEF ToSet
    <3> QED BY <3>2 DEF ChangesInv, ChangesMatch
  <2>2. anfds[fd].events = Wanted(fd) /\ HeadOf(fd) # {}
    BY <2>1 DEF SettledInv, Wanted
  <2>3. \/ \E r \in RegOf(fd) : Wanted(fd) \subseteq r.mask
        \/ file[fd] \in EpermFiles /\ "EV_EMASK_EPERM" \in anfds[fd].emask
    BY <2>1, <2>2 DEF SettledInv
  <2> QED BY <2>3 DEF GenerationsInv, Registered
<1> QED BY <1>1, SpecEpollInv, PTL

(***************************************************************************)
(* As long as epoll_ctl has not failed, no watcher gets an event of a file *)
(* that its fd does not stand for any more.                                *)
(***************************************************************************)
THEOREM EventsAreOfTheFile == Spec => NoForeignEvents
<1>1. ASSUME EpollInv, ~failed, [Next]_vars, NEW e \in reports \ reports', NEW w \in Watchers,
             Fd[w] = e.reg.fd, pend'[w] # pend[w]
      PROVE  e.reg.file = file[e.reg.fd]
  <2> USE <1>1 DEF EpollInv
  <2>1. GatherReport(e)
    <3>1. phase = "gather" /\ ~UNCHANGED reports
      BY DEF ReportsInv
    <3>2. PICK d \in reports : GatherReport(d)
      BY <3>1 DEF Next, vars, kvars, avars, lvars, EvIoSet, EvIoStart, EvIoStop, Invoke, Open, Close,
        Dup, CloseOther, EvLoopFork, Iterate, LoopFork, FdReify, FdReified, PollReturns,
        PollInterrupted, GatherEperms
    <3> QED BY <3>2 DEF GatherReport
  <2>2. PICK fd \in Fds : fd = e.reg.fd
    BY DEF TypeOK, Report, Registration
  <2>3. ~IsStale(e) /\ FdEvent(fd, e.got)
    BY <2>1, <2>2, GatherReportDoes DEF GatherStale, GatherWanted, GatherGone, GatherTells
  <2>4. w \in HeadOf(fd) /\ anfds[fd].reify = {} /\ Events[w] # {}
    BY <2>3 DEF FdEvent, TypeOK
  <2>5. anfds[fd].events # {}
    BY <2>4 DEF SettledInv, Wanted
  <2>6. \/ RegOf(fd) # {}
        \/ "EV_EMASK_EPERM" \in anfds[fd].emask
    BY <2>4, <2>5 DEF SettledInv
  <2>7. "EV_EMASK_EPERM" \notin anfds[fd].emask
    <3>1. e.reg.egen = anfds[fd].egen /\ e.reg.egen \in Nat /\ e.reg \in RegsOf(fd)
      BY <2>2, <2>3 DEF IsStale, TypeOK, Report, Registration, RegsOf
    <3> QED BY <3>1 DEF GenerationsInv
  <2> QED BY <2>2, <2>3, <2>6, <2>7, NotStale
<1>2. EpollInv /\ [Next]_vars =>
        [~failed => \A e \in reports \ reports' : \A w \in Watchers :
           Fd[w] = e.reg.fd /\ pend'[w] # pend[w] => e.reg.file = file[e.reg.fd]]_vars
  BY <1>1
<1> QED BY <1>2, SpecEpollInv, PTL DEF Spec, NoForeignEvents

============================================================
