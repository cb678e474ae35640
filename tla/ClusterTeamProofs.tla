-------------------------- MODULE ClusterTeamProofs --------------------------
(***************************************************************************)
(* Theorems about ClusterTeam, for any number of cores, any entry points    *)
(* and any depth of the dispatch fifo: its types, StackOfTask, that it       *)
(* implements ForkJoin, and that no core waits in vain.                     *)
(*                                                                         *)
(* What a core's registers and its fifo say together is stated about values *)
(* r and q, not about the state, so that the lemmas about a pop, a push or  *)
(* a wake-up need no primes.  e and a are the entry point and the argument   *)
(* of the fork under way.                                                  *)
(***************************************************************************)
EXTENDS ClusterTeamRefinement, SequenceTheorems, FiniteSetTheorems, TLAPS

Word == FunctionWord \cup DataWord

(***************************************************************************)
(* The inductive invariant: one core                                       *)
(***************************************************************************)

\* The three words of a setup, at i in the fifo q; another function may follow.
SetupAt(q, i) ==
  /\ q[i].lsb = 1
  /\ i + 2 <= Len(q) /\ q[i + 1].kind = "top" /\ q[i + 2].kind = "size"
  /\ i + 3 <= Len(q) => IsFunction(q[i + 3])

\* The two words of a fork of the entry point e with the argument a, at i in the
\* fifo q; nothing follows.
EntryAt(q, i, e, a) ==
  /\ q[i].val = e /\ q[i].lsb = 0
  /\ Len(q) = i + 1 /\ q[i + 1].kind = "arg" /\ q[i + 1].val = a

\* The fifo q holds whole setups, after the rest of the one being popped, and then
\* at most one fork.
Frames(q, e, a) ==
  \A i \in 1..Len(q) : /\ q[i].kind = "setup" => SetupAt(q, i)
                       /\ q[i].kind = "entry" => EntryAt(q, i, e, a)

\* The rest of a setup is what a core in the middle of one will pop; a core that
\* is done with one finds a function.
ExpectsFunction(r, q) ==
  r.pc \in {"loop", "body", "dispatch", "asleep"} => (q # <<>> => IsFunction(q[1]))

ExpectsSetup(r, q) ==
  r.pc = "arg" /\ r.fn.kind = "setup" =>
    /\ r.fn.lsb = 1
    /\ 2 <= Len(q) /\ q[1].kind = "top" /\ q[2].kind = "size"
    /\ 3 <= Len(q) => IsFunction(q[3])

ExpectsKind(r) == r.pc = "arg" => r.fn.kind \in {"setup", "entry"}

ExpectsArg(r, q, e, a) ==
  r.pc = "arg" /\ r.fn.kind = "entry" =>
    /\ r.fn \in FunctionWord /\ r.fn.val = e /\ r.fn.lsb = 0
    /\ Len(q) = 1 /\ q[1].kind = "arg" /\ q[1].val = a

ExpectsSize(r, q) ==
  r.pc = "size" =>
    /\ r.fn.lsb = 1 /\ r.arg.kind = "top" /\ r.arg \in DataWord
    /\ 1 <= Len(q) /\ q[1].kind = "size"
    /\ 2 <= Len(q) => IsFunction(q[2])

\* s is the end of the sequence e.
Suffix(s, e) ==
  /\ Len(s) <= Len(e)
  /\ \A i \in 1..Len(s) : s[i] = e[Len(e) - Len(s) + i]

\* A core in an entry point, or about to leave it.
Busy(r) == r.pc \in {"run", "barrier", "sync"}

Works(r, q, e, a) ==
  Busy(r) => /\ q = <<>>
             /\ r.fn = EntryWord(e) /\ r.arg = ArgWord(a)
             /\ Suffix(r.todo, e)
             /\ r.pc = "barrier" => r.todo # <<>>
             /\ r.pc = "sync" => r.todo = <<>>

Fine(r, q, e, a) ==
  /\ Frames(q, e, a)
  /\ ExpectsFunction(r, q) /\ ExpectsKind(r) /\ ExpectsSetup(r, q)
  /\ ExpectsArg(r, q, e, a) /\ ExpectsSize(r, q)
  /\ Works(r, q, e, a)

\* The core has the entry point before it, or is in it.
Awaits(r, q) == HasEntry(q) \/ (r.pc = "arg" /\ r.fn.kind = "entry")
Involved(r, q) == Awaits(r, q) \/ Busy(r)

NoTop(q) == \A i \in 1..Len(q) : q[i].kind # "top"

\* The last stack top in the fifo q is in the stacks s.
LastTop(q, s) ==
  \A i \in 1..Len(q) :
    q[i].kind = "top" /\ (\A j \in 1..Len(q) : j > i => q[j].kind # "top")
      => q[i].val = s

\* Once it has popped all its setups, the core's stack is in s.
StackIn(r, q, s) ==
  /\ LastTop(q, s)
  /\ NoTop(q) => IF r.pc = "size" THEN r.arg.val = s ELSE r.sp = s

\* How often the core has yet to trigger a barrier in this fork.
ToTrigger(r, q, e) ==
  IF r.pc = "run" THEN Len(r.todo) + 1
  ELSE IF r.pc = "barrier" THEN Len(r.todo)
  ELSE IF r.pc = "sync" THEN 1
  ELSE IF Awaits(r, q) THEN Len(e) + 1
  ELSE 0

(***************************************************************************)
(* The inductive invariant: all cores                                      *)
(***************************************************************************)

JobEntry == core[MASTER].fn.val
JobArg == core[MASTER].arg.val
Team == mask[SYNC]

\* Both barriers and the dispatch unit are set for the same team, which holds the
\* master core as soon as there has been a task.
Teamed ==
  /\ mask[LEGCY] = Team /\ team = Team \ {MASTER}
  /\ \E n \in 0..NB_PE : Team = 0..(n - 1) /\ (~At(MASTER, "loop") => n > 0)

\* The master core is never dispatched to, and the others are only that.
Seated ==
  /\ core[MASTER].pc \notin {"dispatch", "arg", "size"} /\ fifo[MASTER] = <<>>
  /\ \A c \in Core \ {MASTER} : core[c].pc \notin {"loop", "body"}
  /\ current = NULL <=> At(MASTER, "loop")

\* The master core's registers hold the fork under way.
Employed ==
  Forked => /\ core[MASTER].fn = EntryWord(JobEntry) /\ JobEntry \in Entry
            /\ core[MASTER].arg = ArgWord(JobArg) /\ JobArg \in Arg

\* Only the team of the fork under way is involved in it.
Framed ==
  \A c \in Core : /\ Fine(core[c], fifo[c], JobEntry, JobArg)
                  /\ Involved(core[c], fifo[c]) => Forked /\ c \in Team

\* A core of the task's team that has popped all its setups has its stack there.
Stacked ==
  current # NULL =>
    \A c \in 0..(current.nb_cores - 1) : StackIn(core[c], fifo[c], current.stacks)

Left(c) == ToTrigger(core[c], fifo[c], JobEntry)

Asleep(c) == core[c].pc \in {"barrier", "asleep"}

\* The barrier that is triggered l barriers before the end of the fork.
BarrierOf(e, l) == IF l = 1 THEN SYNC ELSE e[Len(e) - l + 2]

\* Those of the team that have triggered it when the others have l to go.
Behind(l) == {c \in Team : Left(c) + 1 = l}

\* All cores of the team have l barriers before them, but for those that wait at
\* the first of these for the others; whoever else sleeps has its event.
Lockstep(l) ==
  /\ \A c \in Team : Left(c) = l \/ Left(c) + 1 = l
  /\ \A c \in Core : Asleep(c) /\ c \notin event <=> c \in Behind(l)
  /\ \A b \in Barrier :
       status[b] = IF l > 0 /\ b = BarrierOf(JobEntry, l) THEN Behind(l) ELSE {}
  /\ l > 0 => Forked /\ l <= Len(JobEntry) + 1 /\ Team # Behind(l)

Level == \E l \in Nat : Lockstep(l)

IInv == TypeOK /\ Teamed /\ Seated /\ Employed /\ Framed /\ Stacked /\ Level

(***************************************************************************)
(* Words and sequences                                                     *)
(***************************************************************************)

\* What kind a word is of.
LEMMA WordKinds ==
  ASSUME NEW w \in Word
  PROVE  /\ IsFunction(w) => w \in FunctionWord
         /\ w.kind \in {"top", "arg", "size"} => w \in DataWord /\ ~IsFunction(w)
         /\ w.kind = "top" => w.val \in Stack
         /\ w.kind \in {"entry", "setup", "top", "arg", "size"}
BY DEF Word, FunctionWord, DataWord, IsFunction

\* What the words of a setup and of a fork are.
LEMMA SetupIs ==
  ASSUME NEW s \in Stack
  PROVE  /\ SetupWords(s) \in Seq(Word) /\ Len(SetupWords(s)) = 3
         /\ SetupWords(s)[1].kind = "setup" /\ SetupWords(s)[1].lsb = 1
         /\ SetupWords(s)[2].kind = "top" /\ SetupWords(s)[2].val = s
         /\ SetupWords(s)[3].kind = "size"
<1>1. /\ SetupWord \in Word /\ SetupWord.kind = "setup" /\ SetupWord.lsb = 1
  BY DEF SetupWord, Word, FunctionWord
<1>2. [kind |-> "top", val |-> s] \in Word /\ [kind |-> "size"] \in Word
  BY DEF Word, DataWord
<1>3. /\ SetupWords(s) \in Seq(Word) /\ Len(SetupWords(s)) = 3
      /\ SetupWords(s)[1] = SetupWord /\ SetupWords(s)[2] = [kind |-> "top", val |-> s]
      /\ SetupWords(s)[3] = [kind |-> "size"]
  BY <1>1, <1>2 DEF SetupWords
<1> QED
  BY <1>1, <1>3

\* What the words of a fork are.
LEMMA EntryIs ==
  ASSUME NEW e \in Entry, NEW a \in Arg
  PROVE  /\ EntryWords(e, a) \in Seq(Word) /\ Len(EntryWords(e, a)) = 2
         /\ EntryWords(e, a)[1].kind = "entry" /\ EntryWords(e, a)[1].val = e
         /\ EntryWords(e, a)[1].lsb = 0
         /\ EntryWords(e, a)[2].kind = "arg" /\ EntryWords(e, a)[2].val = a
<1>3. /\ EntryWord(e) \in Word /\ EntryWord(e).kind = "entry"
      /\ EntryWord(e).val = e /\ EntryWord(e).lsb = 0
  BY DEF EntryWord, Word, FunctionWord
<1>4. ArgWord(a) \in Word /\ ArgWord(a).kind = "arg" /\ ArgWord(a).val = a
  BY DEF ArgWord, Word, DataWord
<1>6. /\ EntryWords(e, a) \in Seq(Word) /\ Len(EntryWords(e, a)) = 2
      /\ EntryWords(e, a)[1] = EntryWord(e) /\ EntryWords(e, a)[2] = ArgWord(a)
  BY <1>3, <1>4 DEF EntryWords
<1> QED
  BY <1>3, <1>4, <1>6

\* Popping the first word.
LEMMA Popped ==
  ASSUME NEW q \in Seq(Word), q # <<>>
  PROVE  /\ Tail(q) \in Seq(Word) /\ Len(q) \in Nat \ {0} /\ Len(Tail(q)) = Len(q) - 1
         /\ \A i \in 1..(Len(q) - 1) : Tail(q)[i] = q[i + 1]
         /\ \A i \in 1..Len(q) : q[i] \in Word
         /\ Head(q) = q[1] /\ q[1] \in Word
BY HeadTailProperties, LenProperties, EmptySeq

\* Pushing words behind others.
LEMMA Joined ==
  ASSUME NEW q \in Seq(Word), NEW w \in Seq(Word)
  PROVE  /\ q \o w \in Seq(Word) /\ Len(q) \in Nat /\ Len(w) \in Nat
         /\ Len(q \o w) = Len(q) + Len(w)
         /\ \A i \in 1..Len(q) : (q \o w)[i] = q[i]
         /\ \A i \in 1..Len(w) : (q \o w)[Len(q) + i] = w[i]
<1>1. \A i \in 1..(Len(q) + Len(w)) : (q \o w)[i] = IF i <= Len(q) THEN q[i] ELSE w[i - Len(q)]
  BY ConcatProperties
<1>2. Len(q) \in Nat /\ Len(w) \in Nat
  BY LenProperties
<1>3. ASSUME NEW i \in 1..Len(w) PROVE (q \o w)[Len(q) + i] = w[i]
  BY <1>1, <1>2
<1> QED
  BY <1>1, <1>2, <1>3, ConcatProperties

\* A fifo is empty when it has no words.
LEMMA NoWord == ASSUME NEW q \in Seq(Word) PROVE Len(q) \in Nat /\ (q = <<>> <=> Len(q) = 0)
BY EmptySeq, LenProperties

(***************************************************************************)
(* A fifo whose first word is popped                                       *)
(***************************************************************************)

\* A pop leaves whole setups, the rest of one, and at most one fork.
LEMMA FramesTail ==
  ASSUME NEW q \in Seq(Word), NEW e, NEW a, q # <<>>, Frames(q, e, a)
  PROVE  Frames(Tail(q), e, a)
<1> DEFINE t == Tail(q)
<1>1. /\ Len(q) \in Nat \ {0} /\ Len(t) = Len(q) - 1
      /\ \A i \in 1..(Len(q) - 1) : t[i] = q[i + 1]
  BY Popped
<1> HIDE DEF t
<1>2. SUFFICES ASSUME NEW i \in 1..Len(t)
               PROVE  /\ t[i].kind = "setup" => SetupAt(t, i)
                      /\ t[i].kind = "entry" => EntryAt(t, i, e, a)
  BY DEF Frames, t
<1>3. i + 1 \in 1..Len(q) /\ t[i] = q[i + 1]
  BY <1>1
<1>4. CASE t[i].kind = "setup"
  <2>1. SetupAt(q, i + 1)
    BY <1>3, <1>4 DEF Frames
  <2> QED
    BY <2>1, <1>1, <1>3, <1>4 DEF SetupAt
<1>5. CASE t[i].kind = "entry"
  <2>1. EntryAt(q, i + 1, e, a)
    BY <1>3, <1>5 DEF Frames
  <2> QED
    BY <2>1, <1>1, <1>3, <1>5 DEF EntryAt
<1> QED
  BY <1>4, <1>5

\* Unless it was the word in question, the rest of the fifo holds a fork, a last
\* stack top or none as the fifo did.
LEMMA RestAfterPop ==
  ASSUME NEW q \in Seq(Word), q # <<>>
  PROVE  /\ q[1].kind # "entry" => (HasEntry(Tail(q)) <=> HasEntry(q))
         /\ HasEntry(Tail(q)) => HasEntry(q)
         /\ q[1].kind # "top" => (NoTop(Tail(q)) <=> NoTop(q))
         /\ \A s : LastTop(q, s) => /\ LastTop(Tail(q), s)
                                    /\ NoTop(Tail(q)) => NoTop(q) \/ q[1].val = s
<1> DEFINE t == Tail(q)
<1>1. /\ Len(q) \in Nat \ {0} /\ Len(t) = Len(q) - 1
      /\ \A i \in 1..(Len(q) - 1) : t[i] = q[i + 1]
  BY Popped
<1> HIDE DEF t
<1>2. \A i \in 1..Len(t) : i + 1 \in 1..Len(q) /\ t[i] = q[i + 1]
  BY <1>1
<1>3. \A i \in 1..Len(q) : i = 1 \/ (i - 1 \in 1..Len(t) /\ t[i - 1] = q[i])
  BY <1>1
<1>4. HasEntry(t) => HasEntry(q)
  BY <1>2 DEF HasEntry
<1>5. q[1].kind # "entry" /\ HasEntry(q) => HasEntry(t)
  BY <1>3 DEF HasEntry
<1>6. q[1].kind # "top" => (NoTop(t) <=> NoTop(q))
  <2>1. NoTop(q) => NoTop(t)
    BY <1>2 DEF NoTop
  <2>2. q[1].kind # "top" /\ NoTop(t) => NoTop(q)
    BY <1>3 DEF NoTop
  <2> QED
    BY <2>1, <2>2
<1>7. ASSUME NEW s, LastTop(q, s) PROVE LastTop(t, s)
  <2>1. SUFFICES ASSUME NEW i \in 1..Len(t), t[i].kind = "top",
                        \A j \in 1..Len(t) : j > i => t[j].kind # "top"
                 PROVE  t[i].val = s
    BY DEF LastTop
  <2>2. i + 1 \in 1..Len(q) /\ q[i + 1] = t[i]
    BY <1>2
  <2>3. ASSUME NEW j \in 1..Len(q), j > i + 1 PROVE q[j].kind # "top"
    <3>1. j - 1 \in 1..Len(t) /\ t[j - 1] = q[j] /\ j - 1 > i
      BY <1>3, <2>3
    <3> QED
      BY <3>1, <2>1
  <2> QED
    BY <2>1, <2>2, <2>3, <1>7 DEF LastTop
<1>8. ASSUME NEW s, LastTop(q, s), NoTop(t), ~NoTop(q) PROVE q[1].val = s
  <2>1. \A j \in 1..Len(q) : j > 1 => q[j].kind # "top"
    BY <1>3, <1>8 DEF NoTop
  <2>2. 1 \in 1..Len(q) /\ q[1].kind = "top"
    BY <1>1, <2>1, <1>8 DEF NoTop
  <2> QED
    BY <2>1, <2>2, <1>8 DEF LastTop
<1> QED
  BY <1>4, <1>5, <1>6, <1>7, <1>8 DEF t

(***************************************************************************)
(* A fifo to which words are pushed                                        *)
(***************************************************************************)

\* A setup is pushed behind a fifo without a fork.
LEMMA FramesSetup ==
  ASSUME NEW q \in Seq(Word), NEW s \in Stack, NEW e, NEW a, NEW f, NEW b,
         Frames(q, e, a), ~HasEntry(q)
  PROVE  /\ Frames(q \o SetupWords(s), f, b) /\ ~HasEntry(q \o SetupWords(s))
         /\ LastTop(q \o SetupWords(s), s) /\ ~NoTop(q \o SetupWords(s))
<1> DEFINE w == SetupWords(s)  r == q \o w  n == Len(q)
<1>1. /\ w \in Seq(Word) /\ Len(w) = 3
      /\ w[1].kind = "setup" /\ w[1].lsb = 1
      /\ w[2].kind = "top" /\ w[2].val = s /\ w[3].kind = "size"
  BY SetupIs
<1> HIDE DEF w
<1>20. w \in Seq(Word)
  BY <1>1
<1>21. /\ n \in Nat /\ Len(r) = n + Len(w)
       /\ \A i \in 1..n : r[i] = q[i]
       /\ \A i \in 1..Len(w) : r[n + i] = w[i]
  BY <1>20, Joined
<1> HIDE DEF r, n
<1>2. /\ n \in Nat /\ Len(r) = n + 3
      /\ \A i \in 1..n : r[i] = q[i]
      /\ \A i \in 1..3 : r[n + i] = w[i]
  BY <1>1, <1>21
<1>3. /\ r[n + 1].kind = "setup" /\ r[n + 1].lsb = 1
      /\ r[n + 2].kind = "top" /\ r[n + 2].val = s /\ r[n + 3].kind = "size"
  BY <1>1, <1>2
<1>4. \A i \in 1..n : r[i].kind # "entry"
  BY <1>2 DEF HasEntry, n
<1>5. \A i \in 1..Len(r) : i \in 1..n \/ i = n + 1 \/ i = n + 2 \/ i = n + 3
  BY <1>2
<1>6. ~HasEntry(r)
  BY <1>3, <1>4, <1>5 DEF HasEntry
<1>7. ASSUME NEW i \in 1..Len(r), r[i].kind = "setup" PROVE SetupAt(r, i)
  <2>1. CASE i \in 1..n
    <3>1. SetupAt(q, i)
      BY <2>1, <1>7, <1>2 DEF Frames, n
    <3>2. /\ r[i] = q[i] /\ r[i + 1] = q[i + 1] /\ r[i + 2] = q[i + 2]
      BY <2>1, <3>1, <1>2 DEF SetupAt, n
    <3>3. i + 3 <= n => r[i + 3] = q[i + 3]
      BY <2>1, <1>2
    <3>4. i + 3 <= Len(r) => IsFunction(r[i + 3])
      <4>1. CASE i + 3 <= n
        BY <4>1, <3>1, <3>3 DEF SetupAt, n
      <4>2. CASE i + 3 > n
        <5>1. i + 3 = n + 1
          BY <4>2, <3>1, <2>1, <1>2 DEF SetupAt, n
        <5> QED
          BY <5>1, <1>3 DEF IsFunction
      <4> QED
        BY <4>1, <4>2, <2>1, <1>2
    <3> QED
      BY <3>1, <3>2, <3>4, <2>1, <1>2 DEF SetupAt, n
  <2>2. CASE i = n + 1
    BY <2>2, <1>2, <1>3 DEF SetupAt
  <2> QED
    BY <2>1, <2>2, <1>3, <1>5, <1>7
<1>8. Frames(r, f, b)
  BY <1>6, <1>7 DEF Frames, HasEntry
<1>9. LastTop(r, s)
  <2>1. SUFFICES ASSUME NEW i \in 1..Len(r), r[i].kind = "top",
                        \A j \in 1..Len(r) : j > i => r[j].kind # "top"
                 PROVE  r[i].val = s
    BY DEF LastTop
  <2>2. ~(n + 2 > i)
    BY <2>1, <1>2, <1>3
  <2>3. i = n + 2
    BY <2>1, <2>2, <1>2, <1>3, <1>5
  <2> QED
    BY <2>3, <1>3
<1>10. ~NoTop(r)
  BY <1>2, <1>3 DEF NoTop
<1> QED
  BY <1>6, <1>8, <1>9, <1>10 DEF r, w

\* A fork is pushed behind a fifo without one.
LEMMA FramesEntry ==
  ASSUME NEW q \in Seq(Word), NEW f \in Entry, NEW b \in Arg, NEW e, NEW a,
         Frames(q, e, a), ~HasEntry(q)
  PROVE  /\ Frames(q \o EntryWords(f, b), f, b) /\ HasEntry(q \o EntryWords(f, b))
         /\ NoTop(q \o EntryWords(f, b)) <=> NoTop(q)
         /\ \A s : LastTop(q, s) => LastTop(q \o EntryWords(f, b), s)
<1> DEFINE w == EntryWords(f, b)  r == q \o w  n == Len(q)
<1>1. /\ w \in Seq(Word) /\ Len(w) = 2
      /\ w[1].kind = "entry" /\ w[1].val = f /\ w[1].lsb = 0
      /\ w[2].kind = "arg" /\ w[2].val = b
  BY EntryIs
<1> HIDE DEF w
<1>20. w \in Seq(Word)
  BY <1>1
<1>21. /\ n \in Nat /\ Len(r) = n + Len(w)
       /\ \A i \in 1..n : r[i] = q[i]
       /\ \A i \in 1..Len(w) : r[n + i] = w[i]
  BY <1>20, Joined
<1> HIDE DEF r, n
<1>2. /\ n \in Nat /\ Len(r) = n + 2
      /\ \A i \in 1..n : r[i] = q[i]
      /\ \A i \in 1..2 : r[n + i] = w[i]
  BY <1>1, <1>21
<1>3. /\ r[n + 1].kind = "entry" /\ r[n + 1].val = f /\ r[n + 1].lsb = 0
      /\ r[n + 2].kind = "arg" /\ r[n + 2].val = b
  BY <1>1, <1>2
<1>4. \A i \in 1..n : r[i].kind # "entry"
  BY <1>2 DEF HasEntry, n
<1>5. \A i \in 1..Len(r) : i \in 1..n \/ i = n + 1 \/ i = n + 2
  BY <1>2
<1>6. HasEntry(r)
  BY <1>2, <1>3 DEF HasEntry
<1>7. ASSUME NEW i \in 1..Len(r), r[i].kind = "setup" PROVE SetupAt(r, i)
  <2>1. i \in 1..n
    BY <1>3, <1>5, <1>7
  <2>2. SetupAt(q, i)
    BY <2>1, <1>7, <1>2 DEF Frames, n
  <2>3. /\ r[i] = q[i] /\ r[i + 1] = q[i + 1] /\ r[i + 2] = q[i + 2]
    BY <2>1, <2>2, <1>2 DEF SetupAt, n
  <2>4. i + 3 <= n => r[i + 3] = q[i + 3]
    BY <2>1, <1>2
  <2>5. i + 3 <= Len(r) => IsFunction(r[i + 3])
    <3>1. CASE i + 3 <= n
      BY <3>1, <2>2, <2>4 DEF SetupAt, n
    <3>2. CASE i + 3 > n
      <4>1. i + 3 = n + 1
        BY <3>2, <2>1, <2>2, <1>2 DEF SetupAt, n
      <4> QED
        BY <4>1, <1>3 DEF IsFunction
    <3> QED
      BY <3>1, <3>2, <2>1, <1>2
  <2> QED
    BY <2>2, <2>3, <2>5, <2>1, <1>2 DEF SetupAt, n
<1>8. ASSUME NEW i \in 1..Len(r), r[i].kind = "entry" PROVE EntryAt(r, i, f, b)
  <2>1. i = n + 1
    BY <1>3, <1>4, <1>5, <1>8
  <2> QED
    BY <2>1, <1>2, <1>3 DEF EntryAt
<1>9. Frames(r, f, b)
  BY <1>7, <1>8 DEF Frames
<1>10. NoTop(r) <=> NoTop(q)
  <2>1. NoTop(r) => NoTop(q)
    BY <1>2 DEF NoTop, n
  <2>2. NoTop(q) => NoTop(r)
    BY <1>2, <1>3, <1>5 DEF NoTop, n
  <2> QED
    BY <2>1, <2>2
<1>11. ASSUME NEW s, LastTop(q, s) PROVE LastTop(r, s)
  <2>1. SUFFICES ASSUME NEW i \in 1..Len(r), r[i].kind = "top",
                        \A j \in 1..Len(r) : j > i => r[j].kind # "top"
                 PROVE  r[i].val = s
    BY DEF LastTop
  <2>2. i \in 1..n
    BY <2>1, <1>3, <1>5
  <2>3. ASSUME NEW j \in 1..n, j > i PROVE q[j].kind # "top"
    BY <2>1, <2>3, <1>2
  <2> QED
    BY <2>1, <2>2, <2>3, <1>2, <1>11 DEF LastTop, n
<1> QED
  BY <1>6, <1>9, <1>10, <1>11 DEF r, w

(***************************************************************************)
(* The steps of one core                                                   *)
(***************************************************************************)

\* What each of them keeps of a core's registers r and its fifo q.
Follows(r, q, r2, q2, e, a) ==
  /\ r2 \in CoreT /\ q2 \in Seq(Word) /\ Len(q2) <= Len(q)
  /\ Fine(r2, q2, e, a)
  /\ Involved(r2, q2) => Involved(r, q)
  /\ \A s : StackIn(r, q, s) => StackIn(r2, q2, s)

\* A core in an entry point, or woken, has a step that leaves its fifo alone.
LEMMA FifoKept ==
  ASSUME NEW r, NEW q \in Seq(Word), NEW e, NEW a, Fine(r, q, e, a),
         NEW r2 \in CoreT, r.pc \notin {"arg", "size"}, r2.pc \notin {"arg", "size"},
         Busy(r2) => Busy(r),
         ExpectsFunction(r2, q), Works(r2, q, e, a), r2.sp = r.sp
  PROVE  Follows(r, q, r2, q, e, a)
<1>1. Len(q) \in Nat
  BY NoWord
<1>2. Fine(r2, q, e, a)
  BY DEF Fine, ExpectsSetup, ExpectsKind, ExpectsArg, ExpectsSize
<1>3. Involved(r2, q) => Involved(r, q)
  BY DEF Involved, Awaits
<1>4. \A s : StackIn(r, q, s) => StackIn(r2, q, s)
  BY DEF StackIn
<1> QED
  BY <1>1, <1>2, <1>3, <1>4 DEF Follows

\* A slave takes the address of a function.
LEMMA FunctionPopped ==
  ASSUME NEW r \in CoreT, NEW q \in Seq(Word), NEW e, NEW a, Fine(r, q, e, a),
         r.pc = "dispatch", q # <<>>, IsFunction(Head(q)),
         NEW r2, r2 = [r EXCEPT !.pc = "arg", !.fn = Head(q)]
  PROVE  /\ Follows(r, q, r2, Tail(q), e, a)
         /\ ToTrigger(r2, Tail(q), e) = ToTrigger(r, q, e)
<1> DEFINE t == Tail(q)
<1>1. /\ t \in Seq(Word) /\ Len(q) \in Nat \ {0} /\ Len(t) = Len(q) - 1
      /\ \A i \in 1..(Len(q) - 1) : t[i] = q[i + 1]
      /\ Head(q) = q[1] /\ q[1] \in Word
  BY Popped
<1>2. Frames(t, e, a)
  BY FramesTail DEF Fine
<1>3. /\ q[1].kind # "entry" => (HasEntry(t) <=> HasEntry(q))
      /\ HasEntry(t) => HasEntry(q)
      /\ q[1].kind # "top" => (NoTop(t) <=> NoTop(q))
      /\ \A s : LastTop(q, s) => LastTop(t, s)
  BY RestAfterPop
<1> HIDE DEF t
<1>4. q[1] \in FunctionWord /\ q[1].kind \in {"setup", "entry"}
  BY <1>1, WordKinds DEF IsFunction
<1>5. /\ r2 \in CoreT /\ r2.pc = "arg" /\ r2.fn = q[1] /\ r2.sp = r.sp
  BY <1>1, <1>4 DEF CoreT, Pc
<1>6. 1 \in 1..Len(q) /\ 2 \in 1..(Len(q) + 1) /\ 3 \in 1..(Len(q) + 2)
  BY <1>1
<1>7. q[1].kind = "setup" => SetupAt(q, 1)
  BY <1>6 DEF Fine, Frames
<1>8. q[1].kind = "entry" => EntryAt(q, 1, e, a)
  BY <1>6 DEF Fine, Frames
<1>9. ExpectsSetup(r2, t)
  BY <1>1, <1>5, <1>7 DEF ExpectsSetup, SetupAt
<1>10. ExpectsArg(r2, t, e, a)
  <2>1. SUFFICES ASSUME q[1].kind = "entry"
                 PROVE  /\ q[1].val = e /\ q[1].lsb = 0
                        /\ Len(t) = 1 /\ t[1].kind = "arg" /\ t[1].val = a
    BY <1>4, <1>5 DEF ExpectsArg
  <2>2. /\ q[1].val = e /\ q[1].lsb = 0
        /\ Len(q) = 2 /\ q[2].kind = "arg" /\ q[2].val = a
    BY <1>8, <2>1 DEF EntryAt
  <2> QED
    BY <1>1, <2>2
<1>11. Fine(r2, t, e, a)
  BY <1>2, <1>4, <1>5, <1>9, <1>10
     DEF Fine, ExpectsFunction, ExpectsKind, ExpectsSize, Works, Busy
<1>12. Awaits(r2, t) <=> Awaits(r, q)
  <2>1. CASE q[1].kind = "entry"
    BY <2>1, <1>5, <1>6 DEF Awaits, HasEntry
  <2>2. CASE q[1].kind # "entry"
    BY <2>2, <1>3, <1>5 DEF Awaits
  <2> QED
    BY <2>1, <2>2
<1>13. q[1].kind # "top"
  BY <1>4
<1>14. \A s : StackIn(r, q, s) => StackIn(r2, t, s)
  BY <1>3, <1>5, <1>13 DEF StackIn
<1>15. Involved(r2, t) => Involved(r, q)
  BY <1>5, <1>12 DEF Involved, Busy
<1>16. ToTrigger(r2, t, e) = ToTrigger(r, q, e)
  BY <1>5, <1>12 DEF ToTrigger
<1> QED
  BY <1>1, <1>5, <1>11, <1>14, <1>15, <1>16 DEF Follows, t

\* A slave takes the stack top of a setup.
LEMMA TopPopped ==
  ASSUME NEW r \in CoreT, NEW q \in Seq(Word), NEW e, NEW a, Fine(r, q, e, a),
         r.pc = "arg", r.fn.kind = "setup", q # <<>>,
         NEW r2, r2 = [r EXCEPT !.pc = "size", !.arg = Head(q)]
  PROVE  /\ Follows(r, q, r2, Tail(q), e, a)
         /\ ToTrigger(r2, Tail(q), e) = ToTrigger(r, q, e)
<1> DEFINE t == Tail(q)
<1>1. /\ t \in Seq(Word) /\ Len(q) \in Nat \ {0} /\ Len(t) = Len(q) - 1
      /\ \A i \in 1..(Len(q) - 1) : t[i] = q[i + 1]
      /\ Head(q) = q[1] /\ q[1] \in Word
  BY Popped
<1>2. Frames(t, e, a)
  BY FramesTail DEF Fine
<1>3. /\ q[1].kind # "entry" => (HasEntry(t) <=> HasEntry(q))
      /\ \A s : LastTop(q, s) => /\ LastTop(t, s)
                                 /\ NoTop(t) => NoTop(q) \/ q[1].val = s
  BY RestAfterPop
<1> HIDE DEF t
<1>4. /\ r.fn.lsb = 1
      /\ 2 <= Len(q) /\ q[1].kind = "top" /\ q[2].kind = "size"
      /\ 3 <= Len(q) => IsFunction(q[3])
  BY DEF Fine, ExpectsSetup
<1>5. q[1] \in DataWord
  BY <1>1, <1>4, WordKinds
<1>6. /\ r2 \in CoreT /\ r2.pc = "size" /\ r2.fn = r.fn /\ r2.arg = q[1]
  BY <1>1, <1>5 DEF CoreT, Pc
<1>7. ExpectsSize(r2, t)
  BY <1>1, <1>4, <1>5, <1>6 DEF ExpectsSize
<1>8. Fine(r2, t, e, a)
  BY <1>2, <1>6, <1>7 DEF Fine, ExpectsFunction, ExpectsSetup, ExpectsKind, ExpectsArg, Works, Busy
<1>9. Awaits(r2, t) <=> Awaits(r, q)
  BY <1>3, <1>4, <1>6 DEF Awaits
<1>10. \A s : StackIn(r, q, s) => StackIn(r2, t, s)
  <2>1. ~NoTop(q)
    BY <1>1, <1>4 DEF NoTop
  <2> QED
    BY <2>1, <1>3, <1>6 DEF StackIn
<1>11. Involved(r2, t) => Involved(r, q)
  BY <1>6, <1>9 DEF Involved, Busy
<1>12. ToTrigger(r2, t, e) = ToTrigger(r, q, e)
  BY <1>6, <1>9 DEF ToTrigger
<1> QED
  BY <1>1, <1>6, <1>8, <1>10, <1>11, <1>12 DEF Follows, t

Begun(r, q) == [r EXCEPT !.pc = "run", !.arg = Head(q), !.todo = r.fn.val]

\* A slave takes the argument of a fork and begins.
LEMMA ArgPopped ==
  ASSUME NEW r \in CoreT, NEW q \in Seq(Word), NEW e, NEW a, e \in Entry, a \in Arg,
         Fine(r, q, e, a), r.pc = "arg", r.fn.kind = "entry", q # <<>>,
         NEW r2, r2 = Begun(r, q)
  PROVE  /\ Follows(r, q, r2, Tail(q), e, a) /\ Involved(r, q)
         /\ ToTrigger(r2, Tail(q), e) = ToTrigger(r, q, e)
         /\ r2.fn = EntryWord(e) /\ r2.arg = ArgWord(a) /\ r2.todo = e
<1> DEFINE t == Tail(q)
<1>1. /\ t \in Seq(Word) /\ Len(q) \in Nat \ {0} /\ Len(t) = Len(q) - 1
      /\ Head(q) = q[1] /\ q[1] \in Word
  BY Popped
<1>2. Frames(t, e, a)
  BY FramesTail DEF Fine
<1> HIDE DEF t
<1>3. /\ r.fn \in FunctionWord /\ r.fn.val = e /\ r.fn.lsb = 0
      /\ Len(q) = 1 /\ q[1].kind = "arg" /\ q[1].val = a
  BY DEF Fine, ExpectsArg
<1>4. t = <<>>
  BY <1>1, <1>3, NoWord
<1>5. q[1] \in DataWord /\ q[1] = ArgWord(a)
  BY <1>1, <1>3 DEF Word, FunctionWord, DataWord, ArgWord
<1>6. r.fn = EntryWord(e)
  BY <1>3 DEF FunctionWord, EntryWord
<1>7. e \in Seq(Barrier)
  BY UseAssumption
<1>8. /\ r2 \in CoreT /\ r2.pc = "run" /\ r2.fn = EntryWord(e)
      /\ r2.arg = ArgWord(a) /\ r2.todo = e /\ r2.sp = r.sp
  BY <1>1, <1>3, <1>5, <1>6, <1>7 DEF CoreT, Pc, Begun
<1>9. Suffix(r2.todo, e)
  <2>1. Len(e) \in Nat
    BY <1>7, LenProperties
  <2> QED
    BY <2>1, <1>8 DEF Suffix
<1>10. Fine(r2, t, e, a)
  BY <1>2, <1>4, <1>8, <1>9
     DEF Fine, ExpectsFunction, ExpectsSetup, ExpectsKind, ExpectsArg, ExpectsSize, Works, Busy
<1>11. \A s : StackIn(r, q, s) => StackIn(r2, t, s)
  <2>1. NoTop(q) /\ NoTop(t)
    BY <1>3, <1>4 DEF NoTop
  <2>2. \A s : LastTop(t, s)
    BY <1>4 DEF LastTop
  <2> QED
    BY <2>1, <2>2, <1>8 DEF StackIn
<1>12. Involved(r, q) /\ ToTrigger(r2, t, e) = ToTrigger(r, q, e)
  BY <1>8 DEF Involved, Awaits, ToTrigger
<1> QED
  BY <1>1, <1>8, <1>10, <1>11, <1>12 DEF Follows, t

\* A slave takes the size of its stack: it has its stack.
LEMMA SizePopped ==
  ASSUME NEW r \in CoreT, NEW q \in Seq(Word), NEW e, NEW a, Fine(r, q, e, a),
         r.pc = "size", q # <<>>,
         NEW r2, r2 = Free(ReturnTo(r.fn), SetupSp(r.arg))
  PROVE  /\ Follows(r, q, r2, Tail(q), e, a) /\ r2.pc = "dispatch"
         /\ ToTrigger(r2, Tail(q), e) = ToTrigger(r, q, e)
<1> DEFINE t == Tail(q)
<1>1. /\ t \in Seq(Word) /\ Len(q) \in Nat \ {0} /\ Len(t) = Len(q) - 1
      /\ \A i \in 1..(Len(q) - 1) : t[i] = q[i + 1]
      /\ Head(q) = q[1] /\ q[1] \in Word
  BY Popped
<1>2. Frames(t, e, a)
  BY FramesTail DEF Fine
<1>3. /\ q[1].kind # "entry" => (HasEntry(t) <=> HasEntry(q))
      /\ q[1].kind # "top" => (NoTop(t) <=> NoTop(q))
      /\ \A s : LastTop(q, s) => LastTop(t, s)
  BY RestAfterPop
<1> HIDE DEF t
<1>4. /\ r.fn.lsb = 1 /\ r.arg.kind = "top" /\ r.arg \in DataWord
      /\ 1 <= Len(q) /\ q[1].kind = "size"
      /\ 2 <= Len(q) => IsFunction(q[2])
  BY DEF Fine, ExpectsSize
<1>5. r.arg.val \in Stack
  BY <1>4 DEF DataWord
<1>6. /\ r2.pc = "dispatch" /\ r2.fn = NULL /\ r2.arg = NULL /\ r2.todo = <<>>
      /\ r2.sp = r.arg.val
  BY <1>4 DEF Free, ReturnTo, SetupSp
<1>7. r2 \in CoreT
  BY <1>4, <1>5 DEF CoreT, Pc, Free, ReturnTo, SetupSp
<1>8. ExpectsFunction(r2, t)
  BY <1>1, <1>4, NoWord DEF ExpectsFunction
<1>9. Fine(r2, t, e, a)
  BY <1>2, <1>6, <1>8 DEF Fine, ExpectsSetup, ExpectsKind, ExpectsArg, ExpectsSize, Works, Busy
<1>10. Awaits(r2, t) <=> Awaits(r, q)
  BY <1>3, <1>4, <1>6 DEF Awaits
<1>11. \A s : StackIn(r, q, s) => StackIn(r2, t, s)
  BY <1>3, <1>4, <1>6 DEF StackIn
<1>12. Involved(r2, t) => Involved(r, q)
  BY <1>6, <1>10 DEF Involved, Busy
<1>13. ToTrigger(r2, t, e) = ToTrigger(r, q, e)
  BY <1>6, <1>10 DEF ToTrigger
<1> QED
  BY <1>1, <1>6, <1>7, <1>9, <1>11, <1>12, <1>13 DEF Follows, t

\* A core in the entry point comes to a barrier: the next of the entry point's.
LEMMA BarrierReached ==
  ASSUME NEW r \in CoreT, NEW q \in Seq(Word), NEW e \in Entry, NEW a,
         Fine(r, q, e, a), r.pc = "run", r.todo # <<>>,
         NEW r2, r2 = [r EXCEPT !.pc = "barrier"]
  PROVE  /\ Follows(r, q, r2, q, e, a)
         /\ ToTrigger(r, q, e) \in Nat \ {0, 1}
         /\ ToTrigger(r2, q, e) + 1 = ToTrigger(r, q, e)
         /\ Head(r.todo) = BarrierOf(e, ToTrigger(r, q, e)) /\ Head(r.todo) \in Barrier
<1>1. /\ r2 \in CoreT /\ r2.pc = "barrier" /\ r2.fn = r.fn /\ r2.arg = r.arg
      /\ r2.todo = r.todo /\ r2.sp = r.sp
  BY DEF CoreT, Pc
<1>2. Works(r, q, e, a) /\ Busy(r)
  BY DEF Fine, Busy
<1>3. Works(r2, q, e, a)
  BY <1>1, <1>2 DEF Works, Busy
<1>4. Follows(r, q, r2, q, e, a)
  BY <1>1, <1>2, <1>3, FifoKept DEF ExpectsFunction
<1>5. r.todo \in Seq(Barrier) /\ e \in Seq(Barrier) /\ Suffix(r.todo, e)
  BY <1>2, UseAssumption DEF CoreT, Works
<1> DEFINE d == r.todo
<1>6. /\ Len(d) \in Nat \ {0} /\ Len(e) \in Nat /\ Head(d) = d[1]
      /\ Head(d) \in Barrier
  BY <1>5, HeadTailProperties, LenProperties, EmptySeq
<1> HIDE DEF d
<1>9. d[1] = e[Len(e) - Len(d) + 1]
  <2>1. Suffix(d, e) /\ 1 \in 1..Len(d)
    BY <1>5, <1>6 DEF d
  <2> QED
    BY <2>1 DEF Suffix
<1>7. ToTrigger(r, q, e) = Len(d) + 1 /\ ToTrigger(r2, q, e) = Len(d)
  BY <1>1 DEF ToTrigger, d
<1>8. BarrierOf(e, Len(d) + 1) = e[Len(e) - Len(d) + 1]
  <2>1. Len(d) + 1 # 1 /\ Len(e) - (Len(d) + 1) + 2 = Len(e) - Len(d) + 1
    BY <1>6
  <2> QED
    BY <2>1 DEF BarrierOf
<1>10. /\ ToTrigger(r, q, e) \in Nat \ {0, 1}
       /\ ToTrigger(r2, q, e) + 1 = ToTrigger(r, q, e)
       /\ d[1] = BarrierOf(e, ToTrigger(r, q, e))
  BY <1>6, <1>7, <1>8, <1>9
<1> QED
  BY <1>4, <1>6, <1>10 DEF d

Resumed(r) == [r EXCEPT !.pc = "run", !.todo = Tail(r.todo)]

\* A core goes on after a barrier.
LEMMA BarrierPassed ==
  ASSUME NEW r \in CoreT, NEW q \in Seq(Word), NEW e, NEW a, e \in Entry,
         Fine(r, q, e, a), r.pc = "barrier",
         NEW r2, r2 = Resumed(r)
  PROVE  /\ Follows(r, q, r2, q, e, a)
         /\ ToTrigger(r2, q, e) = ToTrigger(r, q, e)
         /\ Len(r.todo) \in Nat \ {0} /\ Len(r2.todo) = Len(r.todo) - 1
<1>1. Works(r, q, e, a) /\ Busy(r)
  BY DEF Fine, Busy
<1>2. /\ r.todo \in Seq(Barrier) /\ e \in Seq(Barrier) /\ Suffix(r.todo, e)
      /\ r.todo # <<>>
  BY <1>1, UseAssumption DEF CoreT, Works
<1> DEFINE d == r.todo  t == Tail(d)
<1>3. /\ Len(d) \in Nat \ {0} /\ Len(e) \in Nat /\ t \in Seq(Barrier)
      /\ Len(t) = Len(d) - 1 /\ \A i \in 1..Len(t) : t[i] = d[i + 1]
  BY <1>2, HeadTailProperties, LenProperties, EmptySeq
<1>4. /\ r2 \in CoreT /\ r2.pc = "run" /\ r2.fn = r.fn /\ r2.arg = r.arg
      /\ r2.todo = t /\ r2.sp = r.sp
  BY <1>3 DEF CoreT, Pc, Resumed
<1> HIDE DEF t, d
<1>5. Suffix(t, e)
  <2>1. Len(d) <= Len(e) /\ \A i \in 1..Len(d) : d[i] = e[Len(e) - Len(d) + i]
    BY <1>2 DEF Suffix, d
  <2>2. ASSUME NEW i \in 1..Len(t) PROVE t[i] = e[Len(e) - Len(t) + i]
    <3>1. i + 1 \in 1..Len(d) /\ Len(e) - Len(d) + (i + 1) = Len(e) - Len(t) + i
      BY <1>3
    <3> QED
      BY <3>1, <2>1, <1>3
  <2> QED
    BY <2>1, <2>2, <1>3 DEF Suffix
<1>6. Works(r2, q, e, a)
  BY <1>1, <1>4, <1>5 DEF Works, Busy
<1>7. Follows(r, q, r2, q, e, a)
  BY <1>1, <1>4, <1>6, FifoKept DEF ExpectsFunction
<1>8. ToTrigger(r, q, e) = Len(d) /\ ToTrigger(r2, q, e) = Len(t) + 1
  BY <1>4 DEF ToTrigger, d
<1> QED
  BY <1>3, <1>4, <1>7, <1>8 DEF d, t

Departed(r) == [r EXCEPT !.pc = ReturnTo(r.fn)]

\* A core leaves the entry point.
LEMMA EntryLeft ==
  ASSUME NEW r \in CoreT, NEW q \in Seq(Word), NEW e, NEW a, e \in Entry,
         Fine(r, q, e, a), r.pc = "run", r.todo = <<>>,
         NEW r2, r2 = Departed(r)
  PROVE  /\ Follows(r, q, r2, q, e, a) /\ r2.pc = "sync"
         /\ ToTrigger(r2, q, e) = ToTrigger(r, q, e)
<1>1. Works(r, q, e, a) /\ Busy(r)
  BY DEF Fine, Busy
<1>2. ReturnTo(r.fn) = "sync"
  BY <1>1 DEF Works, ReturnTo, EntryWord
<1>3. /\ r2 \in CoreT /\ r2.pc = "sync" /\ r2.fn = r.fn /\ r2.arg = r.arg
      /\ r2.todo = r.todo /\ r2.sp = r.sp
  BY <1>2 DEF CoreT, Pc, Departed
<1>4. Works(r2, q, e, a)
  BY <1>1, <1>3 DEF Works, Busy
<1>5. Follows(r, q, r2, q, e, a)
  BY <1>1, <1>3, <1>4, FifoKept DEF ExpectsFunction
<1>6. ToTrigger(r, q, e) = 1 /\ ToTrigger(r2, q, e) = 1
  BY <1>3 DEF ToTrigger
<1> QED
  BY <1>3, <1>5, <1>6

\* A core triggers the barrier at the end of the fork.
LEMMA Synced ==
  ASSUME NEW r \in CoreT, NEW q \in Seq(Word), NEW e, NEW a,
         Fine(r, q, e, a), r.pc = "sync",
         NEW r2, r2 = [r EXCEPT !.pc = "asleep"]
  PROVE  /\ Follows(r, q, r2, q, e, a) /\ q = <<>>
         /\ ToTrigger(r, q, e) = 1 /\ ToTrigger(r2, q, e) = 0
<1>1. Works(r, q, e, a) /\ Busy(r)
  BY DEF Fine, Busy
<1>2. q = <<>>
  BY <1>1 DEF Works
<1>3. /\ r2 \in CoreT /\ r2.pc = "asleep" /\ r2.sp = r.sp
  BY DEF CoreT, Pc
<1>4. Follows(r, q, r2, q, e, a)
  BY <1>1, <1>2, <1>3, FifoKept DEF ExpectsFunction, Works, Busy
<1>5. ~Awaits(r2, q)
  BY <1>2, <1>3 DEF Awaits, HasEntry
<1> QED
  BY <1>2, <1>3, <1>4, <1>5 DEF ToTrigger

\* A core is woken after the end of a fork.
LEMMA Woken ==
  ASSUME NEW r \in CoreT, NEW q \in Seq(Word), NEW e, NEW a,
         Fine(r, q, e, a), r.pc = "asleep",
         NEW l \in {"dispatch", "body"}, NEW r2, r2 = Free(l, r.sp)
  PROVE  /\ Follows(r, q, r2, q, e, a)
         /\ ToTrigger(r2, q, e) = ToTrigger(r, q, e)
<1>1. /\ r2 \in CoreT /\ r2.pc = l /\ r2.sp = r.sp
  BY DEF CoreT, Pc, Free
<1>2. ExpectsFunction(r2, q)
  BY <1>1 DEF Fine, ExpectsFunction
<1>3. Follows(r, q, r2, q, e, a)
  BY <1>1, <1>2, FifoKept DEF Works, Busy
<1>4. Awaits(r2, q) <=> Awaits(r, q)
  BY <1>1 DEF Awaits
<1> QED
  BY <1>1, <1>3, <1>4 DEF ToTrigger

\* A core that is not involved in a fork is not involved in any, whatever the
\* fork under way is.
LEMMA Uninvolved ==
  ASSUME NEW r, NEW q \in Seq(Word), NEW e, NEW a, NEW f, NEW b,
         Fine(r, q, e, a), ~Involved(r, q)
  PROVE  Fine(r, q, f, b) /\ ToTrigger(r, q, f) = 0
<1>1. ~HasEntry(q) /\ ~(r.pc = "arg" /\ r.fn.kind = "entry") /\ ~Busy(r) /\ ~Awaits(r, q)
  BY DEF Involved, Awaits
<1>2. Frames(q, f, b)
  BY <1>1 DEF Fine, Frames, HasEntry
<1>3. ExpectsArg(r, q, f, b) /\ Works(r, q, f, b)
  BY <1>1 DEF ExpectsArg, Works
<1> QED
  BY <1>1, <1>2, <1>3 DEF Fine, ToTrigger, Busy

\* A core in the middle of a setup is not disturbed by words pushed behind it.
LEMMA Undisturbed ==
  ASSUME NEW r, NEW q \in Seq(Word), NEW w \in Seq(Word),
         w # <<>>, IsFunction(w[1]), NEW q2, q2 = q \o w
  PROVE  /\ q2 \in Seq(Word) /\ Len(q2) = Len(q) + Len(w)
         /\ ExpectsFunction(r, q) => ExpectsFunction(r, q2)
         /\ ExpectsSetup(r, q) => ExpectsSetup(r, q2)
         /\ ExpectsSize(r, q) => ExpectsSize(r, q2)
<1>1. /\ q2 \in Seq(Word) /\ Len(q) \in Nat /\ Len(q2) = Len(q) + Len(w)
      /\ \A i \in 1..Len(q) : q2[i] = q[i]
      /\ \A i \in 1..Len(w) : q2[Len(q) + i] = w[i]
  BY Joined
<1>2. Len(w) \in Nat \ {0} /\ (q = <<>> <=> Len(q) = 0)
  BY NoWord
<1>3. q2[Len(q) + 1] = w[1]
  BY <1>1, <1>2
<1>4. ASSUME ExpectsFunction(r, q) PROVE ExpectsFunction(r, q2)
  <2>1. q # <<>> => q2[1] = q[1]
    BY <1>1, <1>2
  <2>2. q = <<>> => q2[1] = w[1]
    BY <1>2, <1>3
  <2> QED
    BY <1>4, <2>1, <2>2 DEF ExpectsFunction
<1>5. ASSUME ExpectsSetup(r, q) PROVE ExpectsSetup(r, q2)
  <2>1. SUFFICES ASSUME r.pc = "arg", r.fn.kind = "setup"
                 PROVE  /\ r.fn.lsb = 1
                        /\ 2 <= Len(q2) /\ q2[1].kind = "top" /\ q2[2].kind = "size"
                        /\ 3 <= Len(q2) => IsFunction(q2[3])
    BY DEF ExpectsSetup
  <2>2. /\ r.fn.lsb = 1
        /\ 2 <= Len(q) /\ q[1].kind = "top" /\ q[2].kind = "size"
        /\ 3 <= Len(q) => IsFunction(q[3])
    BY <2>1, <1>5 DEF ExpectsSetup
  <2>3. q2[3] = IF 3 <= Len(q) THEN q[3] ELSE w[1]
    BY <2>2, <1>1, <1>3
  <2> QED
    BY <2>2, <2>3, <1>1, <1>2
<1>6. ASSUME ExpectsSize(r, q) PROVE ExpectsSize(r, q2)
  <2>1. SUFFICES ASSUME r.pc = "size"
                 PROVE  /\ r.fn.lsb = 1 /\ r.arg.kind = "top" /\ r.arg \in DataWord
                        /\ 1 <= Len(q2) /\ q2[1].kind = "size"
                        /\ 2 <= Len(q2) => IsFunction(q2[2])
    BY DEF ExpectsSize
  <2>2. /\ r.fn.lsb = 1 /\ r.arg.kind = "top" /\ r.arg \in DataWord
        /\ 1 <= Len(q) /\ q[1].kind = "size"
        /\ 2 <= Len(q) => IsFunction(q[2])
    BY <2>1, <1>6 DEF ExpectsSize
  <2>3. q2[2] = IF 2 <= Len(q) THEN q[2] ELSE w[1]
    BY <2>2, <1>1, <1>3
  <2> QED
    BY <2>2, <2>3, <1>1, <1>2
<1> QED
  BY <1>1, <1>4, <1>5, <1>6

\* A setup is pushed to a core that is not involved in a fork.
LEMMA SetupPushed ==
  ASSUME NEW r \in CoreT, NEW q \in Seq(Word), NEW e, NEW a, NEW f, NEW b,
         Fine(r, q, e, a), ~Involved(r, q), NEW s \in Stack, NEW q2, q2 = q \o SetupWords(s)
  PROVE  /\ q2 \in Seq(Word) /\ Len(q2) = Len(q) + 3
         /\ Fine(r, q2, f, b) /\ ~Involved(r, q2) /\ StackIn(r, q2, s)
<1>1. /\ SetupWords(s) \in Seq(Word) /\ Len(SetupWords(s)) = 3
      /\ IsFunction(SetupWords(s)[1])
  BY SetupIs DEF IsFunction
<1>2. SetupWords(s) # <<>>
  BY DEF SetupWords
<1>3. ~HasEntry(q) /\ ~Busy(r) /\ ~(r.pc = "arg" /\ r.fn.kind = "entry")
  BY DEF Involved, Awaits
<1>4. /\ Frames(q2, f, b) /\ ~HasEntry(q2) /\ LastTop(q2, s) /\ ~NoTop(q2)
  BY <1>3, FramesSetup DEF Fine
<1>5. /\ q2 \in Seq(Word) /\ Len(q2) = Len(q) + 3
      /\ ExpectsFunction(r, q2) /\ ExpectsSetup(r, q2) /\ ExpectsSize(r, q2)
  BY <1>1, <1>2, Undisturbed DEF Fine
<1>6. ExpectsArg(r, q2, f, b) /\ Works(r, q2, f, b)
  BY <1>3 DEF ExpectsArg, Works
<1>7. Fine(r, q2, f, b) /\ ~Involved(r, q2) /\ StackIn(r, q2, s)
  BY <1>3, <1>4, <1>5, <1>6 DEF Fine, Involved, Awaits, StackIn
<1> QED
  BY <1>5, <1>7

Idle(r, q) == ~Involved(r, q) /\ \A e, a : Fine(r, q, e, a)

KeepsStack(r, q, q2) == \A s : StackIn(r, q, s) => StackIn(r, q2, s)

\* A fork is pushed to a core that is not involved in one.
LEMMA EntryPushed ==
  ASSUME NEW r \in CoreT, NEW q \in Seq(Word), NEW f, NEW b, f \in Entry, b \in Arg,
         Idle(r, q), NEW q2, q2 = q \o EntryWords(f, b)
  PROVE  /\ q2 \in Seq(Word) /\ Len(q2) = Len(q) + 2
         /\ Fine(r, q2, f, b) /\ Awaits(r, q2) /\ ~Busy(r) /\ KeepsStack(r, q, q2)
<1>1. /\ EntryWords(f, b) \in Seq(Word) /\ Len(EntryWords(f, b)) = 2
      /\ IsFunction(EntryWords(f, b)[1])
  BY EntryIs DEF IsFunction
<1>2. EntryWords(f, b) # <<>>
  BY DEF EntryWords
<1>3. /\ ~HasEntry(q) /\ ~Busy(r) /\ ~(r.pc = "arg" /\ r.fn.kind = "entry")
      /\ Fine(r, q, f, b)
  BY DEF Involved, Awaits, Idle
<1>4. /\ Frames(q2, f, b) /\ HasEntry(q2) /\ (NoTop(q2) <=> NoTop(q))
      /\ \A s : LastTop(q, s) => LastTop(q2, s)
  BY <1>3, FramesEntry DEF Fine
<1>5. /\ q2 \in Seq(Word) /\ Len(q2) = Len(q) + 2
      /\ ExpectsFunction(r, q2) /\ ExpectsSetup(r, q2) /\ ExpectsSize(r, q2)
  <2> DEFINE w == EntryWords(f, b)
  <2>1. w \in Seq(Word) /\ Len(w) = 2 /\ IsFunction(w[1]) /\ w # <<>> /\ q2 = q \o w
    BY <1>1, <1>2
  <2>2. ExpectsFunction(r, q) /\ ExpectsSetup(r, q) /\ ExpectsSize(r, q)
    BY <1>3 DEF Fine
  <2> HIDE DEF w
  <2>3. /\ q2 \in Seq(Word) /\ Len(q2) = Len(q) + Len(w)
        /\ ExpectsFunction(r, q2) /\ ExpectsSetup(r, q2) /\ ExpectsSize(r, q2)
    BY <2>1, <2>2, Undisturbed
  <2> QED
    BY <2>1, <2>3
<1>6. ExpectsArg(r, q2, f, b) /\ Works(r, q2, f, b)
  BY <1>3 DEF ExpectsArg, Works
<1>7. Fine(r, q2, f, b)
  BY <1>3, <1>4, <1>5, <1>6 DEF Fine
<1>8. Awaits(r, q2)
  BY <1>4 DEF Awaits
<1>9. KeepsStack(r, q, q2)
  BY <1>4 DEF StackIn, KeepsStack
<1> QED
  BY <1>3, <1>5, <1>7, <1>8, <1>9

(***************************************************************************)
(* What a step of one core keeps                                           *)
(***************************************************************************)

\* Core 0 is the master core, and there is one.
LEMMA MasterIsCore == MASTER \in Core /\ Core \subseteq Nat /\ NB_PE \in Nat \ {0}
BY CoreAssumption DEF Core, MASTER

\* An entry point passes finitely many barriers.
LEMMA EntryLen == ASSUME NEW e \in Entry PROVE e \in Seq(Barrier) /\ Len(e) \in Nat
BY UseAssumption, LenProperties

CoreTypes ==
  /\ core \in [Core -> CoreT] /\ fifo \in [Core -> Seq(Word)]
  /\ \A c \in Core : Len(fifo[c]) <= FIFO_DEPTH

Shape == CoreTypes /\ Teamed /\ Seated /\ Employed /\ Framed /\ Stacked

\* The step of core c to the registers r2 and the fifo q2.
CoreStepsTo(c, r2, q2) ==
  /\ core' = [core EXCEPT ![c] = r2] /\ fifo' = [fifo EXCEPT ![c] = q2]
  /\ UNCHANGED <<current, team, mask>>
  /\ Follows(core[c], fifo[c], r2, q2, JobEntry, JobArg)
  /\ c # MASTER => r2.pc \notin {"loop", "body"}
  /\ c = MASTER => /\ Forked /\ r2.pc \in {"run", "barrier", "sync", "asleep"}
                   /\ r2.fn = core[c].fn /\ r2.arg = core[c].arg /\ q2 = <<>>

\* A core that steps by itself keeps everything but Level.
LEMMA CoreSteps ==
  ASSUME Shape, NEW c \in Core, NEW r2, NEW q2, CoreStepsTo(c, r2, q2)
  PROVE  /\ core'[c] = r2 /\ fifo'[c] = q2
         /\ \A d \in Core \ {c} : core'[d] = core[d] /\ fifo'[d] = fifo[d]
         /\ (Forked' <=> Forked) /\ JobEntry' = JobEntry /\ JobArg' = JobArg
         /\ Shape'
<1> USE DEF Shape
<1>1. /\ core'[c] = r2 /\ fifo'[c] = q2
      /\ \A d \in Core \ {c} : core'[d] = core[d] /\ fifo'[d] = fifo[d]
      /\ r2 \in CoreT /\ q2 \in Seq(Word) /\ Len(q2) <= Len(fifo[c])
      /\ current' = current /\ team' = team /\ mask' = mask
  BY DEF CoreStepsTo, Follows, CoreTypes
<1>2. /\ (Forked' <=> Forked) /\ JobEntry' = JobEntry /\ JobArg' = JobArg
      /\ core'[MASTER].fn = core[MASTER].fn /\ core'[MASTER].arg = core[MASTER].arg
      /\ At(MASTER, "loop")' <=> At(MASTER, "loop")
  <2>1. CASE c = MASTER
    BY <2>1, <1>1 DEF CoreStepsTo, Forked, JobEntry, JobArg, At
  <2>2. CASE c # MASTER
    <3>1. core'[MASTER] = core[MASTER]
      BY <2>2, <1>1, MasterIsCore
    <3> QED
      BY <3>1 DEF Forked, JobEntry, JobArg, At
  <2> QED
    BY <2>1, <2>2
<1>3. CoreTypes'
  <2>1. core' \in [Core -> CoreT] /\ fifo' \in [Core -> Seq(Word)]
    BY <1>1 DEF CoreStepsTo, CoreTypes
  <2>2. ASSUME NEW d \in Core PROVE Len(fifo'[d]) <= FIFO_DEPTH
    <3>1. Len(q2) \in Nat /\ Len(fifo[c]) \in Nat /\ FIFO_DEPTH \in Nat
      BY <1>1, NoWord, DepthAssumption DEF CoreTypes
    <3>2. Len(fifo[d]) <= FIFO_DEPTH /\ Len(fifo[c]) <= FIFO_DEPTH
      BY DEF CoreTypes
    <3> QED
      BY <3>1, <3>2, <1>1
  <2> QED
    BY <2>1, <2>2 DEF CoreTypes
<1>4. Teamed'
  BY <1>1, <1>2 DEF Teamed, Team
<1>5. Seated'
  <2>1. CASE c = MASTER
    BY <2>1, <1>1, <1>2 DEF Seated, CoreStepsTo
  <2>2. CASE c # MASTER
    BY <2>2, <1>1, <1>2, MasterIsCore DEF Seated, CoreStepsTo
  <2> QED
    BY <2>1, <2>2
<1>6. Employed'
  BY <1>2 DEF Employed
<1>7. Framed'
  <2>1. ASSUME NEW d \in Core
        PROVE  /\ Fine(core'[d], fifo'[d], JobEntry, JobArg)
               /\ Involved(core'[d], fifo'[d]) => Forked /\ d \in Team
    BY <1>1 DEF CoreStepsTo, Follows, Framed
  <2>2. Team' = Team
    BY <1>1 DEF Team
  <2> QED
    BY <2>1, <2>2, <1>2 DEF Framed
<1>8. Stacked'
  <2>1. SUFFICES ASSUME current # NULL, NEW d \in 0..(current.nb_cores - 1)
                 PROVE  StackIn(core'[d], fifo'[d], current.stacks)
    BY <1>1 DEF Stacked
  <2>2. StackIn(core[d], fifo[d], current.stacks)
    BY <2>1 DEF Stacked
  <2>3. CASE d = c
    BY <2>2, <2>3, <1>1 DEF CoreStepsTo, Follows
  <2>4. CASE d # c
    <3>1. core'[d] = core[d] /\ fifo'[d] = fifo[d]
      BY <2>4 DEF CoreStepsTo
    <3> QED
      BY <2>2, <3>1
  <2> QED
    BY <2>3, <2>4
<1> QED
  BY <1>1, <1>2, <1>3, <1>4, <1>5, <1>6, <1>7, <1>8

\* A core triggers finitely many barriers before the fork ends.
LEMMA LeftIsNat ==
  ASSUME Shape, NEW c \in Core
  PROVE  Left(c) \in Nat
<1>1. core[c].todo \in Seq(Barrier)
  BY DEF Shape, CoreTypes, CoreT
<1>2. Len(core[c].todo) \in Nat
  BY <1>1, LenProperties
<1>3. Awaits(core[c], fifo[c]) => Len(JobEntry) \in Nat
  BY EntryLen DEF Shape, Framed, Employed, Involved
<1> QED
  BY <1>2, <1>3 DEF Left, ToTrigger

\* A team is made of cores, and both barriers are set for it.
LEMMA TeamIsCores ==
  ASSUME Teamed PROVE Team \subseteq Core /\ \A b \in Barrier : mask[b] = Team
<1>1. PICK n \in 0..NB_PE : Team = 0..(n - 1)
  BY DEF Teamed
<1>2. Team \subseteq Core
  BY <1>1, MasterIsCore DEF Core
<1> QED
  BY <1>2 DEF Teamed, Team, Barrier

\* A step of a core that triggers no barrier.
LEMMA LevelKept ==
  ASSUME Shape, NEW c \in Core, NEW r2, NEW q2, CoreStepsTo(c, r2, q2),
         ToTrigger(r2, q2, JobEntry) = Left(c), ~Asleep(c) \/ c \in event,
         r2.pc \notin {"barrier", "asleep"},
         status' = status, event' = event \ {c},
         NEW l, Lockstep(l)
  PROVE  Lockstep(l)'
<1>1. /\ core'[c] = r2 /\ fifo'[c] = q2
      /\ \A d \in Core \ {c} : core'[d] = core[d] /\ fifo'[d] = fifo[d]
      /\ (Forked' <=> Forked) /\ JobEntry' = JobEntry
  BY CoreSteps
<1>2. Team' = Team /\ Team \subseteq Core
  BY TeamIsCores DEF CoreStepsTo, Team, Shape
<1>3. \A d \in Core : Left(d)' = Left(d)
  BY <1>1 DEF Left
<1>4. Behind(l)' = Behind(l)
  BY <1>2, <1>3 DEF Behind
<1>5. ASSUME NEW d \in Core PROVE (Asleep(d) /\ d \notin event)' <=> d \in Behind(l)
  <2>1. Asleep(d) /\ d \notin event <=> d \in Behind(l)
    BY DEF Lockstep
  <2>2. CASE d = c
    BY <2>1, <2>2, <1>1 DEF Asleep
  <2>3. CASE d # c
    BY <2>1, <2>3, <1>1 DEF Asleep
  <2> QED
    BY <2>2, <2>3
<1> QED
  BY <1>1, <1>2, <1>3, <1>4, <1>5 DEF Lockstep

\* A step of a core that triggers the barrier b and goes to sleep.
LEMMA LevelTriggered ==
  ASSUME Shape, NEW c \in Core, NEW r2, NEW q2, CoreStepsTo(c, r2, q2),
         NEW b \in Barrier, TriggerWait(b, c), Busy(core[c]), ~Asleep(c), Left(c) > 0,
         b = BarrierOf(JobEntry, Left(c)), ToTrigger(r2, q2, JobEntry) + 1 = Left(c),
         ToTrigger(r2, q2, JobEntry) \in Nat, r2.pc \in {"barrier", "asleep"},
         status \in [Barrier -> SUBSET Core], event \subseteq {d \in Core : Asleep(d)},
         NEW l \in Nat, Lockstep(l)
  PROVE  /\ Level' /\ status' \in [Barrier -> SUBSET Core]
         /\ event' \subseteq {d \in Core : Asleep(d)'}
         /\ \A x \in Barrier : /\ status'[x] \subseteq mask'[x]
                               /\ status'[x] = mask'[x] => mask'[x] = {}
<1>1. /\ core'[c] = r2 /\ fifo'[c] = q2
      /\ \A d \in Core \ {c} : core'[d] = core[d] /\ fifo'[d] = fifo[d]
      /\ (Forked' <=> Forked) /\ JobEntry' = JobEntry
  BY CoreSteps
<1>2. /\ Team' = Team /\ Team \subseteq Core /\ c \in Team /\ Forked /\ mask' = mask
      /\ \A x \in Barrier : mask[x] = Team
  <2>1. c \in Team /\ Forked
    BY DEF Shape, Framed, Involved
  <2>2. Team \subseteq Core /\ \A x \in Barrier : mask[x] = Team
    BY TeamIsCores DEF Shape
  <2> QED
    BY <2>1, <2>2 DEF CoreStepsTo, Team
<1>3. \A d \in Core \ {c} : Left(d)' = Left(d)
  BY <1>1 DEF Left
<1>4. /\ Left(c)' \in Nat /\ Left(c)' + 1 = Left(c)
      /\ \A d \in Core : Left(d) \in Nat
  <2>1. Left(c)' = ToTrigger(r2, q2, JobEntry)
    BY <1>1 DEF Left
  <2> QED
    BY <2>1, LeftIsNat
<1>5. Left(c) = l /\ l > 0 /\ b = BarrierOf(JobEntry, l) /\ c \notin Behind(l)
  <2>1. c \notin Behind(l)
    BY DEF Lockstep
  <2>2. Left(c) = l
    BY <1>2, <2>1 DEF Lockstep, Behind
  <2> QED
    BY <2>1, <2>2
<1>6. /\ status[b] = Behind(l) /\ \A x \in Barrier \ {b} : status[x] = {}
      /\ \A x \in Barrier : x # b => x # BarrierOf(JobEntry, l)
  BY <1>5 DEF Lockstep
<1>7. Asleep(c)' /\ \A d \in Core \ {c} : Asleep(d)' <=> Asleep(d)
  BY <1>1 DEF Asleep
<1>8. l <= Len(JobEntry) + 1 /\ c \notin event
  BY <1>5 DEF Lockstep
<1>9. CASE mask[b] \subseteq status[b] \cup {c}
  <2>1. status' = [status EXCEPT ![b] = {}] /\ event' = event \cup Team
    BY <1>2, <1>9 DEF TriggerWait
  <2>2. \A d \in Team : Left(d)' + 1 = l
    BY <1>2, <1>3, <1>4, <1>5, <1>6, <1>9 DEF Behind
  <2>3. \A d \in Team : Left(d)' \in Nat
    BY <1>2, <1>3, <1>4
  <2>4. l - 1 \in Nat /\ \A d \in Team : Left(d)' = l - 1
    BY <2>2, <2>3, <1>5
  <2>5. Behind(l - 1)' = {}
    BY <2>4, <1>2 DEF Behind
  <2>6. \A x \in Barrier : status'[x] = {}
    BY <2>1, <1>6
  <2>7. ASSUME NEW d \in Core PROVE ~(Asleep(d)' /\ d \notin event')
    <3>1. SUFFICES ASSUME d \notin Team, Asleep(d)', d \notin event PROVE FALSE
      BY <2>1
    <3>2. Asleep(d)
      BY <3>1, <1>2, <1>7
    <3>3. d \in Behind(l)
      BY <3>1, <3>2 DEF Lockstep
    <3> QED
      BY <3>1, <3>3 DEF Behind
  <2>8. Lockstep(l - 1)'
    <3>1. \A d \in Team' : Left(d)' = l - 1 \/ Left(d)' + 1 = l - 1
      BY <2>4, <1>2
    <3>2. l - 1 > 0 => Forked' /\ l - 1 <= Len(JobEntry') + 1 /\ Team' # Behind(l - 1)'
      <4>1. l - 1 <= Len(JobEntry) + 1
        BY <1>2, <1>8, EntryLen DEF Shape, Employed
      <4> QED
        BY <4>1, <2>5, <1>1, <1>2
    <3> QED
      BY <3>1, <3>2, <2>5, <2>6, <2>7 DEF Lockstep
  <2>9. Level'
    BY <2>4, <2>8 DEF Level
  <2>10. event' \subseteq {d \in Core : Asleep(d)'}
    <3>1. \A d \in Team \ {c} : Asleep(d)
      BY <1>2, <1>6, <1>9 DEF Lockstep
    <3> QED
      BY <3>1, <2>1, <1>2, <1>7
  <2>11. status' \in [Barrier -> SUBSET Core]
    BY <2>1
  <2> QED
    BY <2>6, <2>9, <2>10, <2>11, <1>2
<1>10. CASE ~(mask[b] \subseteq status[b] \cup {c})
  <2>1. status' = [status EXCEPT ![b] = Behind(l) \cup {c}] /\ event' = event
    BY <1>6, <1>10 DEF TriggerWait
  <2>2. Behind(l)' = Behind(l) \cup {c}
    BY <1>2, <1>3, <1>4, <1>5 DEF Behind
  <2>3. \A d \in Team' : Left(d)' = l \/ Left(d)' + 1 = l
    BY <1>2, <1>3, <1>4, <1>5 DEF Lockstep
  <2>4. ASSUME NEW d \in Core PROVE Asleep(d)' /\ d \notin event' <=> d \in Behind(l)'
    <3>1. Asleep(d) /\ d \notin event <=> d \in Behind(l)
      BY DEF Lockstep
    <3> QED
      BY <3>1, <2>1, <2>2, <1>7, <1>8
  <2>5. \A x \in Barrier : status'[x] = IF x = b THEN Behind(l)' ELSE {}
    BY <2>1, <2>2, <1>6
  <2>6. Team' # Behind(l)'
    BY <2>2, <1>2, <1>6, <1>10
  <2>7. Lockstep(l)'
    <3>1. \A x \in Barrier :
            status'[x] = IF l > 0 /\ x = BarrierOf(JobEntry', l) THEN Behind(l)' ELSE {}
      BY <2>5, <1>1, <1>5
    <3>2. l > 0 => Forked' /\ l <= Len(JobEntry') + 1 /\ Team' # Behind(l)'
      BY <2>6, <1>1, <1>2, <1>8
    <3> QED
      BY <3>1, <3>2, <2>3, <2>4 DEF Lockstep
  <2>8. Level'
    BY <2>7 DEF Level
  <2>9. Behind(l)' \subseteq Team
    BY <1>2 DEF Behind
  <2>10. event' \subseteq {d \in Core : Asleep(d)'}
    BY <2>1, <1>7
  <2>11. status' \in [Barrier -> SUBSET Core]
    BY <2>1, <2>2, <2>9, <1>2
  <2> QED
    BY <2>5, <2>6, <2>8, <2>9, <2>10, <2>11, <1>2
<1> QED
  BY <1>9, <1>10

(***************************************************************************)
(* The steps of the cores                                                  *)
(***************************************************************************)

\* A step that triggers no barrier.
Quiet(c, r2, q2) ==
  /\ CoreStepsTo(c, r2, q2)
  /\ ToTrigger(r2, q2, JobEntry) = Left(c)
  /\ ~Asleep(c) \/ c \in event
  /\ r2.pc \notin {"barrier", "asleep"}
  /\ status' = status /\ event' = event \ {c}

\* One that does.
Loud(c, r2, q2, b) ==
  /\ CoreStepsTo(c, r2, q2)
  /\ b \in Barrier /\ TriggerWait(b, c)
  /\ Busy(core[c]) /\ ~Asleep(c) /\ Left(c) > 0
  /\ b = BarrierOf(JobEntry, Left(c))
  /\ ToTrigger(r2, q2, JobEntry) \in Nat
  /\ ToTrigger(r2, q2, JobEntry) + 1 = Left(c)
  /\ r2.pc \in {"barrier", "asleep"}

\* The part of the invariant that does not count barriers.
LEMMA ShapeOf == IInv => Shape
BY DEF IInv, Shape, TypeOK, CoreTypes, Word

\* A core's own step that triggers nothing keeps the invariant.
LEMMA QuietInv ==
  ASSUME IInv, NEW c \in Core, NEW r2, NEW q2, Quiet(c, r2, q2)
  PROVE  IInv'
<1>1. Shape /\ CoreStepsTo(c, r2, q2)
  BY ShapeOf DEF Quiet
<1>2. /\ core'[c] = r2
      /\ \A d \in Core \ {c} : core'[d] = core[d]
      /\ Shape'
  BY <1>1, CoreSteps
<1>3. Level'
  <2>1. PICK l \in Nat : Lockstep(l)
    BY DEF IInv, Level
  <2>2. Lockstep(l)'
    BY <1>1, <2>1, LevelKept DEF Quiet
  <2> QED
    BY <2>2 DEF Level
<1>4. TypeOK'
  <2>1. UNCHANGED <<current, team, mask, status>> /\ event' = event \ {c}
    BY DEF Quiet, CoreStepsTo
  <2>2. event' \subseteq {d \in Core : core'[d].pc \in {"barrier", "asleep"}}
    BY <2>1, <1>2 DEF IInv, TypeOK
  <2>3. CoreTypes'
    BY <1>2 DEF Shape
  <2> QED
    BY <2>1, <2>2, <2>3 DEF IInv, TypeOK, CoreTypes, Word
<1> QED
  BY <1>2, <1>3, <1>4 DEF IInv, Shape

\* A core that triggers the barrier it has come to keeps the invariant.
LEMMA LoudInv ==
  ASSUME IInv, NEW c \in Core, NEW r2, NEW q2, NEW b, Loud(c, r2, q2, b)
  PROVE  IInv'
<1>1. Shape /\ CoreStepsTo(c, r2, q2)
  BY ShapeOf DEF Loud
<1>2. Shape'
  BY <1>1, CoreSteps
<1>3. PICK l \in Nat : Lockstep(l)
  BY DEF IInv, Level
<1>4. /\ status \in [Barrier -> SUBSET Core] /\ event \subseteq {d \in Core : Asleep(d)}
      /\ b \in Barrier /\ TriggerWait(b, c) /\ Busy(core[c]) /\ ~Asleep(c) /\ Left(c) > 0
      /\ b = BarrierOf(JobEntry, Left(c)) /\ ToTrigger(r2, q2, JobEntry) + 1 = Left(c)
      /\ ToTrigger(r2, q2, JobEntry) \in Nat /\ r2.pc \in {"barrier", "asleep"}
  BY DEF IInv, TypeOK, Loud, Asleep
<1>5. /\ Level' /\ status' \in [Barrier -> SUBSET Core]
      /\ event' \subseteq {d \in Core : Asleep(d)'}
      /\ \A x \in Barrier : /\ status'[x] \subseteq mask'[x]
                            /\ status'[x] = mask'[x] => mask'[x] = {}
  BY <1>1, <1>3, <1>4, LevelTriggered
<1>6. TypeOK'
  <2>1. UNCHANGED <<current, team, mask>>
    BY DEF Loud, CoreStepsTo
  <2>2. CoreTypes'
    BY <1>2 DEF Shape
  <2> QED
    BY <2>1, <2>2, <1>5 DEF IInv, TypeOK, CoreTypes, Word, Asleep
<1> QED
  BY <1>2, <1>5, <1>6 DEF IInv, Shape

\* What is known of a core that takes a step.
LEMMA CoreFacts ==
  ASSUME IInv, NEW c \in Core
  PROVE  /\ core[c] \in CoreT /\ fifo[c] \in Seq(Word)
         /\ Fine(core[c], fifo[c], JobEntry, JobArg)
         /\ Involved(core[c], fifo[c]) => Forked /\ c \in Team
                                          /\ JobEntry \in Entry /\ JobArg \in Arg
         /\ core[c].pc \in {"dispatch", "arg", "size"} => c # MASTER
         /\ ~Asleep(c) => event \ {c} = event
         /\ c = MASTER => fifo[c] = <<>>
BY ShapeOf DEF Shape, CoreTypes, Framed, Employed, Seated, IInv, TypeOK, Asleep

\* Popping the first word of a setup or a fork triggers nothing.
LEMMA PopFunctionStep ==
  ASSUME IInv, NEW c \in Core, PopFunction(c)
  PROVE  \E r2, q2 : Quiet(c, r2, q2) /\ core[c].pc = "dispatch" /\ r2.pc = "arg"
<1> DEFINE r2 == [core[c] EXCEPT !.pc = "arg", !.fn = Head(fifo[c])]
           q2 == Tail(fifo[c])
<1>1. /\ core[c].pc = "dispatch" /\ fifo[c] # <<>> /\ IsFunction(Head(fifo[c]))
      /\ ~Asleep(c)
  BY DEF PopFunction, At, Asleep
<1>2. /\ Follows(core[c], fifo[c], r2, q2, JobEntry, JobArg)
      /\ ToTrigger(r2, q2, JobEntry) = Left(c)
  <2>1. /\ core[c] \in CoreT /\ fifo[c] \in Seq(Word)
        /\ Fine(core[c], fifo[c], JobEntry, JobArg)
    BY CoreFacts
  <2>2. r2 = [core[c] EXCEPT !.pc = "arg", !.fn = Head(fifo[c])]
    OBVIOUS
  <2> HIDE DEF r2
  <2> QED
    BY <1>1, <2>1, <2>2, FunctionPopped DEF Left
<1>3. r2.pc = "arg" /\ c # MASTER
  BY <1>1, CoreFacts DEF CoreT
<1>4. /\ core' = [core EXCEPT ![c] = r2] /\ fifo' = [fifo EXCEPT ![c] = q2]
      /\ UNCHANGED <<current, team, mask, status, event>>
  BY DEF PopFunction
<1>5. CoreStepsTo(c, r2, q2)
  BY <1>2, <1>3, <1>4 DEF CoreStepsTo
<1>6. Quiet(c, r2, q2)
  BY <1>1, <1>2, <1>3, <1>4, <1>5, CoreFacts DEF Quiet
<1> QED
  BY <1>1, <1>3, <1>6

\* Popping the second word leads to the size of a setup or into the entry point.
LEMMA PopArgStep ==
  ASSUME IInv, NEW c \in Core, PopArg(c)
  PROVE  \E r2, q2 :
           /\ Quiet(c, r2, q2) /\ core[c].pc = "arg"
           /\ \/ r2.pc = "size"
              \/ /\ r2.pc = "run" /\ r2.todo = JobEntry /\ c \in Team /\ Forked
                 /\ Awaits(core[c], fifo[c])
                 /\ r2.fn = EntryWord(JobEntry) /\ r2.arg = ArgWord(JobArg)
<1>1. core[c].pc = "arg" /\ fifo[c] # <<>> /\ ~Asleep(c)
  BY DEF PopArg, At, Asleep
<1>2. c # MASTER
  BY <1>1, CoreFacts
<1>3. CASE core[c].fn.kind = "setup"
  <2> DEFINE r2 == [core[c] EXCEPT !.pc = "size", !.arg = Head(fifo[c])]
             q2 == Tail(fifo[c])
  <2>1. /\ Follows(core[c], fifo[c], r2, q2, JobEntry, JobArg)
        /\ ToTrigger(r2, q2, JobEntry) = Left(c)
    <3>1. /\ core[c] \in CoreT /\ fifo[c] \in Seq(Word)
          /\ Fine(core[c], fifo[c], JobEntry, JobArg)
      BY CoreFacts
    <3>2. r2 = [core[c] EXCEPT !.pc = "size", !.arg = Head(fifo[c])]
      OBVIOUS
    <3> HIDE DEF r2
    <3> QED
      BY <1>1, <1>3, <3>1, <3>2, TopPopped DEF Left
  <2>2. r2.pc = "size"
    BY CoreFacts DEF CoreT
  <2>3. /\ core' = [core EXCEPT ![c] = r2] /\ fifo' = [fifo EXCEPT ![c] = q2]
        /\ UNCHANGED <<current, team, mask, status, event>>
    BY <1>3 DEF PopArg
  <2>4. CoreStepsTo(c, r2, q2)
    BY <1>2, <2>1, <2>2, <2>3 DEF CoreStepsTo
  <2>5. Quiet(c, r2, q2)
    BY <1>1, <2>1, <2>2, <2>3, <2>4, CoreFacts DEF Quiet
  <2> QED
    BY <1>1, <2>2, <2>5
<1>4. CASE core[c].fn.kind # "setup"
  <2> DEFINE r2 == Begun(core[c], fifo[c])
             q2 == Tail(fifo[c])
  <2>1. core[c].fn.kind = "entry"
    BY <1>1, <1>4, CoreFacts DEF Fine, ExpectsKind
  <2>2. Awaits(core[c], fifo[c])
    BY <1>1, <2>1 DEF Awaits
  <2>3. c \in Team /\ Forked /\ JobEntry \in Entry /\ JobArg \in Arg
    BY <2>2, CoreFacts DEF Involved
  <2>4. /\ Follows(core[c], fifo[c], r2, q2, JobEntry, JobArg)
        /\ ToTrigger(r2, q2, JobEntry) = Left(c)
        /\ r2.fn = EntryWord(JobEntry) /\ r2.arg = ArgWord(JobArg) /\ r2.todo = JobEntry
    <3>1. /\ core[c] \in CoreT /\ fifo[c] \in Seq(Word)
          /\ Fine(core[c], fifo[c], JobEntry, JobArg)
      BY CoreFacts
    <3>3. /\ Follows(core[c], fifo[c], r2, q2, JobEntry, JobArg)
          /\ ToTrigger(r2, q2, JobEntry) = ToTrigger(core[c], fifo[c], JobEntry)
          /\ r2.fn = EntryWord(JobEntry) /\ r2.arg = ArgWord(JobArg) /\ r2.todo = JobEntry
      <4>1. JobEntry \in Entry /\ JobArg \in Arg
        BY <2>3
      <4> HIDE DEF JobEntry, JobArg
      <4> QED
        BY <1>1, <2>1, <3>1, <4>1, ArgPopped
    <3> QED
      BY <3>3 DEF Left
  <2>5. r2.pc = "run"
    BY CoreFacts DEF CoreT, Begun
  <2>6. /\ core' = [core EXCEPT ![c] = r2] /\ fifo' = [fifo EXCEPT ![c] = q2]
        /\ UNCHANGED <<current, team, mask, status, event>>
    BY <1>4 DEF PopArg, Begun
  <2>7. CoreStepsTo(c, r2, q2)
    BY <1>2, <2>4, <2>5, <2>6 DEF CoreStepsTo
  <2>8. Quiet(c, r2, q2)
    BY <1>1, <2>4, <2>5, <2>6, <2>7, CoreFacts DEF Quiet
  <2> QED
    BY <1>1, <2>2, <2>3, <2>4, <2>5, <2>8
<1> QED
  BY <1>3, <1>4

\* Popping the third word ends a setup and triggers nothing.
LEMMA PopSizeStep ==
  ASSUME IInv, NEW c \in Core, PopSize(c)
  PROVE  \E r2, q2 : Quiet(c, r2, q2) /\ core[c].pc = "size" /\ r2.pc = "dispatch"
<1> DEFINE r2 == Free(ReturnTo(core[c].fn), SetupSp(core[c].arg))
           q2 == Tail(fifo[c])
<1>1. core[c].pc = "size" /\ fifo[c] # <<>> /\ ~Asleep(c)
  BY DEF PopSize, At, Asleep
<1>2. c # MASTER
  BY <1>1, CoreFacts
<1>3. /\ Follows(core[c], fifo[c], r2, q2, JobEntry, JobArg)
      /\ ToTrigger(r2, q2, JobEntry) = Left(c) /\ r2.pc = "dispatch"
  <2>1. /\ core[c] \in CoreT /\ fifo[c] \in Seq(Word)
        /\ Fine(core[c], fifo[c], JobEntry, JobArg)
    BY CoreFacts
  <2>2. r2 = Free(ReturnTo(core[c].fn), SetupSp(core[c].arg))
    OBVIOUS
  <2> HIDE DEF r2
  <2> QED
    BY <1>1, <2>1, <2>2, SizePopped DEF Left
<1>4. /\ core' = [core EXCEPT ![c] = r2] /\ fifo' = [fifo EXCEPT ![c] = q2]
      /\ UNCHANGED <<current, team, mask, status, event>>
  BY DEF PopSize
<1> HIDE DEF r2
<1>5. CoreStepsTo(c, r2, q2)
  BY <1>2, <1>3, <1>4 DEF CoreStepsTo
<1>6. Quiet(c, r2, q2)
  BY <1>1, <1>3, <1>4, <1>5, CoreFacts DEF Quiet
<1> QED
  BY <1>1, <1>3, <1>6

\* The master core is in a fork whenever it is in an entry point.
LEMMA MasterForked ==
  ASSUME IInv, NEW c \in Core, Busy(core[c])
  PROVE  Forked /\ c \in Team /\ JobEntry \in Entry /\ JobArg \in Arg
BY CoreFacts DEF Involved

\* pi_cl_team_barrier triggers the barrier that is next in the entry point.
LEMMA BarrierStep ==
  ASSUME IInv, NEW c \in Core, pi_cl_team_barrier(c)
  PROVE  \E r2 : /\ Loud(c, r2, fifo[c], Head(core[c].todo))
                 /\ core[c].pc = "run" /\ core[c].todo # <<>>
                 /\ r2 = [core[c] EXCEPT !.pc = "barrier"]
<1> DEFINE r2 == [core[c] EXCEPT !.pc = "barrier"]
<1>1. core[c].pc = "run" /\ core[c].todo # <<>> /\ ~Asleep(c) /\ Busy(core[c])
  BY DEF pi_cl_team_barrier, At, Asleep, Busy
<1>2. /\ core[c] \in CoreT /\ fifo[c] \in Seq(Word)
      /\ Fine(core[c], fifo[c], JobEntry, JobArg)
      /\ c = MASTER => fifo[c] = <<>>
  BY CoreFacts
<1>3. Forked /\ c \in Team /\ JobEntry \in Entry /\ JobArg \in Arg
  BY <1>1, MasterForked
<1>4. r2.pc = "barrier" /\ r2.fn = core[c].fn /\ r2.arg = core[c].arg
  BY <1>2 DEF CoreT
<1>5. /\ Follows(core[c], fifo[c], r2, fifo[c], JobEntry, JobArg)
      /\ Left(c) \in Nat \ {0, 1}
      /\ ToTrigger(r2, fifo[c], JobEntry) + 1 = Left(c)
      /\ Head(core[c].todo) = BarrierOf(JobEntry, Left(c))
      /\ Head(core[c].todo) \in Barrier
      /\ ToTrigger(r2, fifo[c], JobEntry) \in Nat
  <2>1. r2 = [core[c] EXCEPT !.pc = "barrier"]
    OBVIOUS
  <2>2. JobEntry \in Entry
    BY <1>3
  <2> HIDE DEF r2, JobEntry, JobArg
  <2>3. /\ Follows(core[c], fifo[c], r2, fifo[c], JobEntry, JobArg)
        /\ ToTrigger(core[c], fifo[c], JobEntry) \in Nat \ {0, 1}
        /\ ToTrigger(r2, fifo[c], JobEntry) + 1 = ToTrigger(core[c], fifo[c], JobEntry)
        /\ Head(core[c].todo) = BarrierOf(JobEntry, ToTrigger(core[c], fifo[c], JobEntry))
        /\ Head(core[c].todo) \in Barrier
    BY <1>1, <1>2, <2>1, <2>2, BarrierReached
  <2>4. r2 \in CoreT /\ r2.pc = "barrier"
    BY <1>4, <2>3 DEF Follows
  <2>5. ToTrigger(r2, fifo[c], JobEntry) \in Nat
    <3>1. r2.todo \in Seq(Barrier)
      BY <2>4 DEF CoreT
    <3>2. Len(r2.todo) \in Nat
      BY <3>1, LenProperties
    <3> QED
      BY <2>4, <3>2 DEF ToTrigger
  <2> QED
    BY <2>3, <2>5 DEF Left
<1>6. /\ core' = [core EXCEPT ![c] = r2] /\ fifo' = [fifo EXCEPT ![c] = fifo[c]]
      /\ UNCHANGED <<current, team, mask>> /\ TriggerWait(Head(core[c].todo), c)
  <2>1. core \in [Core -> CoreT] /\ fifo \in [Core -> Seq(Word)]
    BY ShapeOf DEF Shape, CoreTypes
  <2> QED
    BY <2>1 DEF pi_cl_team_barrier, Goto
<1>7. CoreStepsTo(c, r2, fifo[c])
  BY <1>2, <1>3, <1>4, <1>5, <1>6 DEF CoreStepsTo
<1>8. Loud(c, r2, fifo[c], Head(core[c].todo))
  BY <1>1, <1>4, <1>5, <1>6, <1>7 DEF Loud
<1> QED
  BY <1>1, <1>8

\* A core that leaves the entry point has passed all its barriers.
LEMMA ReturnStep ==
  ASSUME IInv, NEW c \in Core, Return(c)
  PROVE  \E r2 : /\ Quiet(c, r2, fifo[c])
                 /\ core[c].pc = "run" /\ core[c].todo = <<>> /\ r2.pc = "sync"
<1> DEFINE r2 == Departed(core[c])
<1>1. core[c].pc = "run" /\ core[c].todo = <<>> /\ ~Asleep(c) /\ Busy(core[c])
  BY DEF Return, At, Asleep, Busy
<1>2. /\ core[c] \in CoreT /\ fifo[c] \in Seq(Word)
      /\ Fine(core[c], fifo[c], JobEntry, JobArg)
      /\ c = MASTER => fifo[c] = <<>>
      /\ event \ {c} = event
  BY <1>1, CoreFacts
<1>3. Forked /\ c \in Team /\ JobEntry \in Entry /\ JobArg \in Arg
  BY <1>1, MasterForked
<1>4. r2.fn = core[c].fn /\ r2.arg = core[c].arg
  BY <1>2 DEF CoreT, Departed
<1>5. /\ Follows(core[c], fifo[c], r2, fifo[c], JobEntry, JobArg)
      /\ ToTrigger(r2, fifo[c], JobEntry) = Left(c) /\ r2.pc = "sync"
  <2>1. JobEntry \in Entry
    BY <1>3
  <2> HIDE DEF JobEntry, JobArg
  <2>2. /\ Follows(core[c], fifo[c], r2, fifo[c], JobEntry, JobArg) /\ r2.pc = "sync"
        /\ ToTrigger(r2, fifo[c], JobEntry) = ToTrigger(core[c], fifo[c], JobEntry)
    BY <1>1, <1>2, <2>1, EntryLeft
  <2> QED
    BY <2>2 DEF Left
<1>6. /\ core' = [core EXCEPT ![c] = r2] /\ fifo' = [fifo EXCEPT ![c] = fifo[c]]
      /\ UNCHANGED <<current, team, mask, status, event>>
  <2>1. core \in [Core -> CoreT] /\ fifo \in [Core -> Seq(Word)]
    BY ShapeOf DEF Shape, CoreTypes
  <2> QED
    BY <2>1 DEF Return, Goto, unit, Departed
<1> HIDE DEF r2
<1>7. CoreStepsTo(c, r2, fifo[c])
  BY <1>2, <1>3, <1>4, <1>5, <1>6 DEF CoreStepsTo
<1>8. Quiet(c, r2, fifo[c])
  BY <1>1, <1>2, <1>5, <1>6, <1>7 DEF Quiet
<1> QED
  BY <1>1, <1>5, <1>8

\* A core that is done triggers the barrier of the dispatch, its last.
LEMMA SyncStep ==
  ASSUME IInv, NEW c \in Core, Sync(c)
  PROVE  \E r2 : /\ Loud(c, r2, fifo[c], SYNC) /\ fifo[c] = <<>>
                 /\ core[c].pc = "sync" /\ r2.pc = "asleep"
<1> DEFINE r2 == [core[c] EXCEPT !.pc = "asleep"]
<1>1. core[c].pc = "sync" /\ ~Asleep(c) /\ Busy(core[c])
  BY DEF Sync, At, Asleep, Busy
<1>2. /\ core[c] \in CoreT /\ fifo[c] \in Seq(Word)
      /\ Fine(core[c], fifo[c], JobEntry, JobArg)
      /\ c = MASTER => fifo[c] = <<>>
  BY CoreFacts
<1>3. Forked /\ c \in Team /\ JobEntry \in Entry /\ JobArg \in Arg
  BY <1>1, MasterForked
<1>4. r2.pc = "asleep" /\ r2.fn = core[c].fn /\ r2.arg = core[c].arg
  BY <1>2 DEF CoreT
<1>5. /\ Follows(core[c], fifo[c], r2, fifo[c], JobEntry, JobArg) /\ fifo[c] = <<>>
      /\ Left(c) = 1 /\ ToTrigger(r2, fifo[c], JobEntry) = 0
  <2>1. r2 = [core[c] EXCEPT !.pc = "asleep"]
    OBVIOUS
  <2> HIDE DEF r2, JobEntry, JobArg
  <2> QED
    BY <1>1, <1>2, <2>1, Synced DEF Left
<1>6. /\ core' = [core EXCEPT ![c] = r2] /\ fifo' = [fifo EXCEPT ![c] = fifo[c]]
      /\ UNCHANGED <<current, team, mask>> /\ TriggerWait(SYNC, c)
  <2>1. core \in [Core -> CoreT] /\ fifo \in [Core -> Seq(Word)]
    BY ShapeOf DEF Shape, CoreTypes
  <2> QED
    BY <2>1 DEF Sync, Goto
<1>7. CoreStepsTo(c, r2, fifo[c])
  BY <1>2, <1>3, <1>4, <1>5, <1>6 DEF CoreStepsTo
<1>8. Loud(c, r2, fifo[c], SYNC)
  BY <1>1, <1>4, <1>5, <1>6, <1>7 DEF Loud, BarrierOf, Barrier
<1> QED
  BY <1>1, <1>4, <1>5, <1>8

\* A core woken at a barrier, or a slave after a fork.
LEMMA WakeStep ==
  ASSUME IInv, NEW c \in Core, Wake(c), ~(c = MASTER /\ core[c].pc = "asleep")
  PROVE  \E r2 : /\ Quiet(c, r2, fifo[c]) /\ c \in event
                 /\ \/ /\ core[c].pc = "barrier" /\ r2.pc = "run"
                       /\ r2.fn = core[c].fn /\ r2.arg = core[c].arg
                       /\ Len(core[c].todo) \in Nat \ {0}
                       /\ Len(r2.todo) = Len(core[c].todo) - 1
                    \/ core[c].pc = "asleep" /\ r2.pc = "dispatch"
<1>1. c \in event /\ event' = event \ {c} /\ Asleep(c)
  BY DEF Wake, IInv, TypeOK, Asleep
<1>2. /\ core[c] \in CoreT /\ fifo[c] \in Seq(Word)
      /\ Fine(core[c], fifo[c], JobEntry, JobArg)
      /\ c = MASTER => fifo[c] = <<>>
  BY CoreFacts
<1>3. /\ core \in [Core -> CoreT] /\ fifo \in [Core -> Seq(Word)]
      /\ fifo' = [fifo EXCEPT ![c] = fifo[c]]
      /\ UNCHANGED <<current, team, mask, status>>
  BY ShapeOf DEF Shape, CoreTypes, Wake
<1>4. CASE core[c].pc = "barrier"
  <2> DEFINE r2 == Resumed(core[c])
  <2>1. Forked /\ c \in Team /\ JobEntry \in Entry /\ JobArg \in Arg
    BY <1>4, MasterForked DEF Busy
  <2>2. r2.pc = "run" /\ r2.fn = core[c].fn /\ r2.arg = core[c].arg
    BY <1>2 DEF CoreT, Resumed
  <2>3. /\ Follows(core[c], fifo[c], r2, fifo[c], JobEntry, JobArg)
        /\ ToTrigger(r2, fifo[c], JobEntry) = Left(c)
        /\ Len(core[c].todo) \in Nat \ {0} /\ Len(r2.todo) = Len(core[c].todo) - 1
    <3>1. JobEntry \in Entry
      BY <2>1
    <3> HIDE DEF JobEntry, JobArg
    <3>2. /\ Follows(core[c], fifo[c], r2, fifo[c], JobEntry, JobArg)
          /\ ToTrigger(r2, fifo[c], JobEntry) = ToTrigger(core[c], fifo[c], JobEntry)
          /\ Len(core[c].todo) \in Nat \ {0} /\ Len(r2.todo) = Len(core[c].todo) - 1
      BY <1>2, <1>4, <3>1, BarrierPassed
    <3> QED
      BY <3>2 DEF Left
  <2>4. core' = [core EXCEPT ![c] = r2]
    <3>1. r2 = [core[c] EXCEPT !.pc = "run", !.todo = Tail(core[c].todo)]
      BY DEF Resumed
    <3> HIDE DEF r2
    <3> QED
      BY <1>4, <3>1 DEF Wake
  <2> HIDE DEF r2
  <2>5. CoreStepsTo(c, r2, fifo[c])
    BY <1>2, <1>3, <2>1, <2>2, <2>3, <2>4 DEF CoreStepsTo
  <2>6. Quiet(c, r2, fifo[c])
    BY <1>1, <1>3, <2>2, <2>3, <2>5 DEF Quiet
  <2> QED
    BY <1>1, <1>4, <2>2, <2>3, <2>6
<1>5. CASE core[c].pc = "asleep"
  <2> DEFINE r2 == Free("dispatch", core[c].sp)
  <2>1. c # MASTER
    BY <1>5
  <2>2. r2.pc = "dispatch"
    BY DEF Free
  <2>3. /\ Follows(core[c], fifo[c], r2, fifo[c], JobEntry, JobArg)
        /\ ToTrigger(r2, fifo[c], JobEntry) = Left(c)
    <3>1. r2 = Free("dispatch", core[c].sp)
      OBVIOUS
    <3> HIDE DEF r2, JobEntry, JobArg
    <3> QED
      BY <1>2, <1>5, <3>1, Woken DEF Left
  <2>4. core' = [core EXCEPT ![c] = r2]
    BY <1>5, <2>1 DEF Wake
  <2> HIDE DEF r2
  <2>5. CoreStepsTo(c, r2, fifo[c])
    BY <1>3, <2>1, <2>2, <2>3, <2>4 DEF CoreStepsTo
  <2>6. Quiet(c, r2, fifo[c])
    BY <1>1, <1>3, <2>2, <2>3, <2>5 DEF Quiet
  <2> QED
    BY <1>1, <1>5, <2>2, <2>6
<1> QED
  BY <1>1, <1>4, <1>5 DEF Asleep

(***************************************************************************)
(* The steps of the master core between forks                              *)
(***************************************************************************)

\* No core has a fork before it or is in one.
Calm == \A c \in Core : ~Involved(core[c], fifo[c])

\* When no core is involved in a fork, no barrier has been triggered.
LEMMA CalmFacts ==
  ASSUME IInv, Calm
  PROVE  /\ \A c \in Core : Asleep(c) => c \in event
         /\ \A b \in Barrier : status[b] = {}
         /\ \A f, b : \A c \in Core : /\ Fine(core[c], fifo[c], f, b)
                                       /\ ToTrigger(core[c], fifo[c], f) = 0
<1>1. ASSUME NEW c \in Core, NEW f, NEW b
      PROVE  Fine(core[c], fifo[c], f, b) /\ ToTrigger(core[c], fifo[c], f) = 0
  <2>1. /\ fifo[c] \in Seq(Word) /\ Fine(core[c], fifo[c], JobEntry, JobArg)
        /\ ~Involved(core[c], fifo[c])
    BY CoreFacts DEF Calm
  <2> HIDE DEF JobEntry, JobArg
  <2> QED
    BY <2>1, Uninvolved
<1>2. PICK l \in Nat : Lockstep(l)
  BY DEF IInv, Level
<1>3. Team \subseteq Core /\ (Forked => Team # {})
  <2>1. Team \subseteq Core
    BY TeamIsCores DEF IInv
  <2>2. ASSUME Forked PROVE MASTER \in Team
    <3>1. PICK n \in 0..NB_PE : Team = 0..(n - 1) /\ n > 0
      BY <2>2 DEF IInv, Teamed, Forked, At
    <3> QED
      BY <3>1 DEF MASTER
  <2> QED
    BY <2>1, <2>2
<1>4. \A c \in Team : Left(c) = 0
  BY <1>1, <1>3 DEF Left
<1>5. l = 0
  <2>1. SUFFICES ASSUME l > 0 PROVE FALSE
    OBVIOUS
  <2>2. Forked /\ Team # Behind(l)
    BY <2>1, <1>2 DEF Lockstep
  <2>3. l = 1
    <3>1. PICK c \in Team : TRUE
      BY <2>2, <1>3
    <3>2. Left(c) = 0 /\ (Left(c) = l \/ Left(c) + 1 = l)
      BY <1>2, <1>4 DEF Lockstep
    <3> QED
      BY <3>2, <2>1
  <2>4. Behind(1) = Team
    BY <1>4 DEF Behind
  <2> QED
    BY <2>2, <2>3, <2>4
<1>6. Behind(0) = {}
  BY <1>4 DEF Behind
<1> QED
  BY <1>1, <1>2, <1>5, <1>6 DEF Lockstep

\* Nobody is involved while no fork is under way, or once it is over.
LEMMA CalmIdle == ASSUME IInv, ~Forked PROVE Calm
BY DEF IInv, Framed, Calm

\* When the master core is woken from the last barrier, all cores are done.
LEMMA CalmJoined ==
  ASSUME IInv, MASTER \in event, core[MASTER].pc = "asleep"
  PROVE  Calm
<1>1. PICK l \in Nat : Lockstep(l)
  BY DEF IInv, Level
<1>2. MASTER \in Core /\ MASTER \in Team
  <2>1. PICK n \in 0..NB_PE : Team = 0..(n - 1) /\ n > 0
    BY DEF IInv, Teamed, At
  <2> QED
    BY <2>1, MasterIsCore DEF MASTER
<1>3. Left(MASTER) = 0
  BY DEF Left, ToTrigger, Awaits, HasEntry, IInv, Seated
<1>4. MASTER \notin Behind(l)
  BY <1>1, <1>2 DEF Lockstep
<1>5. l = 0
  BY <1>1, <1>2, <1>3, <1>4 DEF Lockstep, Behind
<1>6. SUFFICES ASSUME NEW c \in Core, Involved(core[c], fifo[c]) PROVE FALSE
  BY DEF Calm
<1>7. /\ core[c] \in CoreT /\ Fine(core[c], fifo[c], JobEntry, JobArg)
      /\ c \in Team /\ JobEntry \in Entry
  BY <1>6, CoreFacts
<1>8. Left(c) = 0
  <2>1. Left(c) \in Nat
    BY ShapeOf, LeftIsNat
  <2> QED
    BY <2>1, <1>1, <1>5, <1>7 DEF Lockstep
<1>9. Len(core[c].todo) \in Nat /\ Len(JobEntry) \in Nat
  <2>1. core[c].todo \in Seq(Barrier)
    BY <1>7 DEF CoreT
  <2> QED
    BY <2>1, <1>7, EntryLen, LenProperties
<1>10. core[c].pc = "barrier" => Len(core[c].todo) # 0
  <2>1. core[c].pc = "barrier" => core[c].todo # <<>>
    BY <1>7 DEF Fine, Works, Busy
  <2>2. core[c].todo \in Seq(Barrier)
    BY <1>7 DEF CoreT
  <2> QED
    BY <2>1, <2>2, EmptySeq
<1> QED
  BY <1>6, <1>8, <1>9, <1>10 DEF Left, ToTrigger, Involved, Busy

\* A step of the master core between forks.
LEMMA CalmNext ==
  ASSUME IInv, Calm, CoreTypes', Teamed', Seated', ~Forked', Stacked',
         \A c \in Core : /\ Fine(core'[c], fifo'[c], JobEntry', JobArg')
                         /\ ~Involved(core'[c], fifo'[c]),
         \A c \in Core \ {MASTER} : core'[c].pc = core[c].pc,
         status' = status, event' = event \ {MASTER},
         mask' \in [Barrier -> SUBSET Core], team' \subseteq Core \ {MASTER},
         current' \in [stacks : Stack, nb_cores : 1 .. NB_PE] \cup {NULL}
  PROVE  IInv'
<1>1. /\ \A c \in Core : Asleep(c) => c \in event
      /\ \A b \in Barrier : status'[b] = {}
  BY CalmFacts
<1>2. ~Asleep(MASTER)'
  BY DEF Asleep, Forked
<1>3. \A c \in Core : Asleep(c)' => c \in event'
  BY <1>1, <1>2 DEF Asleep
<1>4. \A c \in Core : Left(c)' = 0
  <2>1. ASSUME NEW c \in Core PROVE ToTrigger(core'[c], fifo'[c], JobEntry') = 0
    <3>1. /\ fifo'[c] \in Seq(Word) /\ Fine(core'[c], fifo'[c], JobEntry', JobArg')
          /\ ~Involved(core'[c], fifo'[c])
      BY DEF CoreTypes
    <3> HIDE DEF JobEntry, JobArg
    <3> QED
      BY <3>1, Uninvolved
  <2> QED
    BY <2>1 DEF Left
<1>5. Team' \subseteq Core
  BY DEF Team, Barrier
<1>6. Behind(0)' = {}
  BY <1>4, <1>5 DEF Behind
<1>7. Lockstep(0)'
  BY <1>1, <1>3, <1>4, <1>5, <1>6 DEF Lockstep
<1>8. TypeOK'
  <2>1. event' \subseteq {c \in Core : core'[c].pc \in {"barrier", "asleep"}}
    BY <1>2 DEF IInv, TypeOK
  <2>2. status' \in [Barrier -> SUBSET Core]
    BY DEF IInv, TypeOK
  <2>3. \A b \in Barrier : /\ status'[b] \subseteq mask'[b]
                           /\ status'[b] = mask'[b] => mask'[b] = {}
    BY <1>1
  <2> QED
    BY <2>1, <2>2, <2>3 DEF TypeOK, CoreTypes, Word
<1>9. Employed' /\ Framed' /\ Level'
  BY <1>7 DEF Employed, Framed, Level
<1> QED
  BY <1>8, <1>9 DEF IInv

\* The fork is over: the master core is back in the task.
LEMMA JoinStep ==
  ASSUME IInv, Wake(MASTER), core[MASTER].pc = "asleep"
  PROVE  IInv' /\ Calm /\ ~Forked'
<1>1. MASTER \in event /\ event' = event \ {MASTER}
  BY DEF Wake
<1>2. Calm
  BY <1>1, CalmJoined
<1> DEFINE r2 == Free("body", core[MASTER].sp)
<1>3. /\ core' = [core EXCEPT ![MASTER] = r2]
      /\ UNCHANGED <<current, team, fifo, mask, status>>
  BY DEF Wake
<1>4. CoreTypes /\ core[MASTER] \in CoreT /\ fifo[MASTER] = <<>>
  BY ShapeOf, MasterIsCore, CoreFacts DEF Shape
<1>5. r2 \in CoreT /\ r2.pc = "body" /\ r2.sp = core[MASTER].sp
  BY <1>4 DEF Free, CoreT, Pc
<1> HIDE DEF r2
<1>6. /\ core'[MASTER] = r2 /\ \A d \in Core \ {MASTER} : core'[d] = core[d]
      /\ CoreTypes'
  BY <1>3, <1>4, <1>5, MasterIsCore DEF CoreTypes
<1>7. ~Forked'
  BY <1>5, <1>6 DEF Forked
<1>8. Teamed'
  <2>1. ~At(MASTER, "loop")
    BY DEF At
  <2> QED
    BY <2>1, <1>3 DEF IInv, Teamed, Team
<1>9. Seated'
  BY <1>3, <1>5, <1>6 DEF IInv, Seated, At
<1>10. Stacked'
  <2>1. SUFFICES ASSUME current # NULL, NEW d \in 0..(current.nb_cores - 1)
                 PROVE  StackIn(core'[d], fifo[d], current.stacks)
    BY <1>3 DEF Stacked
  <2>2. StackIn(core[d], fifo[d], current.stacks)
    BY <2>1 DEF IInv, Stacked
  <2>3. CASE d = MASTER
    BY <2>2, <2>3, <1>5, <1>6 DEF StackIn
  <2>4. CASE d # MASTER
    BY <2>2, <2>4, <1>3
  <2> QED
    BY <2>3, <2>4
<1>11. ASSUME NEW c \in Core
       PROVE  /\ Fine(core'[c], fifo'[c], JobEntry', JobArg')
              /\ ~Involved(core'[c], fifo'[c])
  <2>1. CASE c = MASTER
    BY <2>1, <1>3, <1>4, <1>5, <1>6
       DEF Fine, Frames, ExpectsFunction, ExpectsKind, ExpectsSetup, ExpectsArg,
           ExpectsSize, Works, Busy, Involved, Awaits, HasEntry
  <2>2. CASE c # MASTER
    BY <2>2, <1>2, <1>3, <1>6, CalmFacts DEF Calm
  <2> QED
    BY <2>1, <2>2
<1>12. /\ mask' \in [Barrier -> SUBSET Core] /\ team' \subseteq Core \ {MASTER}
       /\ current' \in [stacks : Stack, nb_cores : 1 .. NB_PE] \cup {NULL}
  BY <1>3 DEF IInv, TypeOK
<1> QED
  BY <1>1, <1>2, <1>3, <1>6, <1>7, <1>8, <1>9, <1>10, <1>11, <1>12, CalmNext

\* A task ends.
LEMMA EndTaskStep ==
  ASSUME IInv, EndTask
  PROVE  IInv' /\ ~Forked /\ ~Forked'
<1>1. /\ core[MASTER].pc = "body" /\ current' = NULL
      /\ UNCHANGED <<team, fifo, mask, status, event>>
  BY DEF EndTask, At, unit
<1>2. ~Forked /\ Calm
  BY <1>1, CalmIdle DEF Forked
<1> DEFINE r2 == [core[MASTER] EXCEPT !.pc = "loop"]
<1>4. CoreTypes /\ core[MASTER] \in CoreT /\ fifo[MASTER] = <<>>
  BY ShapeOf, MasterIsCore, CoreFacts DEF Shape
<1>3. core' = [core EXCEPT ![MASTER] = r2]
  BY <1>4 DEF EndTask, Goto, CoreTypes
<1>5. r2 \in CoreT /\ r2.pc = "loop"
  BY <1>4 DEF CoreT, Pc
<1> HIDE DEF r2
<1>6. /\ core'[MASTER] = r2 /\ \A d \in Core \ {MASTER} : core'[d] = core[d]
      /\ CoreTypes'
  BY <1>1, <1>3, <1>4, <1>5, MasterIsCore DEF CoreTypes
<1>7. ~Forked'
  BY <1>5, <1>6 DEF Forked
<1>8. Teamed'
  BY <1>1, <1>5, <1>6 DEF IInv, Teamed, Team, At
<1>9. Seated'
  BY <1>1, <1>5, <1>6 DEF IInv, Seated, At
<1>10. Stacked'
  BY <1>1 DEF Stacked
<1>11. ASSUME NEW c \in Core
       PROVE  /\ Fine(core'[c], fifo'[c], JobEntry', JobArg')
              /\ ~Involved(core'[c], fifo'[c])
  <2>1. CASE c = MASTER
    BY <2>1, <1>1, <1>4, <1>5, <1>6
       DEF Fine, Frames, ExpectsFunction, ExpectsKind, ExpectsSetup, ExpectsArg,
           ExpectsSize, Works, Busy, Involved, Awaits, HasEntry
  <2>2. CASE c # MASTER
    BY <2>2, <1>1, <1>2, <1>6, CalmFacts DEF Calm
  <2> QED
    BY <2>1, <2>2
<1>12. /\ mask' \in [Barrier -> SUBSET Core] /\ team' \subseteq Core \ {MASTER}
       /\ current' \in [stacks : Stack, nb_cores : 1 .. NB_PE] \cup {NULL}
       /\ event' = event \ {MASTER}
  BY <1>1 DEF IInv, TypeOK
<1> QED
  BY <1>1, <1>2, <1>6, <1>7, <1>8, <1>9, <1>10, <1>11, <1>12, CalmNext

\* The masks of n cores.
LEMMA MasksOf ==
  ASSUME NEW n \in 1..NB_PE
  PROVE  /\ BarrierMask(TeamMask(n)) = [b \in Barrier |-> 0..(n - 1)]
         /\ BarrierMask(TeamMask(n)) \in [Barrier -> SUBSET Core]
         /\ DispatchTeam(n) = (0..(n - 1)) \ {MASTER} /\ DispatchTeam(n) \subseteq Core \ {MASTER}
         /\ MASTER \in 0..(n - 1) /\ 0..(n - 1) \subseteq Core
<1>1. MASTER \in 0..(n - 1) /\ 0..(n - 1) \subseteq Core
  BY MasterIsCore DEF MASTER, Core
<1>2. TeamMask(n) \cup {MASTER} = 0..(n - 1)
  BY <1>1 DEF TeamMask
<1>3. BarrierMask(TeamMask(n)) = [b \in Barrier |-> 0..(n - 1)]
  BY <1>2 DEF BarrierMask
<1> QED
  BY <1>1, <1>3 DEF DispatchTeam, TeamMask

\* A task starts.
LEMMA StartTaskStep ==
  ASSUME IInv, NEW s \in Stack, NEW n \in 1..NB_PE, StartTask(s, n)
  PROVE  IInv' /\ ~Forked /\ ~Forked' /\ Team' = 0..(n - 1)
<1> DEFINE t == (0..(n - 1)) \ {MASTER}
<1>1. /\ core[MASTER].pc = "loop"
      /\ Room(t, SetupWords(s))
      /\ current' = [stacks |-> s, nb_cores |-> n]
      /\ mask' = [b \in Barrier |-> 0..(n - 1)]
      /\ team' = t /\ fifo' = Pushed(t, SetupWords(s))
      /\ core' = [core EXCEPT ![MASTER].pc = "body", ![MASTER].sp = s]
      /\ UNCHANGED <<status, event>>
  BY MasksOf DEF StartTask, At, SetupTeam
<1>2. ~Forked /\ Calm
  BY <1>1, CalmIdle DEF Forked
<1> DEFINE r2 == [core[MASTER] EXCEPT !.pc = "body", !.sp = s]
<1>4. CoreTypes /\ core[MASTER] \in CoreT /\ fifo[MASTER] = <<>>
  BY ShapeOf, MasterIsCore, CoreFacts DEF Shape
<1>3. core' = [core EXCEPT ![MASTER] = r2]
  BY <1>1, <1>4 DEF CoreTypes
<1>5. r2 \in CoreT /\ r2.pc = "body" /\ r2.sp = s
  BY <1>4 DEF CoreT, Pc
<1> HIDE DEF r2
<1>6. /\ core'[MASTER] = r2 /\ \A d \in Core \ {MASTER} : core'[d] = core[d]
      /\ core' \in [Core -> CoreT]
  BY <1>3, <1>4, <1>5, MasterIsCore DEF CoreTypes
<1>7. ~Forked'
  BY <1>5, <1>6 DEF Forked
<1>8. ASSUME NEW c \in Core
      PROVE  /\ c \in t => fifo'[c] = fifo[c] \o SetupWords(s)
             /\ c \notin t => fifo'[c] = fifo[c]
  BY <1>1 DEF Pushed
<1>9. ASSUME NEW c \in t, NEW f, NEW b
      PROVE  /\ fifo'[c] \in Seq(Word) /\ Len(fifo'[c]) <= FIFO_DEPTH
             /\ Fine(core[c], fifo'[c], f, b) /\ ~Involved(core[c], fifo'[c])
             /\ StackIn(core[c], fifo'[c], s)
  <2>1. c \in Core
    BY MasksOf
  <2>2. /\ core[c] \in CoreT /\ fifo[c] \in Seq(Word)
        /\ Fine(core[c], fifo[c], JobEntry, JobArg) /\ ~Involved(core[c], fifo[c])
    BY <2>1, <1>2, CoreFacts DEF Calm
  <2>3. fifo'[c] = fifo[c] \o SetupWords(s)
    BY <2>1, <1>8
  <2> HIDE DEF JobEntry, JobArg, t
  <2>4. /\ fifo'[c] \in Seq(Word) /\ Len(fifo'[c]) = Len(fifo[c]) + 3
        /\ Fine(core[c], fifo'[c], f, b) /\ ~Involved(core[c], fifo'[c])
        /\ StackIn(core[c], fifo'[c], s)
    BY <2>2, <2>3, SetupPushed
  <2>5. Len(fifo[c]) + Len(SetupWords(s)) <= FIFO_DEPTH
    BY <1>1 DEF Room
  <2>6. Len(SetupWords(s)) = 3
    BY SetupIs
  <2> QED
    BY <2>4, <2>5, <2>6
<1>10. CoreTypes'
  <2>1. \A c \in Core : fifo'[c] \in Seq(Word) /\ Len(fifo'[c]) <= FIFO_DEPTH
    BY <1>4, <1>8, <1>9 DEF CoreTypes
  <2>2. fifo' \in [Core -> Seq(Word)]
    BY <2>1, <1>1 DEF Pushed
  <2> QED
    BY <2>1, <2>2, <1>6 DEF CoreTypes
<1>11. Teamed' /\ Team' = 0..(n - 1)
  <2>1. mask'[SYNC] = 0..(n - 1) /\ mask'[LEGCY] = 0..(n - 1)
    BY <1>1 DEF Barrier
  <2>2. n \in 0..NB_PE /\ n > 0
    BY MasterIsCore
  <2> QED
    BY <2>1, <2>2, <1>1 DEF Teamed, Team
<1>12. Seated'
  <2>1. NULL # [stacks |-> s, nb_cores |-> n]
    BY NullAssumption
  <2> QED
    BY <2>1, <1>1, <1>4, <1>5, <1>6, <1>8, MasterIsCore DEF IInv, Seated, At
<1>13. Stacked'
  <2>1. SUFFICES ASSUME NEW d \in 0..(n - 1) PROVE StackIn(core'[d], fifo'[d], s)
    BY <1>1 DEF Stacked
  <2>2. CASE d = MASTER
    <3>1. fifo'[d] = <<>>
      BY <2>2, <1>4, <1>8, MasterIsCore
    <3>2. core'[d].sp = s /\ core'[d].pc = "body"
      BY <2>2, <1>5, <1>6
    <3> QED
      BY <3>1, <3>2 DEF StackIn, LastTop
  <2>3. CASE d # MASTER
    <3>1. d \in Core /\ core'[d] = core[d]
      BY <2>3, <1>6, MasksOf
    <3> QED
      BY <2>3, <3>1, <1>9
  <2> QED
    BY <2>2, <2>3
<1>14. ASSUME NEW c \in Core
       PROVE  /\ Fine(core'[c], fifo'[c], JobEntry', JobArg')
              /\ ~Involved(core'[c], fifo'[c])
  <2>1. CASE c = MASTER
    <3>1. fifo'[c] = <<>>
      BY <2>1, <1>4, <1>8
    <3> QED
      BY <2>1, <3>1, <1>5, <1>6
         DEF Fine, Frames, ExpectsFunction, ExpectsKind, ExpectsSetup, ExpectsArg,
             ExpectsSize, Works, Busy, Involved, Awaits, HasEntry
  <2>2. CASE c \in t
    BY <2>2, <1>6, <1>9
  <2>3. CASE c # MASTER /\ c \notin t
    BY <2>3, <1>2, <1>6, <1>8, CalmFacts DEF Calm
  <2> QED
    BY <2>1, <2>2, <2>3
<1>15. /\ mask' \in [Barrier -> SUBSET Core] /\ team' \subseteq Core \ {MASTER}
       /\ current' \in [stacks : Stack, nb_cores : 1 .. NB_PE] \cup {NULL}
       /\ event' = event \ {MASTER}
  BY <1>1, MasksOf DEF IInv, TypeOK
<1> QED
  BY <1>1, <1>2, <1>6, <1>7, <1>10, <1>11, <1>12, <1>13, <1>14, <1>15, CalmNext

(***************************************************************************)
(* A fork                                                                  *)
(***************************************************************************)

\* What the variants have in common.
Forks(entry, a) ==
  /\ core[MASTER].pc = "body"
  /\ Dispatch(entry, a, team', TRUE)
  /\ Teamed' /\ MASTER \in Team'
  /\ mask' \in [Barrier -> SUBSET Core] /\ team' \subseteq Core \ {MASTER}

\* The team of a fork: that of the call, or the last.
LEMMA Configured ==
  ASSUME IInv, core[MASTER].pc = "body", NEW n \in 0..NB_PE,
         IF n = 0 THEN UNCHANGED <<mask, team>> ELSE Config(n),
         core'[MASTER].pc # "loop"
  PROVE  /\ Teamed' /\ MASTER \in Team'
         /\ mask' \in [Barrier -> SUBSET Core] /\ team' \subseteq Core \ {MASTER}
         /\ n > 0 => Team' = 0..(n - 1)
<1>1. CASE n = 0
  <2>1. UNCHANGED <<mask, team>> /\ ~At(MASTER, "loop") /\ ~At(MASTER, "loop")'
    BY <1>1 DEF At
  <2>2. MASTER \in Team
    <3>1. PICK k \in 0..NB_PE : Team = 0..(k - 1) /\ k > 0
      BY <2>1 DEF IInv, Teamed
    <3> QED
      BY <3>1 DEF MASTER
  <2> QED
    BY <1>1, <2>1, <2>2 DEF IInv, TypeOK, Teamed, Team
<1>2. CASE n # 0
  <2>1. n \in 1..NB_PE
    BY <1>2, MasterIsCore
  <2>2. /\ mask' = [b \in Barrier |-> 0..(n - 1)] /\ team' = (0..(n - 1)) \ {MASTER}
        /\ MASTER \in 0..(n - 1) /\ 0..(n - 1) \subseteq Core
    BY <1>2, <2>1, MasksOf DEF Config
  <2>3. mask'[SYNC] = 0..(n - 1) /\ mask'[LEGCY] = 0..(n - 1)
    BY <2>2 DEF Barrier
  <2> QED
    BY <2>1, <2>2, <2>3 DEF Teamed, Team
<1> QED
  BY <1>1, <1>2

\* The registers of the master core in a fork.
Employs(r, entry, a) ==
  [pc |-> "run", fn |-> EntryWord(entry), arg |-> ArgWord(a), todo |-> entry, sp |-> r.sp]

\* The master core enters the entry point it dispatches.
LEMMA Dispatched ==
  ASSUME IInv, NEW entry, NEW a, NEW t, Dispatch(entry, a, t, TRUE)
  PROVE  /\ core'[MASTER] = Employs(core[MASTER], entry, a)
         /\ core' = [core EXCEPT ![MASTER] = Employs(core[MASTER], entry, a)]
         /\ core'[MASTER].pc = "run"
<1>1. core' = [core EXCEPT ![MASTER] = Employs(core[MASTER], entry, a)]
  BY DEF Dispatch, Employs
<1>2. core \in [Core -> CoreT]
  BY ShapeOf DEF Shape, CoreTypes
<1>3. core'[MASTER] = Employs(core[MASTER], entry, a)
  BY <1>1, <1>2, MasterIsCore
<1>4. Employs(core[MASTER], entry, a).pc = "run"
  BY DEF Employs
<1> QED
  BY <1>1, <1>3, <1>4

\* pi_cl_team_fork and pi_cl_team_fork_cc set the team and start the fork.
LEMMA ForkForks ==
  ASSUME IInv, NEW entry \in Entry, NEW a \in Arg, NEW n \in 0..NB_PE,
         pi_cl_team_fork(n, entry, a) \/ pi_cl_team_fork_cc(n, entry, a)
  PROVE  Forks(entry, a) /\ (n > 0 => Team' = 0..(n - 1)) /\ (n = 0 => Team' = Team)
<1>1. /\ core[MASTER].pc = "body" /\ Config(n)
      /\ IF n = 0 THEN UNCHANGED <<mask, team>> ELSE Config(n)
  BY DEF pi_cl_team_fork, pi_cl_team_fork_cc, At, Config
<1>2. MASTER \in IF n # 0 THEN TeamMask(n) ELSE mask[SYNC]
  <2>1. CASE n = 0
    <3>1. PICK k \in 0..NB_PE : Team = 0..(k - 1) /\ k > 0
      BY <1>1 DEF IInv, Teamed, At
    <3> QED
      BY <2>1, <3>1 DEF MASTER, Team
  <2>2. CASE n # 0
    BY <2>2 DEF TeamMask, MASTER
  <2> QED
    BY <2>1, <2>2
<1>3. Dispatch(entry, a, team', TRUE)
  <2>1. CASE pi_cl_team_fork_cc(n, entry, a)
    BY <2>1 DEF pi_cl_team_fork_cc
  <2>2. CASE pi_cl_team_fork(n, entry, a)
    <3>1. Dispatch(entry, a, team', MASTER \in IF n # 0 THEN TeamMask(n) ELSE mask[SYNC])
      BY <2>2 DEF pi_cl_team_fork
    <3>2. (MASTER \in IF n # 0 THEN TeamMask(n) ELSE mask[SYNC]) = TRUE
      BY <1>2
    <3> QED
      BY <3>1, <3>2
  <2> QED
    BY <2>1, <2>2
<1>4. core'[MASTER].pc # "loop"
  BY <1>3, Dispatched
<1>5. n = 0 => Team' = Team
  BY <1>1 DEF Team
<1> QED
  BY <1>1, <1>3, <1>4, <1>5, Configured DEF Forks

\* pi_cl_team_preset_fork starts the fork on the team that is set.
LEMMA PresetForks ==
  ASSUME IInv, NEW entry \in Entry, NEW a \in Arg, pi_cl_team_preset_fork(entry, a)
  PROVE  Forks(entry, a) /\ Team' = Team
<1>1. core[MASTER].pc = "body" /\ UNCHANGED <<mask, team>>
  BY DEF pi_cl_team_preset_fork, At
<1>2. MASTER \in mask[LEGCY]
  <2>1. PICK k \in 0..NB_PE : Team = 0..(k - 1) /\ k > 0
    BY <1>1 DEF IInv, Teamed, At
  <2> QED
    BY <2>1 DEF MASTER, IInv, Teamed
<1>3. Dispatch(entry, a, team', TRUE)
  <2>1. Dispatch(entry, a, team, MASTER \in mask[LEGCY])
    BY DEF pi_cl_team_preset_fork
  <2>2. (MASTER \in mask[LEGCY]) = TRUE
    BY <1>2
  <2> QED
    BY <1>1, <2>1, <2>2
<1>4. core'[MASTER].pc # "loop"
  BY <1>3, Dispatched
<1>5. 0 \in 0..NB_PE
  BY MasterIsCore
<1> QED
  BY <1>1, <1>3, <1>4, <1>5, Configured DEF Forks, Team

\* A fork starts.
LEMMA ForkStep ==
  ASSUME IInv, NEW entry \in Entry, NEW a \in Arg, Forks(entry, a)
  PROVE  /\ IInv' /\ ~Forked /\ Forked' /\ JobEntry' = entry /\ JobArg' = a
         /\ \A c \in Team' : c # MASTER => Awaits(core'[c], fifo'[c])
         /\ core'[MASTER] = Employs(core[MASTER], entry, a)
<1> DEFINE r2 == Employs(core[MASTER], entry, a)
<1>1. /\ core[MASTER].pc = "body"
      /\ Room(team', EntryWords(entry, a)) /\ fifo' = Pushed(team', EntryWords(entry, a))
      /\ core' = [core EXCEPT ![MASTER] = r2] /\ core'[MASTER] = r2
      /\ UNCHANGED <<current, status, event>>
  <2>1. core[MASTER].pc = "body" /\ Dispatch(entry, a, team', TRUE)
    BY DEF Forks
  <2>2. core' = [core EXCEPT ![MASTER] = r2] /\ core'[MASTER] = r2
    BY <2>1, Dispatched
  <2> QED
    BY <2>1, <2>2 DEF Dispatch
<1>2. ~Forked /\ Calm
  BY <1>1, CalmIdle DEF Forked
<1>3. CoreTypes /\ core[MASTER] \in CoreT /\ fifo[MASTER] = <<>>
  BY ShapeOf, MasterIsCore, CoreFacts DEF Shape
<1>4. /\ r2 \in CoreT /\ r2.pc = "run" /\ r2.sp = core[MASTER].sp
      /\ r2.fn = EntryWord(entry) /\ r2.arg = ArgWord(a) /\ r2.todo = entry
  <2>1. entry \in Seq(Barrier)
    BY EntryLen
  <2>2. /\ r2.pc = "run" /\ r2.sp = core[MASTER].sp
        /\ r2.fn = EntryWord(entry) /\ r2.arg = ArgWord(a) /\ r2.todo = entry
    BY DEF Employs
  <2>3. EntryWord(entry) \in FunctionWord /\ ArgWord(a) \in DataWord
    BY DEF EntryWord, ArgWord, FunctionWord, DataWord
  <2>4. core[MASTER].sp \in Stack \cup {NULL}
    BY <1>3 DEF CoreT
  <2>5. r2 \in CoreT
    BY <2>1, <2>3, <2>4 DEF Employs, CoreT, Pc
  <2> QED
    BY <2>2, <2>5
<1> HIDE DEF r2
<1>5. /\ \A d \in Core \ {MASTER} : core'[d] = core[d]
      /\ core' \in [Core -> CoreT]
  BY <1>1, <1>3, <1>4, MasterIsCore DEF CoreTypes
<1>6. Forked' /\ JobEntry' = entry /\ JobArg' = a
  BY <1>1, <1>4 DEF Forked, JobEntry, JobArg, EntryWord, ArgWord
<1>7. ASSUME NEW c \in Core
      PROVE  /\ c \in team' => fifo'[c] = fifo[c] \o EntryWords(entry, a)
             /\ c \notin team' => fifo'[c] = fifo[c]
  BY <1>1 DEF Pushed
<1>8. team' = Team' \ {MASTER} /\ Team' \subseteq Core /\ MASTER \in Team'
      /\ team' \subseteq Core /\ MASTER \notin team'
  BY MasterIsCore DEF Forks, Teamed, Team, Barrier
<1>9. ASSUME NEW c \in team'
      PROVE  /\ fifo'[c] \in Seq(Word) /\ Len(fifo'[c]) <= FIFO_DEPTH
             /\ Fine(core[c], fifo'[c], entry, a) /\ Awaits(core[c], fifo'[c])
             /\ ToTrigger(core[c], fifo'[c], entry) = Len(entry) + 1
             /\ KeepsStack(core[c], fifo[c], fifo'[c])
  <2>1. c \in Core
    BY <1>8
  <2>2. core[c] \in CoreT /\ fifo[c] \in Seq(Word) /\ Idle(core[c], fifo[c])
    BY <2>1, <1>2, CoreFacts, CalmFacts DEF Calm, Idle
  <2>3. fifo'[c] = fifo[c] \o EntryWords(entry, a)
    BY <2>1, <1>7
  <2>4. /\ fifo'[c] \in Seq(Word) /\ Len(fifo'[c]) = Len(fifo[c]) + 2
        /\ Fine(core[c], fifo'[c], entry, a) /\ Awaits(core[c], fifo'[c])
        /\ ~Busy(core[c]) /\ KeepsStack(core[c], fifo[c], fifo'[c])
    <3> DEFINE r == core[c]  q == fifo[c]  w == fifo'[c]
    <3>1. /\ r \in CoreT /\ q \in Seq(Word) /\ Idle(r, q)
          /\ w = q \o EntryWords(entry, a)
      BY <2>2, <2>3
    <3> HIDE DEF r, q, w
    <3>2. w \in Seq(Word)
      BY <3>1, EntryPushed
    <3>6. Len(w) = Len(q) + 2
      BY <3>1, EntryPushed
    <3>3. Fine(r, w, entry, a)
      BY <3>1, EntryPushed
    <3>4. Awaits(r, w) /\ ~Busy(r)
      BY <3>1, EntryPushed
    <3>5. KeepsStack(r, q, w)
      BY <3>1, EntryPushed
    <3> QED
      BY <3>2, <3>3, <3>4, <3>5, <3>6 DEF r, q, w
  <2>5. Len(fifo[c]) + Len(EntryWords(entry, a)) <= FIFO_DEPTH
    BY <1>1 DEF Room
  <2>6. Len(EntryWords(entry, a)) = 2
    BY EntryIs
  <2>7. ToTrigger(core[c], fifo'[c], entry) = Len(entry) + 1
    BY <2>4 DEF ToTrigger, Busy
  <2> QED
    BY <2>4, <2>5, <2>6, <2>7
<1>10. CoreTypes'
  <2>1. \A c \in Core : fifo'[c] \in Seq(Word) /\ Len(fifo'[c]) <= FIFO_DEPTH
    BY <1>3, <1>7, <1>9 DEF CoreTypes
  <2>2. fifo' \in [Core -> Seq(Word)]
    BY <2>1, <1>1 DEF Pushed
  <2> QED
    BY <2>1, <2>2, <1>5 DEF CoreTypes
<1>11. fifo'[MASTER] = <<>>
  BY <1>3, <1>7, <1>8, MasterIsCore
<1>12. Seated'
  BY <1>1, <1>4, <1>5, <1>11 DEF IInv, Seated, At
<1>13. Employed'
  BY <1>1, <1>4, <1>6 DEF Employed
<1>14. /\ Fine(r2, <<>>, entry, a) /\ Busy(r2)
       /\ ToTrigger(r2, <<>>, entry) = Len(entry) + 1
  <2>1. Suffix(entry, entry)
    BY EntryLen DEF Suffix
  <2>2. Fine(r2, <<>>, entry, a)
    BY <2>1, <1>4 DEF Fine, Frames, ExpectsFunction, ExpectsKind, ExpectsSetup, ExpectsArg,
           ExpectsSize, Works
  <2> QED
    BY <2>2, <1>4 DEF Busy, ToTrigger
<1>15. ASSUME NEW c \in Core
       PROVE  /\ Fine(core'[c], fifo'[c], entry, a)
              /\ Involved(core'[c], fifo'[c]) => c \in Team'
              /\ c \in Team' => ToTrigger(core'[c], fifo'[c], entry) = Len(entry) + 1
              /\ c \in Team' /\ c # MASTER => Awaits(core'[c], fifo'[c])
  <2>1. CASE c = MASTER
    BY <2>1, <1>1, <1>8, <1>11, <1>14
  <2>2. CASE c \in team'
    BY <2>2, <1>5, <1>8, <1>9
  <2>3. CASE c # MASTER /\ c \notin team'
    BY <2>3, <1>2, <1>5, <1>7, <1>8, CalmFacts DEF Calm
  <2> QED
    BY <2>1, <2>2, <2>3
<1>16. Framed'
  BY <1>6, <1>15 DEF Framed
<1>17. Stacked'
  <2>1. SUFFICES ASSUME current # NULL, NEW d \in 0..(current.nb_cores - 1)
                 PROVE  StackIn(core'[d], fifo'[d], current.stacks)
    BY <1>1 DEF Stacked
  <2>2. StackIn(core[d], fifo[d], current.stacks) /\ d \in Core
    <3>1. current.nb_cores \in 1..NB_PE
      BY <2>1 DEF IInv, TypeOK
    <3> QED
      BY <2>1, <3>1, MasterIsCore DEF IInv, Stacked, Core
  <2>3. CASE d = MASTER
    <3>1. StackIn(core[d], <<>>, current.stacks)
      BY <2>2, <2>3, <1>3
    <3>2. core[d].pc # "size"
      BY <2>3, <1>1
    <3> QED
      BY <2>3, <3>1, <3>2, <1>1, <1>4, <1>11 DEF StackIn
  <2>4. CASE d \in team'
    BY <2>2, <2>4, <1>5, <1>8, <1>9 DEF KeepsStack
  <2>5. CASE d # MASTER /\ d \notin team'
    BY <2>2, <2>5, <1>5, <1>7
  <2> QED
    BY <2>3, <2>4, <2>5
<1>18. Lockstep(Len(entry) + 1)'
  <2> DEFINE l == Len(entry) + 1
  <2>1. l \in Nat /\ l > 0
    BY EntryLen
  <2>2. \A c \in Team' : Left(c)' = l
    BY <1>6, <1>8, <1>15 DEF Left
  <2> HIDE DEF l
  <2>3. Behind(l)' = {}
    BY <2>1, <2>2 DEF Behind
  <2>4. /\ \A c \in Core : Asleep(c) => c \in event
        /\ \A b \in Barrier : status[b] = {}
    BY <1>2, CalmFacts
  <2>5. \A c \in Core : Asleep(c)' => c \in event'
    <3>1. ~Asleep(MASTER)'
      BY <1>1, <1>4 DEF Asleep
    <3> QED
      BY <2>4, <3>1, <1>1, <1>5 DEF Asleep
  <2>6. l <= Len(JobEntry') + 1
    BY <2>1, <1>6 DEF l
  <2>7. Lockstep(l)'
    BY <2>2, <2>3, <2>4, <2>5, <2>6, <1>1, <1>6, <1>8 DEF Lockstep
  <2> QED
    BY <2>7 DEF l
<1>19. Level'
  BY <1>18, EntryLen DEF Level
<1>20. TypeOK'
  <2>1. event' \subseteq {c \in Core : core'[c].pc \in {"barrier", "asleep"}}
    BY <1>1, <1>5 DEF IInv, TypeOK
  <2>2. \A b \in Barrier : /\ status'[b] \subseteq mask'[b]
                           /\ status'[b] = mask'[b] => mask'[b] = {}
    BY <1>1, <1>2, CalmFacts
  <2> QED
    BY <2>1, <2>2, <1>1, <1>10 DEF IInv, TypeOK, CoreTypes, Word, Forks
<1>21. IInv'
  BY <1>12, <1>13, <1>16, <1>17, <1>19, <1>20 DEF IInv, Forks
<1>22. core'[MASTER] = Employs(core[MASTER], entry, a)
  BY <1>1 DEF r2
<1> QED
  BY <1>2, <1>6, <1>8, <1>15, <1>21, <1>22

(***************************************************************************)
(* The inductive invariant holds                                           *)
(***************************************************************************)

\* The invariant holds initially.
LEMMA InitInv == ASSUME Init PROVE IInv
<1> USE DEF Init, Free
<1>1. /\ MASTER \in Core /\ core[MASTER].pc = "loop"
      /\ \A c \in Core \ {MASTER} : core[c].pc = "dispatch"
      /\ \A c \in Core : /\ core[c].pc \in {"loop", "dispatch"} /\ core[c].sp = NULL
                         /\ fifo[c] = <<>>
      /\ \A b \in Barrier : mask[b] = {} /\ status[b] = {}
      /\ current = NULL /\ team = {} /\ event = {}
  BY MasterIsCore
<1>2. TypeOK
  <2>1. core \in [Core -> CoreT]
    BY DEF CoreT, Pc
  <2>2. fifo \in [Core -> Seq(FunctionWord \cup DataWord)]
    OBVIOUS
  <2>3. \A c \in Core : Len(fifo[c]) <= FIFO_DEPTH
    BY <1>1, DepthAssumption
  <2>4. mask \in [Barrier -> SUBSET Core] /\ status \in [Barrier -> SUBSET Core]
    OBVIOUS
  <2> QED
    BY <2>1, <2>2, <2>3, <2>4, <1>1 DEF TypeOK
<1>3. \A e, a : \A c \in Core : Fine(core[c], fifo[c], e, a) /\ ~Involved(core[c], fifo[c])
  BY <1>1 DEF Fine, Frames, ExpectsFunction, ExpectsKind, ExpectsSetup, ExpectsArg,
              ExpectsSize, Works, Busy, Involved, Awaits, HasEntry
<1>4. ~Forked
  BY <1>1 DEF Forked
<1>5. Teamed
  <2>1. mask[SYNC] = {} /\ mask[LEGCY] = {}
    BY <1>1 DEF Barrier
  <2>2. 0 \in 0..NB_PE /\ 0..(0 - 1) = {}
    BY MasterIsCore
  <2> QED
    BY <2>1, <2>2, <1>1 DEF Teamed, Team, At
<1>6. Seated /\ Employed /\ Framed /\ Stacked
  BY <1>1, <1>3, <1>4 DEF Seated, Employed, Framed, Stacked, At
<1>7. Lockstep(0)
  <2>1. Team = {} /\ Behind(0) = {}
    BY <1>1 DEF Team, Barrier, Behind
  <2>2. \A c \in Core : ~Asleep(c)
    BY <1>1 DEF Asleep
  <2> QED
    BY <2>1, <2>2, <1>1 DEF Lockstep
<1> QED
  BY <1>2, <1>5, <1>6, <1>7 DEF IInv, Level

\* Every step keeps the invariant.
LEMMA NextInv == ASSUME IInv, Next PROVE IInv'
<1>1. ASSUME NEW s \in Stack, NEW n \in 1..NB_PE, StartTask(s, n) PROVE IInv'
  BY <1>1, StartTaskStep
<1>2. CASE EndTask
  BY <1>2, EndTaskStep
<1>3. ASSUME NEW entry \in Entry, NEW a \in Arg, NEW n \in 0..NB_PE,
             pi_cl_team_fork(n, entry, a) \/ pi_cl_team_fork_cc(n, entry, a)
      PROVE  IInv'
  <2>1. Forks(entry, a)
    BY <1>3, ForkForks
  <2> QED
    BY <2>1, ForkStep
<1>4. ASSUME NEW entry \in Entry, NEW a \in Arg, pi_cl_team_preset_fork(entry, a)
      PROVE  IInv'
  <2>1. Forks(entry, a)
    BY <1>4, PresetForks
  <2> QED
    BY <2>1, ForkStep
<1>5. ASSUME NEW c \in Core, PopFunction(c) PROVE IInv'
  <2>1. PICK r2, q2 : Quiet(c, r2, q2)
    BY <1>5, PopFunctionStep
  <2> QED
    BY <2>1, QuietInv
<1>6. ASSUME NEW c \in Core, PopArg(c) PROVE IInv'
  <2>1. PICK r2, q2 : Quiet(c, r2, q2)
    BY <1>6, PopArgStep
  <2> QED
    BY <2>1, QuietInv
<1>7. ASSUME NEW c \in Core, PopSize(c) PROVE IInv'
  <2>1. PICK r2, q2 : Quiet(c, r2, q2)
    BY <1>7, PopSizeStep
  <2> QED
    BY <2>1, QuietInv
<1>8. ASSUME NEW c \in Core, pi_cl_team_barrier(c) PROVE IInv'
  <2>1. PICK r2 : Loud(c, r2, fifo[c], Head(core[c].todo))
    BY <1>8, BarrierStep
  <2> QED
    BY <2>1, LoudInv
<1>9. ASSUME NEW c \in Core, Return(c) PROVE IInv'
  <2>1. PICK r2 : Quiet(c, r2, fifo[c])
    BY <1>9, ReturnStep
  <2> QED
    BY <2>1, QuietInv
<1>10. ASSUME NEW c \in Core, Sync(c) PROVE IInv'
  <2>1. PICK r2 : Loud(c, r2, fifo[c], SYNC)
    BY <1>10, SyncStep
  <2> QED
    BY <2>1, LoudInv
<1>11. ASSUME NEW c \in Core, Wake(c) PROVE IInv'
  <2>1. CASE c = MASTER /\ core[c].pc = "asleep"
    BY <1>11, <2>1, JoinStep
  <2>2. CASE ~(c = MASTER /\ core[c].pc = "asleep")
    <3>1. PICK r2 : Quiet(c, r2, fifo[c])
      BY <1>11, <2>2, WakeStep
    <3> QED
      BY <3>1, QuietInv
  <2> QED
    BY <2>1, <2>2
<1>12. CASE Task
  BY <1>1, <1>2, <1>3, <1>4, <1>12 DEF Task
<1>13. ASSUME NEW c \in Core, CoreStep(c) PROVE IInv'
  BY <1>5, <1>6, <1>7, <1>8, <1>9, <1>10, <1>11, <1>13 DEF CoreStep
<1> QED
  BY <1>12, <1>13 DEF Next

\* So does stuttering.
LEMMA StutterInv == ASSUME IInv, UNCHANGED vars PROVE IInv'
<1>1. UNCHANGED <<current, core, team, fifo, mask, status, event>>
  BY DEF vars, unit
<1>2. /\ UNCHANGED <<JobEntry, JobArg, Team>> /\ (Forked' <=> Forked)
      /\ At(MASTER, "loop")' <=> At(MASTER, "loop")
  BY <1>1 DEF JobEntry, JobArg, Team, Forked, At
<1>3. TypeOK' /\ Teamed' /\ Seated' /\ Employed' /\ Framed' /\ Stacked'
  BY <1>1, <1>2 DEF IInv, TypeOK, Teamed, Seated, Employed, Framed, Stacked
<1>4. Level'
  <2>1. PICK l \in Nat : Lockstep(l)
    BY DEF IInv, Level
  <2>2. Behind(l)' = Behind(l) /\ \A c \in Team : Left(c)' = Left(c)
    BY <1>1, <1>2 DEF Behind, Left
  <2>3. Lockstep(l)'
    BY <2>1, <2>2, <1>1, <1>2 DEF Lockstep, Asleep
  <2> QED
    BY <2>3 DEF Level
<1> QED
  BY <1>3, <1>4 DEF IInv

\* What the whole argument rests on: the invariant of every reachable state.
THEOREM Invariance == Spec => []IInv
BY InitInv, NextInv, StutterInv, PTL DEF Spec

\* The types: no dispatch fifo overruns, a barrier whose cores have all triggered
\* it is armed again, and only a core that sleeps has an event before it.
THEOREM TypeCorrect == Spec => []TypeOK
<1>1. IInv => TypeOK
  BY DEF IInv
<1> QED
  BY <1>1, Invariance, PTL

\* A core executes an entry point only within a task, and one of the task's team on
\* the stack that the task has given it (cl_master_loop, cl_slave_stack_setup).
THEOREM StackTheorem == Spec => []StackOfTask
<1>1. IInv => StackOfTask
  <2>1. SUFFICES ASSUME IInv, NEW c \in Core, Running(c)
                 PROVE  /\ current # NULL
                        /\ c < current.nb_cores => core[c].sp = current.stacks
    BY DEF StackOfTask
  <2>2. Busy(core[c]) /\ Forked
    BY <2>1, MasterForked DEF Running, Busy
  <2>3. current # NULL
    BY <2>1, <2>2 DEF IInv, Seated, Forked, At
  <2>4. ASSUME c < current.nb_cores PROVE core[c].sp = current.stacks
    <3>1. c \in 0..(current.nb_cores - 1)
      <4>1. current.nb_cores \in 1..NB_PE
        BY <2>1, <2>3 DEF IInv, TypeOK
      <4> QED
        BY <2>4, <4>1, MasterIsCore DEF Core
    <3>2. StackIn(core[c], fifo[c], current.stacks)
      BY <2>1, <2>3, <3>1 DEF IInv, Stacked
    <3>3. fifo[c] = <<>>
      BY <2>1, <2>2, CoreFacts DEF Fine, Works
    <3>4. NoTop(fifo[c])
      BY <3>3 DEF NoTop
    <3> QED
      BY <2>1, <3>2, <3>4 DEF StackIn, Running
  <2> QED
    BY <2>3, <2>4
<1> QED
  BY <1>1, Invariance, PTL

(***************************************************************************)
(* No core waits in vain                                                   *)
(***************************************************************************)

\* The core has an instruction that it can complete: it does not sleep for a word
\* or for an event.
CanStep(c) ==
  \/ At(c, "dispatch") /\ fifo[c] # <<>> /\ IsFunction(Head(fifo[c]))
  \/ (At(c, "arg") \/ At(c, "size")) /\ fifo[c] # <<>>
  \/ At(c, "run") \/ At(c, "sync")
  \/ c \in event

\* It has nothing to do: a slave that nothing has been dispatched to, and the master
\* core when it is the application's turn.
Unemployed(c) ==
  \/ At(c, "dispatch") /\ fifo[c] = <<>>
  \/ c = MASTER /\ (At(c, "loop") \/ At(c, "body"))

\* c has triggered a barrier that d has not.
WaitsFor(c, d) == \E b \in Barrier : c \in status[b] /\ d \in mask[b] \ status[b]

NoDeadlock ==
  \A c \in Core :
    CanStep(c) \/ Unemployed(c) \/ \E d \in Core : WaitsFor(c, d) /\ CanStep(d)

\* A core that is in the middle of what was dispatched to it has the next word.
LEMMA WordsThere ==
  ASSUME IInv, NEW c \in Core, core[c].pc \in {"dispatch", "arg", "size"},
         core[c].pc = "dispatch" => fifo[c] # <<>>
  PROVE  CanStep(c)
<1>1. Fine(core[c], fifo[c], JobEntry, JobArg) /\ fifo[c] \in Seq(Word)
  BY CoreFacts
<1>2. CASE core[c].pc = "dispatch"
  <2>1. fifo[c] # <<>> /\ IsFunction(fifo[c][1])
    BY <1>1, <1>2 DEF Fine, ExpectsFunction
  <2>2. Head(fifo[c]) = fifo[c][1]
    BY <1>1, <2>1
  <2> QED
    BY <1>2, <2>1, <2>2 DEF CanStep, At
<1>3. CASE core[c].pc = "arg"
  <2>1. 1 <= Len(fifo[c])
    BY <1>1, <1>3, NoWord DEF Fine, ExpectsKind, ExpectsSetup, ExpectsArg
  <2> QED
    BY <1>1, <1>3, <2>1, NoWord DEF CanStep, At
<1>4. CASE core[c].pc = "size"
  <2>1. 1 <= Len(fifo[c])
    BY <1>1, <1>4 DEF Fine, ExpectsSize
  <2> QED
    BY <1>1, <1>4, <2>1, NoWord DEF CanStep, At
<1> QED
  BY <1>2, <1>3, <1>4

\* A core that has yet to trigger a barrier goes on, unless it sleeps at one.
LEMMA LeftSteps ==
  ASSUME IInv, NEW c \in Core, Left(c) > 0, Asleep(c) => c \in event
  PROVE  CanStep(c)
<1>1. core[c].pc \in Pc
  BY CoreFacts DEF CoreT
<1>2. CASE core[c].pc \in {"run", "sync"} \/ Asleep(c)
  BY <1>2 DEF CanStep, At
<1>3. CASE core[c].pc \in {"arg", "size"}
  BY <1>3, WordsThere
<1>4. CASE core[c].pc \in {"loop", "body", "dispatch"}
  <2>1. HasEntry(fifo[c])
    BY <1>4 DEF Left, ToTrigger, Awaits
  <2>2. fifo[c] # <<>>
    BY <2>1 DEF HasEntry
  <2>3. c # MASTER
    BY <2>2, CoreFacts
  <2>4. core[c].pc = "dispatch"
    BY <1>4, <2>3 DEF IInv, Seated
  <2> QED
    BY <2>2, <2>4, WordsThere
<1> QED
  BY <1>1, <1>2, <1>3, <1>4 DEF Pc, Asleep

\* Whatever the entry points are and however late a core pops what was dispatched
\* to it, a core that sleeps waits for one of its team that has yet to come to the
\* same barrier and that can go on.  So no two cores ever wait at different
\* barriers for each other, no core takes an argument for an address and no wake-up
\* is lost: a fork is never stuck (pi_cl_team_barrier, cl_slave_loop,
\* __pi_cl_team_dispatch).
THEOREM ForksGoOn == Spec => []NoDeadlock
<1>1. IInv => NoDeadlock
  <2>1. SUFFICES ASSUME IInv, NEW c \in Core, ~CanStep(c), ~Unemployed(c)
                 PROVE  \E d \in Core : WaitsFor(c, d) /\ CanStep(d)
    BY DEF NoDeadlock
  <2>2. Asleep(c) /\ c \notin event
    <3>1. core[c].pc \in Pc
      BY <2>1, CoreFacts DEF CoreT
    <3>2. core[c].pc \notin {"run", "sync"} /\ c \notin event
      BY <2>1 DEF CanStep, At
    <3>3. core[c].pc \notin {"loop", "body"}
      BY <2>1 DEF Unemployed, At, IInv, Seated
    <3>4. core[c].pc \notin {"dispatch", "arg", "size"}
      BY <2>1, WordsThere DEF Unemployed, At
    <3> QED
      BY <3>1, <3>2, <3>3, <3>4 DEF Pc, Asleep
  <2>3. PICK l \in Nat : Lockstep(l)
    BY <2>1 DEF IInv, Level
  <2>4. c \in Behind(l) /\ c \in Team /\ Left(c) + 1 = l /\ Left(c) \in Nat
    <3>1. c \in Behind(l)
      BY <2>2, <2>3 DEF Lockstep
    <3> QED
      BY <2>1, <3>1, ShapeOf, LeftIsNat DEF Behind
  <2>5. l > 0 /\ Forked /\ l <= Len(JobEntry) + 1 /\ Team # Behind(l)
    BY <2>3, <2>4 DEF Lockstep
  <2>6. PICK d \in Team : d \notin Behind(l)
    BY <2>5 DEF Behind
  <2>7. d \in Core /\ \A b \in Barrier : mask[b] = Team
    BY <2>1, TeamIsCores DEF IInv
  <2>8. CanStep(d)
    <3>1. Left(d) > 0
      BY <2>3, <2>5, <2>6 DEF Lockstep, Behind
    <3>2. Asleep(d) => d \in event
      BY <2>3, <2>6, <2>7 DEF Lockstep
    <3> QED
      BY <2>1, <2>7, <3>1, <3>2, LeftSteps
  <2> DEFINE b == BarrierOf(JobEntry, l)
  <2>9. b \in Barrier
    <3>1. JobEntry \in Seq(Barrier) /\ Len(JobEntry) \in Nat
      BY <2>1, <2>5, EntryLen DEF IInv, Employed
    <3>2. l # 1 => Len(JobEntry) - l + 2 \in 1..Len(JobEntry)
      BY <2>5, <3>1
    <3>3. l # 1 => JobEntry[Len(JobEntry) - l + 2] \in Barrier
      BY <3>1, <3>2, ElementOfSeq
    <3> QED
      BY <3>3 DEF BarrierOf, Barrier
  <2>10. status[b] = Behind(l)
    BY <2>3, <2>5, <2>9 DEF Lockstep
  <2> HIDE DEF b
  <2>11. WaitsFor(c, d)
    BY <2>4, <2>6, <2>7, <2>9, <2>10 DEF WaitsFor
  <2> QED
    BY <2>7, <2>8, <2>11
<1> QED
  BY <1>1, Invariance, PTL

(***************************************************************************)
(* The cores implement ForkJoin                                            *)
(***************************************************************************)

\* How far a core with the registers r and the fifo q is in the job j.
PlaceOf(r, q, j) ==
  IF r.pc = "run" THEN [at |-> "in", job |-> j, passed |-> Len(j[1]) - Len(r.todo)]
  ELSE IF r.pc = "barrier" THEN [at |-> "waiting", job |-> j, passed |-> Len(j[1]) - Len(r.todo)]
  ELSE IF Awaits(r, q) THEN [at |-> "todo"] ELSE [at |-> "done"]

Job == <<JobEntry, JobArg>>

\* What the mapping makes of the state, in terms of the invariant.
Placed ==
  /\ \A c \in Core : Place(c) = IF Forked /\ c \in Team THEN PlaceOf(core[c], fifo[c], Job)
                                ELSE [at |-> "idle"]
  /\ \E n \in 0..NB_PE : Team = 0..(n - 1) /\ TeamSize = n

\* The invariant says what ForkJoin sees of each core.
LEMMA PlacedNow == IInv => Placed
<1> SUFFICES ASSUME IInv PROVE Placed
  OBVIOUS
<1>1. ASSUME NEW c \in Core
      PROVE  Place(c) = IF Forked /\ c \in Team THEN PlaceOf(core[c], fifo[c], Job)
                        ELSE [at |-> "idle"]
  <2>1. Pending(c) <=> Awaits(core[c], fifo[c])
    BY DEF Pending, Awaits, At
  <2>2. Awaits(core[c], fifo[c]) \/ Busy(core[c]) => Forked /\ c \in mask[SYNC]
    BY CoreFacts DEF Involved, Team
  <2>3. Busy(core[c]) => ~Awaits(core[c], fifo[c])
    <3>1. Busy(core[c]) => fifo[c] = <<>>
      BY CoreFacts DEF Fine, Works
    <3> QED
      BY <3>1 DEF Awaits, HasEntry, Busy
  <2>4. CASE core[c].pc \in {"run", "barrier"}
    <3>1. core[c].fn = EntryWord(JobEntry) /\ core[c].arg = ArgWord(JobArg)
      BY <2>4, CoreFacts DEF Fine, Works, Busy
    <3>2. core[c].fn.val = JobEntry /\ core[c].arg.val = JobArg
      BY <3>1 DEF EntryWord, ArgWord
    <3>3. JobOf(c) = Job /\ Job[1] = JobEntry
      BY <3>2 DEF JobOf, Job
    <3> HIDE DEF JobEntry, JobArg
    <3> QED
      BY <2>1, <2>2, <2>3, <2>4, <3>2, <3>3 DEF Place, PlaceOf, At, Busy, Team
  <2>5. CASE core[c].pc \notin {"run", "barrier"}
    <3>1. CASE Forked /\ c \in mask[SYNC]
      BY <2>1, <2>5, <3>1 DEF Place, PlaceOf, At, Team
    <3>2. CASE ~Forked \/ c \notin mask[SYNC]
      BY <2>1, <2>2, <2>5, <3>2 DEF Place, At, Team
    <3> QED
      BY <3>1, <3>2
  <2> QED
    BY <2>4, <2>5
<1>2. \E n \in 0..NB_PE : Team = 0..(n - 1) /\ TeamSize = n
  <2>1. PICK n \in 0..NB_PE : Team = 0..(n - 1)
    BY DEF IInv, Teamed
  <2>2. n \in Nat /\ 0 \in Int /\ n - 1 \in Int
    BY <2>1, MasterIsCore
  <2>3. Cardinality(0..(n - 1)) = IF 0 > n - 1 THEN 0 ELSE n - 1 - 0 + 1
    BY <2>2, FS_Interval
  <2>4. Cardinality(0..(n - 1)) = n
    BY <2>2, <2>3
  <2> QED
    BY <2>1, <2>4 DEF TeamSize, Team
<1> QED
  BY <1>1, <1>2 DEF Placed

\* The same in the next state.
LEMMA PlacedNext == ASSUME IInv' PROVE Placed'
BY PlacedNow, PTL

\* A step after which nothing is different for ForkJoin.
LEMMA MapSame ==
  ASSUME IInv, IInv', mask' = mask, Forked' <=> Forked,
         Forked => UNCHANGED <<JobEntry, JobArg>>,
         \A c \in Core : Forked /\ c \in Team =>
           PlaceOf(core'[c], fifo'[c], Job) = PlaceOf(core[c], fifo[c], Job)
  PROVE  UNCHANGED Service!vars
<1>1. Placed /\ Placed'
  BY PlacedNow, PlacedNext
<1>2. Team' = Team /\ TeamSize' = TeamSize /\ (Forked => Job' = Job)
  BY DEF Team, TeamSize, Job
<1>3. \A c \in Core : Place(c)' = Place(c)
  BY <1>1, <1>2 DEF Placed
<1>4. Places' = Places
  BY <1>3 DEF Places
<1>5. CurrentJob' = CurrentJob
  BY DEF CurrentJob, JobOf, JobEntry, JobArg
<1> QED
  BY <1>2, <1>4, <1>5 DEF Service!vars

\* A step in which one core of the team goes on.
LEMMA MapOne ==
  ASSUME IInv, IInv', NEW c \in Core, mask' = mask, Forked, c \in Team, Forked',
         UNCHANGED <<JobEntry, JobArg>>,
         \A d \in Core \ {c} : core'[d] = core[d] /\ fifo'[d] = fifo[d]
  PROVE  /\ Places' = [Places EXCEPT ![c] = PlaceOf(core'[c], fifo'[c], Job)]
         /\ UNCHANGED <<TeamSize, CurrentJob>> /\ CurrentJob = Job
         /\ Service!Member = Team
         /\ \A d \in Team : Places[d] = PlaceOf(core[d], fifo[d], Job)
<1>1. Placed /\ Placed'
  BY PlacedNow, PlacedNext
<1>2. Team' = Team /\ TeamSize' = TeamSize /\ Job' = Job /\ Team \subseteq Core
  BY TeamIsCores DEF Team, TeamSize, Job, IInv
<1>3. \A d \in Core \ {c} : Place(d)' = Place(d)
  BY <1>1, <1>2 DEF Placed
<1>4. Place(c)' = PlaceOf(core'[c], fifo'[c], Job)
  BY <1>1, <1>2 DEF Placed
<1>5. Places' = [Places EXCEPT ![c] = PlaceOf(core'[c], fifo'[c], Job)]
  BY <1>3, <1>4 DEF Places
<1>6. CurrentJob = Job /\ CurrentJob' = Job
  BY <1>2 DEF CurrentJob, JobOf, Job, JobEntry, JobArg
<1>7. Service!Member = Team
  BY <1>1 DEF Placed, Service!Member
<1>8. \A d \in Team : Places[d] = PlaceOf(core[d], fifo[d], Job)
  BY <1>1, <1>2 DEF Placed, Places
<1> QED
  BY <1>2, <1>5, <1>6, <1>7, <1>8

\* What a step of a core to r2 and q2 is for the mapping.
LEMMA StepFacts ==
  ASSUME IInv, NEW c \in Core, NEW r2, NEW q2, CoreStepsTo(c, r2, q2)
  PROVE  /\ core'[c] = r2 /\ fifo'[c] = q2
         /\ \A d \in Core \ {c} : core'[d] = core[d] /\ fifo'[d] = fifo[d]
         /\ mask' = mask /\ (Forked' <=> Forked) /\ UNCHANGED <<JobEntry, JobArg>>
         /\ r2 \in CoreT
         /\ Involved(r2, q2) => Involved(core[c], fifo[c])
<1>1. /\ core'[c] = r2 /\ fifo'[c] = q2
      /\ \A d \in Core \ {c} : core'[d] = core[d] /\ fifo'[d] = fifo[d]
      /\ (Forked' <=> Forked) /\ JobEntry' = JobEntry /\ JobArg' = JobArg
  BY ShapeOf, CoreSteps
<1>2. mask' = mask /\ r2 \in CoreT /\ (Involved(r2, q2) => Involved(core[c], fifo[c]))
  BY DEF CoreStepsTo, Follows
<1> QED
  BY <1>1, <1>2

\* A core that is in no entry point before or after has the fork before it, or not,
\* as it had.
LEMMA MapQuiet ==
  ASSUME IInv, IInv', NEW c \in Core, NEW r2, NEW q2, Quiet(c, r2, q2),
         ~Busy(core[c]), ~Busy(r2)
  PROVE  UNCHANGED Service!vars
<1>1. CoreStepsTo(c, r2, q2) /\ ToTrigger(r2, q2, JobEntry) = ToTrigger(core[c], fifo[c], JobEntry)
  BY DEF Quiet, Left
<1>2. Awaits(r2, q2) <=> Awaits(core[c], fifo[c])
  <2>1. Awaits(r2, q2) \/ Awaits(core[c], fifo[c]) => Len(JobEntry) + 1 # 0
    <3>1. Awaits(r2, q2) \/ Awaits(core[c], fifo[c]) => Involved(core[c], fifo[c])
      BY <1>1, StepFacts DEF Involved
    <3>2. Involved(core[c], fifo[c]) => JobEntry \in Entry
      BY CoreFacts
    <3> HIDE DEF JobEntry
    <3>3. JobEntry \in Entry => Len(JobEntry) + 1 # 0
      BY EntryLen
    <3> QED
      BY <3>1, <3>2, <3>3
  <2> HIDE DEF JobEntry
  <2> QED
    BY <1>1, <2>1 DEF ToTrigger, Busy
<1>3. PlaceOf(r2, q2, Job) = PlaceOf(core[c], fifo[c], Job)
  BY <1>2 DEF PlaceOf, Busy
<1> QED
  BY <1>1, <1>3, StepFacts, MapSame

\* A step of a core in the fork.
LEMMA MapStep ==
  ASSUME IInv, IInv', NEW c \in Core, NEW r2, NEW q2, CoreStepsTo(c, r2, q2),
         Forked, c \in Team
  PROVE  /\ Places' = [Places EXCEPT ![c] = PlaceOf(r2, q2, Job)]
         /\ UNCHANGED <<TeamSize, CurrentJob>> /\ CurrentJob = Job
         /\ Service!Member = Team
         /\ \A d \in Team : Places[d] = PlaceOf(core[d], fifo[d], Job)
BY StepFacts, MapOne

\* Popping the first word is a stutter of ForkJoin.
LEMMA MapPopFunction ==
  ASSUME IInv, IInv', NEW c \in Core, PopFunction(c)
  PROVE  UNCHANGED Service!vars
<1>1. PICK r2, q2 : Quiet(c, r2, q2) /\ core[c].pc = "dispatch" /\ r2.pc = "arg"
  BY PopFunctionStep
<1> QED
  BY <1>1, MapQuiet DEF Busy

\* So is popping the last word of a setup.
LEMMA MapPopSize ==
  ASSUME IInv, IInv', NEW c \in Core, PopSize(c)
  PROVE  UNCHANGED Service!vars
<1>1. PICK r2, q2 : Quiet(c, r2, q2) /\ core[c].pc = "size" /\ r2.pc = "dispatch"
  BY PopSizeStep
<1> QED
  BY <1>1, MapQuiet DEF Busy

\* Popping an argument begins the entry point; popping a stack is a stutter.
LEMMA MapPopArg ==
  ASSUME IInv, IInv', NEW c \in Core, PopArg(c)
  PROVE  (UNCHANGED Service!vars) \/ (c \in Service!Member /\ Service!Begin(c))
<1>1. PICK r2, q2 :
        /\ Quiet(c, r2, q2) /\ core[c].pc = "arg"
        /\ \/ r2.pc = "size"
           \/ /\ r2.pc = "run" /\ r2.todo = JobEntry /\ c \in Team /\ Forked
              /\ Awaits(core[c], fifo[c])
              /\ r2.fn = EntryWord(JobEntry) /\ r2.arg = ArgWord(JobArg)
  BY PopArgStep
<1>2. CASE r2.pc = "size"
  BY <1>1, <1>2, MapQuiet DEF Busy
<1>3. CASE r2.pc # "size"
  <2>1. /\ CoreStepsTo(c, r2, q2) /\ Forked /\ c \in Team
        /\ r2.pc = "run" /\ r2.todo = JobEntry /\ Awaits(core[c], fifo[c])
        /\ core[c].pc = "arg"
    BY <1>1, <1>3 DEF Quiet
  <2>2. /\ Places' = [Places EXCEPT ![c] = PlaceOf(r2, q2, Job)]
        /\ UNCHANGED <<TeamSize, CurrentJob>> /\ CurrentJob = Job
        /\ Service!Member = Team
        /\ Places[c] = PlaceOf(core[c], fifo[c], Job)
    BY <2>1, MapStep
  <2>3. Places[c] = [at |-> "todo"]
    BY <2>1, <2>2 DEF PlaceOf
  <2>4. PlaceOf(r2, q2, Job) = [at |-> "in", job |-> Job, passed |-> 0]
    <3>1. Len(JobEntry) \in Nat /\ Job[1] = JobEntry
      <4>1. JobEntry \in Entry
        BY <2>1, CoreFacts DEF Involved
      <4> QED
        BY <4>1, EntryLen DEF Job
    <3>2. Len(Job[1]) - Len(r2.todo) = 0
      BY <2>1, <3>1
    <3> QED
      BY <2>1, <3>2 DEF PlaceOf
  <2>5. Service!Begin(c)
    BY <2>2, <2>3, <2>4 DEF Service!Begin, Service!TODO, Service!In
  <2> QED
    BY <2>1, <2>2, <2>5
<1> QED
  BY <1>2, <1>3

\* What a core in the entry point has before it.
LEMMA TodoLen ==
  ASSUME IInv, NEW c \in Core, core[c].pc \in {"run", "barrier"}
  PROVE  /\ Forked /\ c \in Team /\ JobEntry \in Entry /\ Job[1] = JobEntry
         /\ Len(JobEntry) \in Nat /\ Len(core[c].todo) \in Nat
         /\ Len(core[c].todo) <= Len(JobEntry)
         /\ core[c].todo = <<>> <=> Len(core[c].todo) = 0
         /\ fifo[c] = <<>>
<1>1. Forked /\ c \in Team /\ JobEntry \in Entry /\ Busy(core[c])
  BY MasterForked DEF Busy
<1>2. Suffix(core[c].todo, JobEntry) /\ fifo[c] = <<>>
  BY <1>1, CoreFacts DEF Fine, Works
<1>3. core[c].todo \in Seq(Barrier)
  BY CoreFacts DEF CoreT
<1>4. Len(core[c].todo) \in Nat /\ (core[c].todo = <<>> <=> Len(core[c].todo) = 0)
  BY <1>3, LenProperties, EmptySeq
<1>5. Len(JobEntry) \in Nat
  BY <1>1, EntryLen
<1> QED
  BY <1>1, <1>2, <1>4, <1>5 DEF Suffix, Job

\* Triggering a barrier is the arrival at it.
LEMMA MapBarrier ==
  ASSUME IInv, IInv', NEW c \in Core, pi_cl_team_barrier(c)
  PROVE  c \in Service!Member /\ Service!Arrive(c)
<1>1. PICK r2 : /\ Loud(c, r2, fifo[c], Head(core[c].todo))
                /\ core[c].pc = "run" /\ core[c].todo # <<>>
                /\ r2 = [core[c] EXCEPT !.pc = "barrier"]
  BY BarrierStep
<1>2. CoreStepsTo(c, r2, fifo[c])
  BY <1>1 DEF Loud
<1>3. r2.pc = "barrier" /\ r2.todo = core[c].todo
  BY <1>1, CoreFacts DEF CoreT
<1>4. /\ Forked /\ c \in Team /\ Job[1] = JobEntry
      /\ Len(JobEntry) \in Nat /\ Len(core[c].todo) \in Nat \ {0}
  BY <1>1, TodoLen
<1>5. /\ Places' = [Places EXCEPT ![c] = PlaceOf(r2, fifo[c], Job)]
      /\ UNCHANGED <<TeamSize, CurrentJob>> /\ CurrentJob = Job
      /\ Service!Member = Team
      /\ Places[c] = PlaceOf(core[c], fifo[c], Job)
  BY <1>2, <1>4, MapStep
<1> DEFINE k == Len(JobEntry) - Len(core[c].todo)
<1>6. Places[c] = [at |-> "in", job |-> Job, passed |-> k]
  BY <1>1, <1>4, <1>5 DEF PlaceOf
<1>7. PlaceOf(r2, fifo[c], Job) = [at |-> "waiting", job |-> Job, passed |-> k]
  BY <1>3, <1>4 DEF PlaceOf
<1>8. k < Len(CurrentJob[1])
  BY <1>4, <1>5
<1> HIDE DEF k
<1>9. Service!Arrive(c)
  BY <1>5, <1>6, <1>7, <1>8 DEF Service!Arrive, Service!Waiting
<1> QED
  BY <1>4, <1>5, <1>9

\* Returning from the entry point finishes it.
LEMMA MapReturn ==
  ASSUME IInv, IInv', NEW c \in Core, Return(c)
  PROVE  c \in Service!Member /\ Service!Finish(c)
<1>1. PICK r2 : /\ Quiet(c, r2, fifo[c])
                /\ core[c].pc = "run" /\ core[c].todo = <<>> /\ r2.pc = "sync"
  BY ReturnStep
<1>2. CoreStepsTo(c, r2, fifo[c])
  BY <1>1 DEF Quiet
<1>3. /\ Forked /\ c \in Team /\ Job[1] = JobEntry
      /\ Len(JobEntry) \in Nat /\ Len(core[c].todo) = 0 /\ fifo[c] = <<>>
  BY <1>1, TodoLen
<1>4. /\ Places' = [Places EXCEPT ![c] = PlaceOf(r2, fifo[c], Job)]
      /\ UNCHANGED <<TeamSize, CurrentJob>> /\ CurrentJob = Job
      /\ Service!Member = Team
      /\ Places[c] = PlaceOf(core[c], fifo[c], Job)
  BY <1>2, <1>3, MapStep
<1>5. Places[c] = [at |-> "in", job |-> Job, passed |-> Len(Job[1])]
  BY <1>1, <1>3, <1>4 DEF PlaceOf
<1>6. PlaceOf(r2, fifo[c], Job) = [at |-> "done"]
  BY <1>1, <1>3 DEF PlaceOf, Awaits, HasEntry
<1>7. Service!Finish(c)
  BY <1>4, <1>5, <1>6 DEF Service!Finish, Service!In, Service!DONE
<1> QED
  BY <1>3, <1>4, <1>7

\* Waiting for the others at the end is a stutter.
LEMMA MapSync ==
  ASSUME IInv, IInv', NEW c \in Core, Sync(c)
  PROVE  UNCHANGED Service!vars
<1>1. PICK r2 : /\ Loud(c, r2, fifo[c], SYNC) /\ fifo[c] = <<>>
                /\ core[c].pc = "sync" /\ r2.pc = "asleep"
  BY SyncStep
<1>2. CoreStepsTo(c, r2, fifo[c])
  BY <1>1 DEF Loud
<1>3. PlaceOf(r2, fifo[c], Job) = PlaceOf(core[c], fifo[c], Job)
  BY <1>1 DEF PlaceOf, Awaits, HasEntry
<1> QED
  BY <1>2, <1>3, StepFacts, MapSame

\* Whoever has been woken at a barrier, nobody of the team is before it.
LEMMA AllReached ==
  ASSUME IInv, NEW c \in Core, c \in event, core[c].pc = "barrier", NEW d \in Team
  PROVE  /\ core[d].pc = "run" => Len(core[d].todo) < Len(core[c].todo)
         /\ core[d].pc = "barrier" => Len(core[d].todo) <= Len(core[c].todo)
         /\ ~Awaits(core[d], fifo[d])
<1>1. PICK l \in Nat : Lockstep(l)
  BY DEF IInv, Level
<1>2. /\ c \in Team /\ Len(core[c].todo) \in Nat /\ Len(JobEntry) \in Nat
      /\ Len(core[c].todo) <= Len(JobEntry)
  BY TodoLen
<1>3. Left(c) = Len(core[c].todo)
  BY DEF Left, ToTrigger
<1>4. Left(c) = l
  <2>1. c \notin Behind(l)
    BY <1>1 DEF Lockstep, Asleep
  <2> QED
    BY <2>1, <1>1, <1>2 DEF Lockstep, Behind
<1>5. d \in Core
  BY TeamIsCores DEF IInv
<1>6. Left(d) \in Nat /\ Left(d) <= Len(core[c].todo)
  <2>1. Left(d) \in Nat
    BY <1>5, ShapeOf, LeftIsNat
  <2> QED
    BY <2>1, <1>1, <1>3, <1>4 DEF Lockstep
<1>7. core[d].pc \in {"run", "barrier"} => Len(core[d].todo) \in Nat /\ fifo[d] = <<>>
  BY <1>5, TodoLen
<1>8. core[d].pc = "run" => Left(d) = Len(core[d].todo) + 1
  BY DEF Left, ToTrigger
<1>9. core[d].pc = "barrier" => Left(d) = Len(core[d].todo)
  BY DEF Left, ToTrigger
<1>10. ~Awaits(core[d], fifo[d])
  <2>1. SUFFICES ASSUME Awaits(core[d], fifo[d]) PROVE FALSE
    OBVIOUS
  <2>2. ~Busy(core[d])
    <3>1. Busy(core[d]) => fifo[d] = <<>>
      BY <1>5, CoreFacts DEF Fine, Works
    <3> QED
      BY <2>1, <3>1 DEF Awaits, HasEntry, Busy
  <2>3. Left(d) = Len(JobEntry) + 1
    BY <2>1, <2>2 DEF Left, ToTrigger, Busy
  <2> QED
    BY <2>3, <1>2, <1>6
<1> QED
  BY <1>2, <1>6, <1>7, <1>8, <1>9, <1>10

\* Waking from a barrier of the entry point passes it; from the last one, a slave is free.
LEMMA MapWake ==
  ASSUME IInv, IInv', NEW c \in Core, Wake(c), ~(c = MASTER /\ core[c].pc = "asleep")
  PROVE  (UNCHANGED Service!vars) \/ (c \in Service!Member /\ Service!Pass(c))
<1>1. PICK r2 : /\ Quiet(c, r2, fifo[c]) /\ c \in event
                /\ \/ /\ core[c].pc = "barrier" /\ r2.pc = "run"
                      /\ r2.fn = core[c].fn /\ r2.arg = core[c].arg
                      /\ Len(core[c].todo) \in Nat \ {0}
                      /\ Len(r2.todo) = Len(core[c].todo) - 1
                   \/ core[c].pc = "asleep" /\ r2.pc = "dispatch"
  BY WakeStep
<1>2. CASE core[c].pc = "asleep"
  BY <1>1, <1>2, MapQuiet DEF Busy
<1>3. CASE core[c].pc # "asleep"
  <2>1. /\ CoreStepsTo(c, r2, fifo[c]) /\ core[c].pc = "barrier" /\ r2.pc = "run"
        /\ Len(core[c].todo) \in Nat \ {0} /\ Len(r2.todo) = Len(core[c].todo) - 1
    BY <1>1, <1>3 DEF Quiet
  <2>2. Forked /\ c \in Team /\ Job[1] = JobEntry /\ Len(JobEntry) \in Nat
    BY <2>1, TodoLen
  <2>3. /\ Places' = [Places EXCEPT ![c] = PlaceOf(r2, fifo[c], Job)]
        /\ UNCHANGED <<TeamSize, CurrentJob>> /\ CurrentJob = Job
        /\ Service!Member = Team
        /\ \A d \in Team : Places[d] = PlaceOf(core[d], fifo[d], Job)
    BY <2>1, <2>2, MapStep
  <2> DEFINE k == Len(JobEntry) - Len(core[c].todo)
  <2>4. Places[c] = [at |-> "waiting", job |-> Job, passed |-> k]
    BY <2>1, <2>2, <2>3 DEF PlaceOf
  <2>5. PlaceOf(r2, fifo[c], Job) = [at |-> "in", job |-> Job, passed |-> k + 1]
    <3>1. Len(JobEntry) - Len(r2.todo) = k + 1
      BY <2>1, <2>2
    <3> QED
      BY <3>1, <2>1, <2>2 DEF PlaceOf
  <2>6. ASSUME NEW d \in Team PROVE Service!Reached(d, k)
    <3>1. /\ core[d].pc = "run" => Len(core[d].todo) < Len(core[c].todo)
          /\ core[d].pc = "barrier" => Len(core[d].todo) <= Len(core[c].todo)
          /\ ~Awaits(core[d], fifo[d])
      BY <1>1, <2>1, AllReached
    <3>2. d \in Core
      BY TeamIsCores DEF IInv
    <3>3. Places[d] = PlaceOf(core[d], fifo[d], Job)
      BY <2>3
    <3>4. CASE core[d].pc = "run"
      <4>1. Places[d].at = "in" /\ Places[d].passed = Len(JobEntry) - Len(core[d].todo)
        BY <2>2, <3>3, <3>4 DEF PlaceOf
      <4>2. Len(core[d].todo) \in Nat
        BY <3>2, <3>4, TodoLen
      <4>3. Places[d].passed > k
        BY <4>1, <4>2, <3>1, <3>4, <2>1, <2>2
      <4> QED
        BY <4>1, <4>3 DEF Service!Reached
    <3>5. CASE core[d].pc = "barrier"
      <4>1. Places[d].at = "waiting" /\ Places[d].passed = Len(JobEntry) - Len(core[d].todo)
        BY <2>2, <3>3, <3>5 DEF PlaceOf
      <4>2. Len(core[d].todo) \in Nat
        BY <3>2, <3>5, TodoLen
      <4>3. Places[d].passed >= k
        BY <4>1, <4>2, <3>1, <3>5, <2>1, <2>2
      <4> QED
        BY <4>1, <4>3 DEF Service!Reached
    <3>6. CASE core[d].pc \notin {"run", "barrier"}
      <4>1. Places[d] = [at |-> "done"]
        BY <3>1, <3>3, <3>6 DEF PlaceOf
      <4> QED
        BY <4>1 DEF Service!Reached, Service!DONE
    <3> QED
      BY <3>4, <3>5, <3>6
  <2> HIDE DEF k
  <2>7. Service!Pass(c)
    BY <2>2, <2>3, <2>4, <2>5, <2>6 DEF Service!Pass, Service!In
  <2> QED
    BY <2>2, <2>3, <2>7
<1> QED
  BY <1>2, <1>3

\* Between forks nobody has a place.
LEMMA PlacesIdle ==
  ASSUME Placed, ~Forked
  PROVE  CurrentJob = NULL /\ Places = [c \in Core |-> [at |-> "idle"]]
BY DEF Placed, CurrentJob, Places

\* Outside a fork every core is idle.
LEMMA PlacesIdleNext ==
  ASSUME Placed', ~Forked'
  PROVE  CurrentJob' = NULL /\ Places' = [c \in Core |-> [at |-> "idle"]]
BY DEF Placed, CurrentJob, Places

\* The master core's wake-up from the last barrier is the return of the fork.
LEMMA MapJoin ==
  ASSUME IInv, IInv', Wake(MASTER), core[MASTER].pc = "asleep"
  PROVE  Service!Join
<1>1. Calm /\ ~Forked' /\ Forked /\ Placed /\ Placed'
  BY JoinStep, PlacedNow, PlacedNext DEF Forked
<1>2. mask' = mask
  BY DEF Wake
<1>3. TeamSize' = TeamSize
  BY <1>2 DEF TeamSize
<1>4. CurrentJob' = NULL /\ Places' = [c \in Core |-> [at |-> "idle"]]
  BY <1>1, PlacesIdleNext
<1>5. CurrentJob # NULL
  <2>1. CurrentJob = <<JobEntry, JobArg>> /\ JobEntry \in Entry /\ JobArg \in Arg
    BY <1>1 DEF CurrentJob, JobOf, JobEntry, JobArg, IInv, Employed
  <2> HIDE DEF JobEntry, JobArg
  <2> QED
    BY <2>1, NullAssumption
<1>6. ASSUME NEW c \in Service!Member PROVE Places[c] = [at |-> "done"]
  <2>1. c \in Team /\ c \in Core
    BY <1>1, TeamIsCores DEF Placed, Service!Member, IInv
  <2>2. ~Awaits(core[c], fifo[c]) /\ ~Busy(core[c])
    BY <1>1, <2>1 DEF Calm, Involved
  <2>3. Places[c] = PlaceOf(core[c], fifo[c], Job)
    BY <1>1, <2>1 DEF Placed, Places
  <2> QED
    BY <2>2, <2>3 DEF PlaceOf, Busy
<1>7. Core = 0..NB_PE - 1
  BY DEF Core
<1> QED
  BY <1>3, <1>4, <1>5, <1>6, <1>7 DEF Service!Join, Service!DONE, Service!IDLE

\* Starting a task sets the size of the team.
LEMMA MapStart ==
  ASSUME IInv, IInv', NEW s \in Stack, NEW n \in 1..NB_PE, StartTask(s, n)
  PROVE  Service!Resize(n)
<1>1. ~Forked /\ ~Forked' /\ Team' = 0..(n - 1) /\ Placed /\ Placed'
  BY StartTaskStep, PlacedNow, PlacedNext
<1>2. TeamSize' = n
  <2>1. PICK k \in 0..NB_PE : Team' = 0..(k - 1) /\ TeamSize' = k
    BY <1>1 DEF Placed
  <2>2. k = n
    <3>1. n \in Nat \ {0} /\ k \in Nat /\ 0..(n - 1) = 0..(k - 1)
      BY <1>1, <2>1, MasterIsCore
    <3>2. n - 1 \in 0..(k - 1)
      BY <3>1
    <3>3. k - 1 \in 0..(n - 1)
      BY <3>1, <3>2
    <3> QED
      BY <3>1, <3>2, <3>3
  <2> QED
    BY <2>1, <2>2
<1>3. UNCHANGED <<CurrentJob, Places>> /\ CurrentJob = NULL
  BY <1>1, PlacesIdle, PlacesIdleNext
<1> QED
  BY <1>2, <1>3 DEF Service!Resize

\* Ending a task is a stutter.
LEMMA MapEnd ==
  ASSUME IInv, IInv', EndTask
  PROVE  UNCHANGED Service!vars
<1>1. ~Forked /\ ~Forked' /\ mask' = mask
  BY EndTaskStep DEF EndTask, unit
<1> QED
  BY <1>1, MapSame

\* Each of the three forks is the fork of ForkJoin.
LEMMA MapFork ==
  ASSUME IInv, IInv', NEW entry \in Entry, NEW a \in Arg, NEW n \in 0..NB_PE,
         Forks(entry, a), n > 0 => Team' = 0..(n - 1), n = 0 => Team' = Team
  PROVE  Service!Fork(n, entry, a)
<1>1. /\ ~Forked /\ Forked' /\ JobEntry' = entry /\ JobArg' = a
      /\ \A c \in Team' : c # MASTER => Awaits(core'[c], fifo'[c])
      /\ core'[MASTER] = Employs(core[MASTER], entry, a)
      /\ Placed /\ Placed'
  BY ForkStep, PlacedNow, PlacedNext
<1>2. CurrentJob = NULL
  BY <1>1, PlacesIdle
<1>3. CurrentJob' = <<entry, a>> /\ Job' = <<entry, a>>
  BY <1>1 DEF CurrentJob, JobOf, JobEntry, JobArg, Job
<1>4. PICK k \in 0..NB_PE : Team' = 0..(k - 1) /\ TeamSize' = k
  BY <1>1 DEF Placed
<1>5. TeamSize' = IF n = 0 THEN TeamSize ELSE n
  <2>1. CASE n = 0
    BY <2>1 DEF TeamSize, Team
  <2>2. CASE n # 0
    <3>1. n \in Nat \ {0} /\ k \in Nat /\ 0..(n - 1) = 0..(k - 1)
      BY <2>2, <1>4, MasterIsCore
    <3>2. n - 1 \in 0..(k - 1)
      BY <3>1
    <3>3. k - 1 \in 0..(n - 1)
      BY <3>1, <3>2
    <3> QED
      BY <3>1, <3>2, <3>3, <2>2, <1>4
  <2> QED
    BY <2>1, <2>2
<1>6. MASTER \in Team'
  BY DEF Forks
<1>7. ASSUME NEW c \in Core
      PROVE  Place(c)' = IF c = 0 THEN [at |-> "in", job |-> <<entry, a>>, passed |-> 0]
                         ELSE IF c < TeamSize' THEN [at |-> "todo"] ELSE [at |-> "idle"]
  <2>1. c \in Team' <=> c < TeamSize'
    BY <1>4, MasterIsCore DEF Core
  <2>2. CASE c = 0
    <3>1. Place(c)' = PlaceOf(core'[MASTER], fifo'[MASTER], <<entry, a>>)
      BY <2>2, <1>1, <1>3, <1>6 DEF Placed, MASTER
    <3>2. core'[MASTER].pc = "run" /\ core'[MASTER].todo = entry
      BY <1>1 DEF Employs
    <3>3. Len(<<entry, a>>[1]) - Len(entry) = 0
      BY EntryLen
    <3> QED
      BY <2>2, <3>1, <3>2, <3>3 DEF PlaceOf
  <2>3. CASE c # 0 /\ c \in Team'
    <3>1. Place(c)' = PlaceOf(core'[c], fifo'[c], <<entry, a>>)
      BY <2>3, <1>1, <1>3 DEF Placed
    <3>2. Awaits(core'[c], fifo'[c])
      BY <2>3, <1>1 DEF MASTER
    <3>3. core'[c].pc \notin {"run", "barrier"}
      <4>1. core'[c] = core[c]
        BY <2>3 DEF Forks, Dispatch, MASTER
      <4>2. ~Busy(core[c])
        BY <1>1 DEF IInv, Framed, Involved
      <4> QED
        BY <4>1, <4>2 DEF Busy
    <3> QED
      BY <2>1, <2>3, <3>1, <3>2, <3>3 DEF PlaceOf
  <2>4. CASE c # 0 /\ c \notin Team'
    <3>1. Place(c)' = [at |-> "idle"]
      BY <2>4, <1>1 DEF Placed
    <3> QED
      BY <2>1, <2>4, <3>1
  <2> QED
    BY <2>2, <2>3, <2>4
<1>8. Places' = [c \in 0..NB_PE - 1 |->
                   IF c = 0 THEN [at |-> "in", job |-> <<entry, a>>, passed |-> 0]
                   ELSE IF c < TeamSize' THEN [at |-> "todo"] ELSE [at |-> "idle"]]
  BY <1>7 DEF Places, Core
<1> QED
  BY <1>2, <1>3, <1>5, <1>8
     DEF Service!Fork, Service!In, Service!TODO, Service!IDLE

\* The initial states map to initial states.
LEMMA MapInit == Init => Service!Init
<1>1. SUFFICES ASSUME Init PROVE Service!Init
  OBVIOUS
<1>2. IInv /\ Placed
  BY <1>1, InitInv, PlacedNow
<1>3. ~Forked
  BY <1>1, MasterIsCore DEF Init, Free, Forked
<1>4. CurrentJob = NULL /\ Places = [c \in 0..NB_PE - 1 |-> [at |-> "idle"]]
  BY <1>2, <1>3, PlacesIdle DEF Core
<1>5. TeamSize \in 0..1
  <2>1. mask[SYNC] = {}
    BY <1>1 DEF Init, Barrier
  <2>2. TeamSize = 0
    BY <2>1, FS_EmptySet DEF TeamSize
  <2> QED
    BY <2>2
<1> QED
  BY <1>4, <1>5 DEF Service!Init, Service!IDLE

\* Every step maps to a step or a stutter.
LEMMA MapNext ==
  ASSUME IInv, IInv', [Next]_vars
  PROVE  [Service!Next]_(Service!vars)
<1> USE DEF Service!Next
<1>1. ASSUME NEW s \in Stack, NEW n \in 1..NB_PE, StartTask(s, n) PROVE Service!Next
  BY <1>1, MapStart
<1>2. CASE EndTask
  BY <1>2, MapEnd
<1>3. ASSUME NEW entry \in Entry, NEW a \in Arg, NEW n \in 0..NB_PE,
             pi_cl_team_fork(n, entry, a) \/ pi_cl_team_fork_cc(n, entry, a)
      PROVE  Service!Next
  BY <1>3, ForkForks, MapFork
<1>4. ASSUME NEW entry \in Entry, NEW a \in Arg, pi_cl_team_preset_fork(entry, a)
      PROVE  Service!Next
  <2>1. 0 \in 0..NB_PE
    BY MasterIsCore
  <2>2. Service!Fork(0, entry, a)
    BY <1>4, <2>1, PresetForks, MapFork
  <2> QED
    BY <2>1, <2>2
<1>5. ASSUME NEW c \in Core, CoreStep(c) PROVE Service!Next \/ UNCHANGED Service!vars
  <2>1. CASE PopFunction(c) \/ PopSize(c) \/ Sync(c)
    BY <2>1, MapPopFunction, MapPopSize, MapSync
  <2>2. CASE PopArg(c)
    BY <2>2, MapPopArg
  <2>3. CASE pi_cl_team_barrier(c)
    BY <2>3, MapBarrier
  <2>4. CASE Return(c)
    BY <2>4, MapReturn
  <2>5. CASE Wake(c) /\ c = MASTER /\ core[c].pc = "asleep"
    BY <2>5, MapJoin
  <2>6. CASE Wake(c) /\ ~(c = MASTER /\ core[c].pc = "asleep")
    BY <2>6, MapWake
  <2> QED
    BY <1>5, <2>1, <2>2, <2>3, <2>4, <2>5, <2>6 DEF CoreStep
<1>6. CASE UNCHANGED vars
  BY <1>6, MapSame DEF vars, unit, Forked, JobEntry, JobArg
<1> QED
  BY <1>1, <1>2, <1>3, <1>4, <1>5, <1>6 DEF Next, Task

\* A fork does what it promises, whatever is forked after whatever and however slow
\* a core is to leave the last one: the entry point is executed once by each core
\* of the team, the barriers are passed together, and the fork returns when all
\* have finished (pi_cl_team_fork, cluster_exec_loop).
THEOREM ForksJoin == Spec => ImplementsForkJoin
<1>1. Init => Service!Init
  BY MapInit
<1>2. IInv /\ IInv' /\ [Next]_vars => [Service!Next]_(Service!vars)
  BY MapNext
<1>3. Spec => Service!Spec
  BY <1>1, <1>2, Invariance, PTL DEF Spec, Service!Spec
<1> QED
  BY <1>3 DEF ImplementsForkJoin
=============================================================================
