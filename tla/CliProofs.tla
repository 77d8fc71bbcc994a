------------------------------ MODULE CliProofs ------------------------------
(***************************************************************************)
(* Proofs about the command line tool: creating a project, the scratch     *)
(* files of the tools that look into one, and generating code in one.      *)
(***************************************************************************)
EXTENDS Codegen, Scaffold, CliTools, FiniteSetTheorems, TLAPS

(***************************************************************************)
(* nural new                                                               *)
(***************************************************************************)
CreatorPhases == {"idle", "refused", "failed", "mkdir", "write", "fill", "install", "client", "ready"}
\* What a part may hold
Texts == Answers \cup {Unwritten, Empty, Garbled}
Creation == [at : CreatorPhases, answers : Answers \cup {Unwritten}, todo : Seq(AllParts)]

\* SetToSeq lists a finite set: what it chooses exists
LEMMA ListOfSet ==
    ASSUME NEW S, IsFiniteSet(S)
    PROVE  SetToSeq(S) \in Seq(S)
<1>1. PICK n \in Nat : ExistsBijection(1 .. n, S)
  BY FS_NatBijection
<1>2. n = Cardinality(S)
  BY <1>1, FS_CountingElements, FS_CardinalityType
<1>3. PICK f \in Bijection(1 .. n, S) : TRUE
  BY <1>1 DEF ExistsBijection
<1>4. f \in [1 .. Cardinality(S) -> S] /\ IsInjective(f)
  BY <1>2, <1>3 DEF Bijection, Injection, IsInjective
<1>5. SetToSeq(S) \in [1 .. Cardinality(S) -> S]
  BY <1>4 DEF SetToSeq
<1> QED BY <1>2, <1>5

\* What follows a list of six or more leaves six or more
LEMMA AtLeastBoth ==
    ASSUME NEW S, NEW l \in Seq(S), NEW m \in Seq(S), Len(l) >= 6
    PROVE  l \o m \in Seq(S) /\ Len(l \o m) >= 6
OBVIOUS

\* A list holds its head and what its tail holds
LEMMA ToSetOfRest ==
    ASSUME NEW S, NEW l \in Seq(S), l # <<>>
    PROVE  Head(l) \in S /\ Tail(l) \in Seq(S) /\ ToSet(l) = {Head(l)} \cup ToSet(Tail(l))
<1>1. Head(l) = l[1] /\ 1 \in DOMAIN l
  OBVIOUS
<1>2. DOMAIN Tail(l) = 1 .. Len(l) - 1 /\ \A i \in 1 .. Len(l) - 1 : Tail(l)[i] = l[i + 1]
  OBVIOUS
<1>3. \A i \in DOMAIN l \ {1} : i - 1 \in DOMAIN Tail(l) /\ Tail(l)[i - 1] = l[i]
  BY <1>2
<1>4. \A i \in DOMAIN Tail(l) : i + 1 \in DOMAIN l
  BY <1>2
<1> QED BY <1>1, <1>2, <1>3, <1>4 DEF ToSet

\* A list of one is the list whose tail is empty
LEMMA OneLeft ==
    ASSUME NEW S, NEW l \in Seq(S), l # <<>>
    PROVE  Len(l) = 1 <=> Tail(l) = <<>>
<1>1. Tail(l) \in Seq(S) /\ Len(Tail(l)) = Len(l) - 1
  OBVIOUS
<1>2. \A t \in Seq(S) : t = <<>> <=> Len(t) = 0
  OBVIOUS
<1> QED BY <1>1, <1>2

\* What a project consists of is a list of parts, and there is at least one
LEMMA PartsAreListed ==
    ASSUME NEW a \in Answers
    PROVE  Parts(a) \in Seq(AllParts) /\ Parts(a) # <<>>
<1> DEFINE Names == {"package.json", "tsconfig.json", ".prettierrc", ".env", "directories", "sources",
                     "nural-env.d.ts", "schema.prisma"} \cup a.integrations
           always == <<"package.json", "tsconfig.json", ".prettierrc", ".env", "directories", "sources">>
           express == IF a.framework = "express" THEN <<"nural-env.d.ts">> ELSE <<>>
           schema == IF HasPrisma(a) THEN <<"schema.prisma">> ELSE <<>>
<1>1. ProviderParts(a) \in Seq(Names)
  <2>1. IsFiniteSet(a.integrations \ {"ws"})
    BY AnswersAssumption, FS_Difference DEF AnswersAssumption
  <2>2. SetToSeq(a.integrations \ {"ws"}) \in Seq(a.integrations \ {"ws"})
    BY <2>1, ListOfSet
  <2> QED BY <2>2 DEF ProviderParts
<1>2. always \in Seq(Names) /\ Len(always) >= 6
  OBVIOUS
<1>3. express \in Seq(Names)
  <2>1. <<"nural-env.d.ts">> \in Seq(Names) /\ <<>> \in Seq(Names)
    OBVIOUS
  <2> QED BY <2>1
<1>4. schema \in Seq(Names)
  <2>1. <<"schema.prisma">> \in Seq(Names) /\ <<>> \in Seq(Names)
    OBVIOUS
  <2> QED BY <2>1
<1>5. Parts(a) = always \o express \o ProviderParts(a) \o schema
  BY DEF Parts
<1> HIDE DEF Names, always, express, schema
<1>6. Parts(a) \in Seq(Names) /\ Len(Parts(a)) >= 6
  <2>1. always \o express \in Seq(Names) /\ Len(always \o express) >= 6
    BY <1>2, <1>3, AtLeastBoth
  <2>2. (always \o express) \o ProviderParts(a) \in Seq(Names)
        /\ Len((always \o express) \o ProviderParts(a)) >= 6
    BY <1>1, <2>1, AtLeastBoth
  <2> QED BY <1>4, <1>5, <2>2, AtLeastBoth
<1>7. Parts(a) \in Seq(ToSet(Parts(a)))
  BY <1>6 DEF ToSet
<1>8. ToSet(Parts(a)) \subseteq AllParts
  BY DEF AllParts
<1> QED BY <1>6, <1>7, <1>8

\* No answer of the prompts is mistaken for a part nobody wrote
LEMMA AnswersAreWritten ==
    ASSUME NEW a \in Answers
    PROVE  a # Unwritten
BY AnswersAssumption DEF AnswersAssumption, Unwritten, Text

Announced == {s \in Creators : creator[s].at = "ready"}

\* A part a command has written is there, and is its own while nobody mixed in
PartWritten(p, a) == content[p] # Unwritten /\ (beganAlone => content[p] = a)

\* What a command has behind it at each point: what is not on its list of
\* things to do is written, and past the list the whole project is
CreatorKept(s) ==
    LET c == creator[s] IN
    /\ c.at \in {"mkdir", "write", "fill", "install", "client", "ready"} => c.answers \in Answers
    /\ c.at = "mkdir" => c.todo = Parts(c.answers)
    /\ c.at \in {"write", "fill"} =>
        /\ c.todo # <<>>
        /\ \A p \in ToSet(Parts(c.answers)) \ ToSet(c.todo) : PartWritten(p, c.answers)
    /\ c.at \in {"install", "client", "ready"} => \A p \in ToSet(Parts(c.answers)) : PartWritten(p, c.answers)
    /\ c.at = "fill" /\ beganAlone => content[Head(c.todo)] = Empty
    /\ c.at \in {"write", "fill", "install", "client", "ready"} => exists

\* Who began alone shares the project with nobody, at work or announced
Alone ==
    beganAlone =>
        \A s, t \in Creators :
            s \in Working \cup Announced /\ t \in Working \cup Announced => s = t

ScaffoldType ==
    /\ exists \in BOOLEAN
    /\ content \in [AllParts -> Texts]
    /\ creator \in [Creators -> Creation]

ScaffoldInv ==
    /\ ScaffoldType
    /\ \A s \in Creators : CreatorKept(s)
    /\ Alone

LEMMA ScaffoldInitInv == ScaffoldInit => ScaffoldInv
<1> SUFFICES ASSUME ScaffoldInit PROVE ScaffoldInv
  OBVIOUS
<1>1. [at |-> "idle", answers |-> Unwritten, todo |-> <<>>] \in Creation
  BY DEF Creation, CreatorPhases
<1>2. ScaffoldType
  BY <1>1 DEF ScaffoldInit, ScaffoldType, Texts
<1>3. \A s \in Creators : creator[s].at = "idle"
  BY DEF ScaffoldInit
<1> QED BY <1>2, <1>3 DEF ScaffoldInv, CreatorKept, Alone, Working, Announced

\* What a command wrote stays as it is when nobody else writes
LEMMA CreatorRests ==
    ASSUME NEW s \in Creators, CreatorKept(s),
           creator'[s] = creator[s], content' = content, exists' = exists, beganAlone' => beganAlone
    PROVE  CreatorKept(s)'
BY DEF CreatorKept, PartWritten

LEMMA NewKeeps ==
    ASSUME ScaffoldInv, NEW s \in Creators, NEW a \in Answers, New(s, a)
    PROVE  ScaffoldInv'
<1> DEFINE at == IF exists THEN "refused" ELSE "mkdir"
           fresh == [at |-> at, answers |-> a, todo |-> Parts(a)]
<1>1. at \in {"refused", "mkdir"}
  OBVIOUS
<1>2. fresh \in Creation
  BY <1>1, PartsAreListed DEF Creation, CreatorPhases
<1>3. /\ creator' = [creator EXCEPT ![s] = fresh]
      /\ beganAlone' = (beganAlone /\ (Working = {} \/ exists))
      /\ UNCHANGED <<exists, content>>
  BY DEF New
<1>4. fresh.at = at /\ fresh.answers = a /\ fresh.todo = Parts(a)
  OBVIOUS
<1>5. at = "mkdir" => ~exists
  OBVIOUS
<1> HIDE DEF at, fresh
<1>6. ScaffoldType'
  BY <1>2, <1>3 DEF ScaffoldInv, ScaffoldType
<1>7. creator'[s] = fresh /\ \A t \in Creators \ {s} : creator'[t] = creator[t]
  BY <1>3 DEF ScaffoldInv, ScaffoldType
<1>8. ASSUME NEW t \in Creators PROVE CreatorKept(t)'
  <2>1. CASE t = s
    BY <2>1, <1>1, <1>4, <1>7 DEF CreatorKept
  <2>2. CASE t # s
    BY <2>2, <1>3, <1>7, CreatorRests DEF ScaffoldInv
  <2> QED BY <2>1, <2>2
<1>9. Alone'
  <2>1. SUFFICES ASSUME beganAlone',
                        NEW t \in Creators, t \in (Working \cup Announced)',
                        NEW u \in Creators, u \in (Working \cup Announced)'
                 PROVE  t = u
    BY DEF Alone
  <2>2. beganAlone /\ (Working = {} \/ exists)
    BY <2>1, <1>3
  <2>3. CASE at = "refused"
    <3>1. s \notin (Working \cup Announced)'
      BY <2>3, <1>4, <1>7 DEF Working, Announced
    <3>2. t \in Working \cup Announced /\ u \in Working \cup Announced
      BY <3>1, <2>1, <1>7 DEF Working, Announced
    <3> QED BY <3>2, <2>2 DEF ScaffoldInv, Alone
  <2>4. CASE at = "mkdir"
    <3>1. Working = {} /\ ~exists
      BY <2>2, <2>4, <1>5
    <3>2. Announced = {}
      BY <3>1 DEF Announced, ScaffoldInv, CreatorKept
    <3>3. t = s /\ u = s
      BY <3>1, <3>2, <2>1, <1>7 DEF Working, Announced
    <3> QED BY <3>3
  <2> QED BY <1>1, <2>3, <2>4
<1> QED BY <1>6, <1>8, <1>9 DEF ScaffoldInv

\* The steps of a command at work: it stays the same command, and goes on or ends
LEMMA AloneWorks ==
    ASSUME ScaffoldInv, NEW s \in Working, NEW at \in CreatorPhases, NEW todo \in Seq(AllParts),
           Phase(s, at, todo), beganAlone' = beganAlone
    PROVE  /\ Alone'
           /\ creator' \in [Creators -> Creation]
           /\ creator'[s].at = at /\ creator'[s].todo = todo
           /\ creator'[s].answers = creator[s].answers
           /\ \A t \in Creators \ {s} : creator'[t] = creator[t]
<1>1. s \in Creators
  BY DEF Working
<1>2. creator' = [creator EXCEPT ![s] = [@ EXCEPT !.at = at, !.todo = todo]]
  BY DEF Phase
<1>3. creator \in [Creators -> Creation]
  BY DEF ScaffoldInv, ScaffoldType
<1>4. /\ creator' \in [Creators -> Creation]
      /\ creator'[s].at = at /\ creator'[s].todo = todo
      /\ creator'[s].answers = creator[s].answers
      /\ \A t \in Creators \ {s} : creator'[t] = creator[t]
  BY <1>1, <1>2, <1>3 DEF Creation
<1>5. Alone'
  <2>1. (Working \cup Announced)' \subseteq Working \cup Announced
    BY <1>1, <1>4 DEF Working, Announced
  <2> QED BY <2>1 DEF Alone, ScaffoldInv
<1> QED BY <1>4, <1>5

LEMMA MakeDirectoryKeeps ==
    ASSUME ScaffoldInv, NEW s \in Creators, MakeDirectory(s)
    PROVE  ScaffoldInv'
<1>1. s \in Working /\ creator[s].todo \in Seq(AllParts)
  BY DEF MakeDirectory, Working, ScaffoldInv, ScaffoldType, Creation
<1>2. /\ creator[s].at = "mkdir" /\ exists' = TRUE
      /\ Phase(s, "write", creator[s].todo)
      /\ UNCHANGED <<content, beganAlone>>
  BY DEF MakeDirectory
<1>3. /\ Alone'
      /\ creator' \in [Creators -> Creation]
      /\ creator'[s].at = "write" /\ creator'[s].todo = creator[s].todo
      /\ creator'[s].answers = creator[s].answers
      /\ \A t \in Creators \ {s} : creator'[t] = creator[t]
  BY <1>1, <1>2, AloneWorks DEF CreatorPhases
<1>4. ScaffoldType'
  BY <1>2, <1>3 DEF ScaffoldInv, ScaffoldType
<1>5. creator[s].answers \in Answers /\ creator[s].todo = Parts(creator[s].answers)
  BY <1>2 DEF ScaffoldInv, CreatorKept
<1>6. CreatorKept(s)'
  BY <1>2, <1>3, <1>5, PartsAreListed DEF CreatorKept
<1>7. ASSUME NEW t \in Creators \ {s} PROVE CreatorKept(t)'
  BY <1>2, <1>3 DEF ScaffoldInv, CreatorKept, PartWritten
<1> QED BY <1>3, <1>4, <1>6, <1>7 DEF ScaffoldInv

\* A part is written by a command at work: who began alone writes its own
LEMMA OneWrites ==
    ASSUME ScaffoldInv, NEW s \in Creators, creator[s].at \in {"write", "fill"},
           NEW at \in {"write", "fill", "install"}, NEW todo \in Seq(AllParts), Phase(s, at, todo),
           at = "install" <=> todo = <<>>,
           NEW p \in AllParts, NEW text \in Texts \ {Unwritten}, content' = [content EXCEPT ![p] = text],
           UNCHANGED <<exists, beganAlone>>,
           at = "fill" => p = Head(todo) /\ text = Empty,
           NEW a, a = creator[s].answers, \A q \in ToSet(Parts(a)) \ ToSet(todo) : PartWritten(q, a)'
    PROVE  ScaffoldInv'
<1>1. s \in Working /\ a \in Answers /\ exists /\ at \in CreatorPhases
  BY DEF Working, ScaffoldInv, CreatorKept, CreatorPhases
<1>2. /\ Alone'
      /\ creator' \in [Creators -> Creation]
      /\ creator'[s].at = at /\ creator'[s].todo = todo
      /\ creator'[s].answers = a
      /\ \A t \in Creators \ {s} : creator'[t] = creator[t]
  BY <1>1, AloneWorks
<1>3. /\ content' \in [AllParts -> Texts]
      /\ content'[p] = text
      /\ \A q \in AllParts \ {p} : content'[q] = content[q]
  BY DEF ScaffoldInv, ScaffoldType
<1>4. ScaffoldType'
  BY <1>2, <1>3 DEF ScaffoldInv, ScaffoldType
<1>5. CreatorKept(s)'
  <2>1. CASE at = "install"
    <3>1. ToSet(todo) = {}
      BY <2>1 DEF ToSet
    <3> QED BY <2>1, <3>1, <1>1, <1>2 DEF CreatorKept
  <2>2. CASE at # "install"
    BY <2>2, <1>1, <1>2, <1>3 DEF CreatorKept
  <2> QED BY <2>1, <2>2
<1>6. ASSUME NEW t \in Creators \ {s} PROVE CreatorKept(t)'
  <2>1. CreatorKept(t) /\ creator'[t] = creator[t]
    BY <1>2 DEF ScaffoldInv
  <2>2. CASE t \in Working \cup Announced
    <3>1. ~beganAlone
      BY <2>2, <1>1 DEF ScaffoldInv, Alone
    <3>2. \A q \in AllParts : PartWritten(q, creator[t].answers) => PartWritten(q, creator[t].answers)'
      BY <3>1, <1>3 DEF PartWritten
    <3>3. creator[t].answers \in Answers => ToSet(Parts(creator[t].answers)) \subseteq AllParts
      BY DEF AllParts
    <3> QED BY <2>1, <3>1, <3>2, <3>3 DEF CreatorKept
  <2>3. CASE t \notin Working \cup Announced
    BY <2>1, <2>3 DEF CreatorKept, Working, Announced
  <2> QED BY <2>2, <2>3
<1> QED BY <1>2, <1>4, <1>5, <1>6 DEF ScaffoldInv

\* What is on the list of a command that writes, and what is behind it
LEMMA AtWork ==
    ASSUME ScaffoldInv, NEW s \in Creators, creator[s].at \in {"write", "fill"},
           NEW todo, todo = creator[s].todo, NEW a, a = creator[s].answers
    PROVE  /\ a \in Answers /\ a \in Texts \ {Unwritten} /\ ToSet(Parts(a)) \subseteq AllParts
           /\ todo \in Seq(AllParts) /\ todo # <<>>
           /\ Head(todo) \in AllParts /\ Tail(todo) \in Seq(AllParts)
           /\ ToSet(todo) = {Head(todo)} \cup ToSet(Tail(todo))
           /\ Len(todo) = 1 <=> Tail(todo) = <<>>
           /\ \A p \in ToSet(Parts(a)) \ ToSet(todo) : PartWritten(p, a)
<1>1. a \in Answers /\ todo \in Seq(AllParts) /\ todo # <<>>
  BY DEF ScaffoldInv, ScaffoldType, Creation, CreatorKept
<1>2. a \in Texts \ {Unwritten}
  BY <1>1, AnswersAreWritten DEF Texts
<1>3. \A p \in ToSet(Parts(a)) \ ToSet(todo) : PartWritten(p, a)
  BY DEF ScaffoldInv, CreatorKept
<1>4. ToSet(Parts(a)) \subseteq AllParts
  BY <1>1 DEF AllParts
<1> QED BY <1>1, <1>2, <1>3, <1>4, ToSetOfRest, OneLeft

\* A part that has its text leaves the list
LEMMA PartIsDone ==
    ASSUME ScaffoldInv, NEW s \in Creators, creator[s].at \in {"write", "fill"}, NextPart(s),
           NEW p, p = Head(creator[s].todo), NEW a, a = creator[s].answers,
           NEW text \in Texts \ {Unwritten}, content' = [content EXCEPT ![p] = text], PartWritten(p, a)',
           UNCHANGED <<exists, beganAlone>>
    PROVE  ScaffoldInv'
<1>0. PICK todo, rest, at : todo = creator[s].todo /\ rest = Tail(todo)
                            /\ at = IF Len(todo) = 1 THEN "install" ELSE "write"
  OBVIOUS
<1>1. /\ ToSet(Parts(a)) \subseteq AllParts
      /\ p \in AllParts /\ rest \in Seq(AllParts)
      /\ ToSet(todo) = {p} \cup ToSet(rest)
      /\ Len(todo) = 1 <=> rest = <<>>
      /\ \A q \in ToSet(Parts(a)) \ ToSet(todo) : PartWritten(q, a)
  BY <1>0, AtWork
<1>2. Phase(s, at, rest)
  BY <1>0 DEF NextPart
<1>3. at \in {"write", "fill", "install"} /\ at # "fill" /\ (at = "install" <=> rest = <<>>)
  BY <1>0, <1>1
<1>4. \A q \in AllParts \ {p} : content'[q] = content[q]
  BY <1>1 DEF ScaffoldInv, ScaffoldType
<1>5. \A q \in ToSet(Parts(a)) \ ToSet(rest) : PartWritten(q, a)'
  <2>1. TAKE q \in ToSet(Parts(a)) \ ToSet(rest)
  <2>2. CASE q = p
    BY <2>2
  <2>3. CASE q # p
    BY <2>3, <1>1, <1>4 DEF PartWritten
  <2> QED BY <2>2, <2>3
<1> QED BY <1>1, <1>2, <1>3, <1>5, OneWrites

LEMMA OpenPartKeeps ==
    ASSUME ScaffoldInv, NEW s \in Creators, OpenPart(s)
    PROVE  ScaffoldInv'
<1>0. PICK todo, a : todo = creator[s].todo /\ a = creator[s].answers
  OBVIOUS
<1>1. creator[s].at = "write" /\ UNCHANGED <<exists, beganAlone>>
  BY DEF OpenPart
<1>2. /\ a \in Texts \ {Unwritten} /\ ToSet(Parts(a)) \subseteq AllParts
      /\ todo \in Seq(AllParts) /\ todo # <<>> /\ Head(todo) \in AllParts
      /\ Head(todo) \in ToSet(todo)
      /\ \A p \in ToSet(Parts(a)) \ ToSet(todo) : PartWritten(p, a)
  BY <1>0, <1>1, AtWork
<1>3. CASE Head(todo) = "directories"
  <2>1. PICK p, text : p = Head(todo) /\ text = a
    OBVIOUS
  <2>2. content' = [content EXCEPT ![p] = text] /\ NextPart(s)
    BY <1>3, <1>0, <2>1 DEF OpenPart
  <2>3. PartWritten(p, a)'
    BY <1>2, <2>1, <2>2 DEF PartWritten, ScaffoldInv, ScaffoldType
  <2> QED BY <1>0, <1>1, <1>2, <2>1, <2>2, <2>3, PartIsDone
<1>4. CASE Head(todo) # "directories"
  <2>1. content' = [content EXCEPT ![Head(todo)] = Empty] /\ Phase(s, "fill", todo)
    BY <1>4, <1>0 DEF OpenPart
  <2>2. Empty \in Texts \ {Unwritten}
    BY DEF Texts, Empty, Unwritten, Text
  <2>3. \A p \in AllParts \ {Head(todo)} : content'[p] = content[p]
    BY <2>1, <1>2 DEF ScaffoldInv, ScaffoldType
  <2>4. \A p \in ToSet(Parts(a)) \ ToSet(todo) : PartWritten(p, a)'
    BY <2>3, <1>1, <1>2 DEF PartWritten
  <2>5. PICK at, p, text : at = "fill" /\ p = Head(todo) /\ text = Empty
    OBVIOUS
  <2>6. /\ creator[s].at \in {"write", "fill"} /\ at \in {"write", "fill", "install"}
        /\ (at = "install" <=> todo = <<>>) /\ Phase(s, at, todo)
        /\ p \in AllParts /\ text \in Texts \ {Unwritten} /\ content' = [content EXCEPT ![p] = text]
        /\ a = creator[s].answers /\ \A q \in ToSet(Parts(a)) \ ToSet(todo) : PartWritten(q, a)'
    BY <1>0, <1>1, <1>2, <2>1, <2>2, <2>4, <2>5
  <2> QED BY <1>1, <1>2, <2>5, <2>6, OneWrites
<1> QED BY <1>3, <1>4

LEMMA FillPartKeeps ==
    ASSUME ScaffoldInv, NEW s \in Creators, FillPart(s)
    PROVE  ScaffoldInv'
<1>0. PICK todo, a : todo = creator[s].todo /\ a = creator[s].answers
  OBVIOUS
<1>1. creator[s].at = "fill" /\ NextPart(s) /\ UNCHANGED <<exists, beganAlone>>
  BY DEF FillPart
<1>2. PICK text \in IF content[Head(todo)] \in {Empty, a} THEN {a} ELSE {a, Garbled} :
          content' = [content EXCEPT ![Head(todo)] = text]
  BY <1>0 DEF FillPart
<1>3. a \in Texts \ {Unwritten} /\ Garbled \in Texts \ {Unwritten}
  BY <1>0, <1>1, AtWork DEF Texts, Garbled, Unwritten, Text
<1>4. beganAlone => text = a
  BY <1>0, <1>1, <1>2 DEF ScaffoldInv, CreatorKept
<1>5. text \in Texts \ {Unwritten}
  BY <1>2, <1>3
<1>6. PICK p : p = Head(todo)
  OBVIOUS
<1>7. p \in AllParts
  BY <1>0, <1>1, <1>6, AtWork
<1>8. PartWritten(p, a)'
  BY <1>1, <1>2, <1>4, <1>5, <1>6, <1>7 DEF PartWritten, ScaffoldInv, ScaffoldType
<1>9. content' = [content EXCEPT ![p] = text]
  BY <1>2, <1>6
<1> HIDE <1>4
<1> QED BY <1>0, <1>1, <1>5, <1>6, <1>8, <1>9, PartIsDone

\* The steps that write nothing: the installations, and a command's end
LEMMA NothingWrittenKeeps ==
    ASSUME ScaffoldInv, NEW s \in Working, NEW at \in {"client", "ready", "failed"}, Phase(s, at, <<>>),
           at # "failed" => creator[s].at \in {"install", "client"},
           UNCHANGED <<exists, content, beganAlone>>
    PROVE  ScaffoldInv'
<1>1. s \in Creators /\ at \in CreatorPhases /\ <<>> \in Seq(AllParts)
  BY DEF Working, CreatorPhases
<1>2. /\ Alone'
      /\ creator' \in [Creators -> Creation]
      /\ creator'[s].at = at
      /\ creator'[s].answers = creator[s].answers
      /\ \A t \in Creators \ {s} : creator'[t] = creator[t]
  BY <1>1, AloneWorks
<1>3. ScaffoldType'
  BY <1>2 DEF ScaffoldInv, ScaffoldType
<1>4. CreatorKept(s)'
  BY <1>1, <1>2 DEF ScaffoldInv, CreatorKept, PartWritten
<1>5. ASSUME NEW t \in Creators \ {s} PROVE CreatorKept(t)'
  BY <1>2 DEF ScaffoldInv, CreatorKept, PartWritten
<1> QED BY <1>2, <1>3, <1>4, <1>5 DEF ScaffoldInv

LEMMA ClearKeeps ==
    ASSUME ScaffoldInv, Clear
    PROVE  ScaffoldInv'
<1>1. /\ exists' = FALSE /\ content' = [p \in AllParts |-> Unwritten]
      /\ UNCHANGED <<creator, beganAlone>>
      /\ Working = {} /\ Announced = {}
  BY DEF Clear, Announced
<1>2. ScaffoldType'
  BY <1>1 DEF ScaffoldInv, ScaffoldType, Texts
<1>3. ASSUME NEW t \in Creators PROVE CreatorKept(t)'
  BY <1>1 DEF CreatorKept, Working, Announced
<1>4. Alone'
  BY <1>1 DEF ScaffoldInv, Alone, Working, Announced
<1> QED BY <1>2, <1>3, <1>4 DEF ScaffoldInv

LEMMA ScaffoldStepInv == ScaffoldInv /\ [ScaffoldNext]_scaffoldVars => ScaffoldInv'
<1> SUFFICES ASSUME ScaffoldInv, [ScaffoldNext]_scaffoldVars PROVE ScaffoldInv'
  OBVIOUS
<1>1. ASSUME NEW s \in Creators, NEW a \in Answers, New(s, a) PROVE ScaffoldInv'
  BY <1>1, NewKeeps
<1>2. ASSUME NEW s \in Creators, MakeDirectory(s) PROVE ScaffoldInv'
  BY <1>2, MakeDirectoryKeeps
<1>3. ASSUME NEW s \in Creators, OpenPart(s) \/ FillPart(s) PROVE ScaffoldInv'
  BY <1>3, OpenPartKeeps, FillPartKeeps
<1>4. ASSUME NEW s \in Creators, InstallAll(s) PROVE ScaffoldInv'
  <2>1. s \in Working /\ creator[s].at = "install"
    BY <1>4 DEF InstallAll, Working
  <2>2. PICK at \in {"client", "ready", "failed"} :
            /\ Phase(s, at, <<>>) /\ at # "failed" /\ UNCHANGED <<exists, content, beganAlone>>
    BY <1>4 DEF InstallAll
  <2> QED BY <2>1, <2>2, NothingWrittenKeeps
<1>5. ASSUME NEW s \in Creators, PrismaGenerate(s) PROVE ScaffoldInv'
  <2>1. s \in Working /\ creator[s].at = "client"
    BY <1>5 DEF PrismaGenerate, Working
  <2>2. Phase(s, "ready", <<>>) /\ UNCHANGED <<exists, content, beganAlone>>
    BY <1>5 DEF PrismaGenerate
  <2> QED BY <2>1, <2>2, NothingWrittenKeeps
<1>6. ASSUME NEW s \in Creators, Breaks(s) PROVE ScaffoldInv'
  BY <1>6, NothingWrittenKeeps DEF Breaks
<1>7. CASE Clear
  BY <1>7, ClearKeeps
<1>8. CASE UNCHANGED scaffoldVars
  BY <1>8 DEF scaffoldVars, ScaffoldInv, ScaffoldType, CreatorKept, PartWritten, Alone, Working, Announced
<1> QED BY <1>1, <1>2, <1>3, <1>4, <1>5, <1>6, <1>7, <1>8 DEF ScaffoldNext

\* A project `nural new` announced as ready has every file its answers call
\* for, and keeps them: for any number of shells, answers and failures.
THEOREM ReadyIsCompleteHolds == ScaffoldSpec => []ReadyIsComplete
<1>1. ScaffoldInv => ReadyIsComplete
  BY DEF ScaffoldInv, CreatorKept, PartWritten, ReadyIsComplete
<1> QED BY <1>1, ScaffoldInitInv, ScaffoldStepInv, PTL DEF ScaffoldSpec

(***************************************************************************)
(* The tools that look into a project                                      *)
(***************************************************************************)
RoutesScript == ".nural-routes.ts"
Files == {RoutesScript, Data, ".nural-console.ts", ".nural-gen-docs.ts"}
ToolPhases == {"idle", "script", "load", "dump", "look", "read", "unlink", "next"}
ToolStates == [at : ToolPhases, since : Nat, version : Nat, todo : Seq(Files)]

LEMMA FilesAreTemporary == ToSet(Temporary) = Files
<1>1. DOMAIN Temporary = 1 .. 4
  BY DEF Temporary
<1>2. /\ Temporary[1] = RoutesScript /\ Temporary[2] = Data
      /\ Temporary[3] = ".nural-console.ts" /\ Temporary[4] = ".nural-gen-docs.ts"
  BY DEF Temporary, RoutesScript
<1>3. 1 .. 4 = {1, 2, 3, 4}
  OBVIOUS
<1>4. ToSet(Temporary) = {Temporary[k] : k \in {1, 2, 3, 4}}
  BY <1>1, <1>3 DEF ToSet
<1> QED BY <1>2, <1>4 DEF Files

\* What a finally block goes through: at most four files, and Data right after
\* the script of `routes`, which both `routes` and `clean` begin with
LEMMA LeftoversShape ==
    ASSUME NEW kind \in Kinds
    PROVE  /\ Leftovers(kind) \in Seq(Files) /\ Len(Leftovers(kind)) <= 4
           /\ Leftovers(kind) # <<>>
           /\ \A k \in 2 .. Len(Leftovers(kind)) : Leftovers(kind)[k] # RoutesScript
           /\ kind \in {"routes", "clean"} =>
                /\ Leftovers(kind)[1] = RoutesScript /\ Leftovers(kind)[2] = Data
                /\ Len(Leftovers(kind)) >= 2
           /\ kind = "routes" => Len(Leftovers(kind)) = 2
           /\ kind \in {"docs", "console"} =>
                Len(Leftovers(kind)) = 1 /\ Leftovers(kind)[1] # RoutesScript
<1>1. CASE kind = "clean"
  <2>1. Leftovers(kind) = Temporary
    BY <1>1 DEF Leftovers
  <2>2. Len(Temporary) = 4 /\ Temporary \in Seq(Files)
    BY DEF Temporary, Files, RoutesScript
  <2>3. /\ Temporary[1] = RoutesScript /\ Temporary[2] = Data
        /\ Temporary[3] = ".nural-console.ts" /\ Temporary[4] = ".nural-gen-docs.ts"
    BY DEF Temporary, RoutesScript
  <2>4. \A k \in 2 .. 4 : k = 2 \/ k = 3 \/ k = 4
    OBVIOUS
  <2>5. \A k \in 2 .. 4 : Temporary[k] # RoutesScript
    BY <2>3, <2>4 DEF RoutesScript, Data
  <2>6. Leftovers(kind)[1] = RoutesScript /\ Leftovers(kind)[2] = Data
    BY <2>1, <2>3
  <2>7. Leftovers(kind) \in Seq(Files) /\ Len(Leftovers(kind)) = 4 /\ Leftovers(kind) # <<>>
        /\ \A k \in 2 .. 4 : Leftovers(kind)[k] # RoutesScript
    BY <2>1, <2>2, <2>5
  <2>8. kind # "routes" /\ kind \notin {"docs", "console"}
    BY <1>1
  <2>9. Len(Leftovers(kind)) <= 4 /\ Len(Leftovers(kind)) >= 2
    BY <2>7
  <2>10. \A k \in 2 .. Len(Leftovers(kind)) : Leftovers(kind)[k] # RoutesScript
    BY <2>7
  <2> QED BY <2>6, <2>7, <2>8, <2>9, <2>10
<1>2. CASE kind = "routes"
  <2>1. Leftovers(kind) = <<RoutesScript, Data>>
    BY <1>2 DEF Leftovers, Script, RoutesScript
  <2>2. RoutesScript # Data
    BY DEF RoutesScript, Data
  <2>3. <<RoutesScript, Data>> \in Seq(Files)
    BY DEF Files
  <2>4. Len(Leftovers(kind)) = 2 /\ Leftovers(kind)[1] = RoutesScript /\ Leftovers(kind)[2] = Data
    BY <2>1
  <2>5. \A k \in 2 .. Len(Leftovers(kind)) : Leftovers(kind)[k] # RoutesScript
    BY <2>2, <2>4
  <2>6. Len(Leftovers(kind)) <= 4 /\ Len(Leftovers(kind)) >= 2 /\ Leftovers(kind) # <<>>
    BY <2>1, <2>4
  <2>7. kind \notin {"docs", "console"}
    BY <1>2
  <2> QED BY <2>1, <2>3, <2>4, <2>5, <2>6, <2>7
<1>3. CASE kind \in {"docs", "console"}
  <2>1. /\ Leftovers(kind) = <<Script(kind)>> /\ Script(kind) \in Files
        /\ Script(kind) # RoutesScript
    BY <1>3 DEF Leftovers, Script, Files, RoutesScript
  <2> QED BY <1>3, <2>1
<1> QED BY <1>1, <1>2, <1>3 DEF Kinds

LEMMA SmallestOfFour ==
    ASSUME NEW S \in SUBSET (1 .. 4), S # {}
    PROVE  \E i \in S : \A j \in S : i <= j
<1>1. \A j \in S : j = 1 \/ j = 2 \/ j = 3 \/ j = 4
  OBVIOUS
<1>2. CASE 1 \in S
  BY <1>1, <1>2
<1>3. CASE 1 \notin S /\ 2 \in S
  BY <1>1, <1>3
<1>4. CASE 1 \notin S /\ 2 \notin S /\ 3 \in S
  BY <1>1, <1>4
<1>5. CASE 1 \notin S /\ 2 \notin S /\ 3 \notin S
  <2>1. 4 \in S /\ \A j \in S : j = 4
    BY <1>1, <1>5
  <2> QED BY <2>1
<1> QED BY <1>2, <1>3, <1>4, <1>5

\* What is left of a list to go through is one of its ends
EndOf(rest, l) ==
    \E d \in 0 .. Len(l) :
        Len(rest) = Len(l) - d /\ \A k \in 1 .. Len(rest) : rest[k] = l[k + d]

LEMMA EndOfItself ==
    ASSUME NEW l \in Seq(Files)
    PROVE  EndOf(l, l)
<1>1. Len(l) \in Nat /\ 0 \in 0 .. Len(l)
  OBVIOUS
<1> QED BY <1>1 DEF EndOf

LEMMA EndOfEnd ==
    ASSUME NEW l \in Seq(Files), NEW rest \in Seq(Files), EndOf(rest, l), NEW i \in 1 .. Len(rest)
    PROVE  /\ SubSeq(rest, i, Len(rest)) \in Seq(Files)
           /\ SubSeq(rest, i, Len(rest)) # <<>>
           /\ Head(SubSeq(rest, i, Len(rest))) = rest[i]
           /\ EndOf(SubSeq(rest, i, Len(rest)), l)
           /\ \A k \in i .. Len(rest) : rest[k] \in ToSet(SubSeq(rest, i, Len(rest)))
<1> DEFINE end == SubSeq(rest, i, Len(rest))
<1>1. PICK d \in 0 .. Len(l) : Len(rest) = Len(l) - d /\ \A k \in 1 .. Len(rest) : rest[k] = l[k + d]
  BY DEF EndOf
<1>2. /\ end \in Seq(Files) /\ Len(end) = Len(rest) - i + 1
      /\ \A k \in 1 .. Len(end) : end[k] = rest[k + i - 1]
  OBVIOUS
<1>3. Len(rest) \in Nat /\ Len(l) \in Nat /\ i \in Nat /\ d \in Nat
  OBVIOUS
<1> HIDE DEF end
<1>4. Len(end) >= 1 /\ Head(end) = end[1] /\ end # <<>>
  BY <1>2, <1>3
<1>5. end[1] = rest[i]
  BY <1>2, <1>3, <1>4
<1>6. EndOf(end, l)
  <2>1. d + i - 1 \in 0 .. Len(l) /\ Len(end) = Len(l) - (d + i - 1)
    BY <1>1, <1>2, <1>3
  <2>2. \A k \in 1 .. Len(end) : end[k] = l[k + (d + i - 1)]
    <3>1. TAKE k \in 1 .. Len(end)
    <3>2. k + i - 1 \in 1 .. Len(rest) /\ (k + i - 1) + d = k + (d + i - 1)
      BY <1>2, <1>3
    <3> QED BY <1>1, <1>2, <3>2
  <2> QED BY <2>1, <2>2 DEF EndOf
<1>7. \A k \in i .. Len(rest) : rest[k] \in ToSet(end)
  <2>1. TAKE k \in i .. Len(rest)
  <2>2. k - i + 1 \in 1 .. Len(end) /\ end[k - i + 1] = rest[k]
    BY <1>2, <1>3
  <2> QED BY <1>2, <2>2 DEF ToSet
<1> QED BY <1>2, <1>4, <1>5, <1>6, <1>7 DEF end

LEMMA EndOfTail ==
    ASSUME NEW l \in Seq(Files), NEW rest \in Seq(Files), EndOf(rest, l), rest # <<>>
    PROVE  EndOf(Tail(rest), l)
<1>1. PICK d \in 0 .. Len(l) : Len(rest) = Len(l) - d /\ \A k \in 1 .. Len(rest) : rest[k] = l[k + d]
  BY DEF EndOf
<1>2. Len(Tail(rest)) = Len(rest) - 1 /\ \A k \in 1 .. Len(rest) - 1 : Tail(rest)[k] = rest[k + 1]
  OBVIOUS
<1>3. Len(rest) >= 1 /\ Len(rest) \in Nat /\ Len(l) \in Nat
  OBVIOUS
<1>4. d + 1 \in 0 .. Len(l) /\ Len(Tail(rest)) = Len(l) - (d + 1)
  BY <1>1, <1>2, <1>3
<1>5. \A k \in 1 .. Len(Tail(rest)) : Tail(rest)[k] = l[k + (d + 1)]
  <2>1. TAKE k \in 1 .. Len(Tail(rest))
  <2>2. k + 1 \in 1 .. Len(rest) /\ (k + 1) + d = k + (d + 1)
    BY <1>2, <1>3
  <2> QED BY <1>1, <1>2, <1>3, <2>2
<1> QED BY <1>4, <1>5 DEF EndOf

\* Whoever holds the script of `routes` at the head of its list has Data next,
\* and nobody else who gives up at that script has more than Data to lose
LEMMA DataFollows ==
    ASSUME NEW kind \in Kinds, NEW rest \in Seq(Files), rest # <<>>, EndOf(rest, Leftovers(kind))
    PROVE  /\ Head(rest) = RoutesScript /\ kind \in {"routes", "clean"} => Data \in ToSet(Tail(rest))
           /\ kind # "clean" /\ Head(rest) # RoutesScript => ToSet(Tail(rest)) = {}
           /\ kind # "clean" => ToSet(Tail(rest)) \subseteq {Data}
           /\ kind \in {"docs", "console"} => ToSet(Tail(rest)) = {} /\ Head(rest) # RoutesScript
<1> DEFINE l == Leftovers(kind)
<1>1. PICK d \in 0 .. Len(l) : Len(rest) = Len(l) - d /\ \A k \in 1 .. Len(rest) : rest[k] = l[k + d]
  BY DEF EndOf
<1>2. /\ l \in Seq(Files) /\ l # <<>> /\ \A k \in 2 .. Len(l) : l[k] # RoutesScript
      /\ kind \in {"routes", "clean"} => l[1] = RoutesScript /\ l[2] = Data /\ Len(l) >= 2
      /\ kind = "routes" => Len(l) = 2
      /\ kind \in {"docs", "console"} => Len(l) = 1 /\ l[1] # RoutesScript
  BY LeftoversShape
<1> HIDE DEF l
<1>3. Len(rest) >= 1 /\ Len(rest) \in Nat /\ Len(l) \in Nat /\ d \in Nat
  BY <1>2
<1>4. Head(rest) = l[1 + d] /\ 1 + d \in 1 .. Len(l)
  BY <1>1, <1>3
<1>5. Head(rest) = RoutesScript => d = 0
  BY <1>2, <1>3, <1>4
<1>6. ToSet(Tail(rest)) = {rest[k] : k \in 2 .. Len(rest)}
  <2>1. DOMAIN Tail(rest) = 1 .. Len(rest) - 1 /\ \A k \in 1 .. Len(rest) - 1 : Tail(rest)[k] = rest[k + 1]
    OBVIOUS
  <2>2. \A k \in 2 .. Len(rest) : k - 1 \in 1 .. Len(rest) - 1 /\ (k - 1) + 1 = k
    BY <1>3
  <2>3. \A k \in 1 .. Len(rest) - 1 : k + 1 \in 2 .. Len(rest)
    BY <1>3
  <2>4. \A f \in ToSet(Tail(rest)) : \E k \in 2 .. Len(rest) : f = rest[k]
    BY <2>1, <2>3 DEF ToSet
  <2>5. \A k \in 2 .. Len(rest) : rest[k] \in ToSet(Tail(rest))
    <3>1. TAKE k \in 2 .. Len(rest)
    <3>2. k - 1 \in DOMAIN Tail(rest) /\ Tail(rest)[k - 1] = rest[k]
      BY <2>1, <2>2
    <3> QED BY <3>2 DEF ToSet
  <2> QED BY <2>4, <2>5
<1>7. ASSUME Head(rest) = RoutesScript, kind \in {"routes", "clean"} PROVE Data \in ToSet(Tail(rest))
  <2>1. d = 0 /\ Len(rest) = Len(l) /\ 2 \in 1 .. Len(rest)
    BY <1>1, <1>2, <1>3, <1>5, <1>7
  <2>2. 2 \in 2 .. Len(rest) /\ rest[2] = l[2 + 0] /\ 2 + 0 = 2
    BY <1>1, <2>1
  <2> QED BY <1>2, <1>6, <1>7, <2>2
<1>8. ASSUME kind = "routes" PROVE ToSet(Tail(rest)) \subseteq {Data}
                                   /\ (Head(rest) # RoutesScript => ToSet(Tail(rest)) = {})
  <2>1. Len(l) = 2 /\ l[1] = RoutesScript /\ l[2] = Data
    BY <1>2, <1>8
  <2>2. CASE d = 0
    <3>1. Len(rest) = 2 /\ Head(rest) = RoutesScript
      BY <1>1, <1>3, <1>4, <2>1, <2>2
    <3>2. 2 \in 1 .. Len(rest) /\ 2 + d = 2 /\ 2 .. Len(rest) = {2}
      BY <2>2, <3>1
    <3>3. rest[2] = l[2]
      BY <1>1, <3>2
    <3> QED BY <1>6, <2>1, <3>1, <3>2, <3>3
  <2>3. CASE d # 0
    <3>1. Len(rest) = 1
      BY <1>1, <1>3, <2>1, <2>3
    <3>2. 2 .. 1 = {}
      OBVIOUS
    <3> QED BY <1>6, <3>1, <3>2
  <2> QED BY <2>2, <2>3
<1>9. ASSUME kind \in {"docs", "console"} PROVE ToSet(Tail(rest)) = {} /\ Head(rest) # RoutesScript
  <2>1. Len(rest) = 1 /\ Head(rest) # RoutesScript
    BY <1>1, <1>2, <1>3, <1>4, <1>9
  <2>2. 2 .. 1 = {}
    OBVIOUS
  <2> QED BY <1>6, <2>1, <2>2
<1> QED BY <1>7, <1>8, <1>9 DEF Kinds

\* What is true of a tool s in the state c: it does what its kind does, goes
\* through what is left of its list, and has loaded no older application than
\* the one there was when the command was typed
ToolKept(s, c) ==
    /\ c.at = "idle" => c = Idle
    /\ c.at \in {"script", "load", "dump"} => Tools[s] # "clean"
    /\ c.at \in {"look", "read"} => Tools[s] = "routes"
    /\ c.at \in {"unlink", "next"} => EndOf(c.todo, Leftovers(Tools[s]))
    /\ c.at = "unlink" => c.todo # <<>>
    /\ c.since <= app
    /\ c.at \in {"dump", "look", "read"} => c.version >= c.since /\ c.version # 0

\* The file f is one that s, in the state c, will come to and delete, unless
\* it is killed.  It gives up at a file another tool deleted between its look
\* and its unlink, and then does not come to the rest of its list.
Owes(s, c, f) ==
    \/ c.at \in {"script", "load", "dump", "look", "read"} /\ f \in ToSet(Leftovers(Tools[s]))
    \/ c.at = "next" /\ f \in ToSet(c.todo)
    \/ /\ c.at = "unlink"
       /\ f \in ToSet(c.todo)
       /\ f = Head(c.todo) \/ There(Head(c.todo)) \/ Tools[s] = "clean"

\* Until a tool is killed, each file that is there is some tool's to delete
Owed == kills = 0 => \A f \in Files : There(f) => \E s \in DOMAIN Tools : Owes(s, tool[s], f)

\* While two `routes` were never at work at once, the data file is the one the
\* only `routes` at work has just written
Fresh ==
    ~crossed =>
        /\ \A s, t \in DOMAIN Tools :
            Tools[s] = "routes" /\ Tools[t] = "routes" /\ tool[s].at # "idle" /\ tool[t].at # "idle" => s = t
        /\ \A s \in DOMAIN Tools :
            tool[s].at \in {"look", "read"} /\ There(Data) => scratch[Data] = tool[s].version
        /\ shown.version >= shown.since

ToolsType ==
    /\ app \in Nat \ {0}
    /\ scratch \in [Files -> Nat]
    /\ tool \in [DOMAIN Tools -> ToolStates]
    /\ shown \in [since : Nat, version : Nat]
    /\ kills \in Nat
    /\ crossed \in BOOLEAN

ToolsInv ==
    /\ ToolsType
    /\ \A s \in DOMAIN Tools : ToolKept(s, tool[s])
    /\ Owed
    /\ Fresh

LEMMA ToolsInitInv == ToolsInit => ToolsInv
<1> SUFFICES ASSUME ToolsInit PROVE ToolsInv
  OBVIOUS
<1>1. Idle \in ToolStates /\ Idle.at = "idle" /\ Idle.since = 0
  BY DEF Idle, ToolStates, ToolPhases
<1>2. scratch = [f \in Files |-> 0] /\ app = 1 /\ kills = 0 /\ crossed = FALSE
      /\ tool = [s \in DOMAIN Tools |-> Idle]
  BY FilesAreTemporary DEF ToolsInit, Gone
<1>3. shown \in [since : Nat, version : Nat] /\ shown.version >= shown.since
  BY DEF ToolsInit
<1>4. ToolsType
  <2>1. app \in Nat \ {0} /\ kills \in Nat
    BY DEF ToolsInit
  <2>3. crossed \in BOOLEAN
    BY <1>2
  <2>2. scratch \in [Files -> Nat] /\ tool \in [DOMAIN Tools -> ToolStates]
    BY <1>1, <1>2
  <2> QED BY <1>3, <2>1, <2>2, <2>3 DEF ToolsType
<1>5. \A s \in DOMAIN Tools : ToolKept(s, tool[s])
  BY <1>1, <1>2 DEF ToolKept
<1>6. Owed
  BY <1>2 DEF Owed, There, Gone
<1>7. Fresh
  BY <1>1, <1>2, <1>3 DEF Fresh
<1> QED BY <1>4, <1>5, <1>6, <1>7 DEF ToolsInv

\* A step of a tool at work that leaves the files alone
LEMMA ToolMoves ==
    ASSUME ToolsInv, NEW s \in DOMAIN Tools, NEW c \in ToolStates, tool' = [tool EXCEPT ![s] = c],
           UNCHANGED <<app, scratch, kills>>, ToolKept(s, c),
           crossed' \in BOOLEAN, crossed => crossed',
           ~crossed' /\ tool[s].at = "idle" /\ c.at # "idle" /\ Tools[s] = "routes" =>
                \A t \in DOMAIN Tools : Tools[t] = "routes" => tool[t].at = "idle",
           \A f \in Files : There(f) /\ Owes(s, tool[s], f) => Owes(s, c, f),
           c.at \in {"look", "read"} /\ ~crossed /\ There(Data) => scratch[Data] = c.version,
           shown' \in [since : Nat, version : Nat], ~crossed => shown'.version >= shown'.since
    PROVE  ToolsInv'
<1>1. /\ tool' \in [DOMAIN Tools -> ToolStates]
      /\ tool'[s] = c /\ \A t \in DOMAIN Tools \ {s} : tool'[t] = tool[t]
  BY DEF ToolsInv, ToolsType
<1>2. ToolsType'
  BY <1>1 DEF ToolsInv, ToolsType
<1>3. ASSUME NEW t \in DOMAIN Tools PROVE ToolKept(t, tool[t])'
  BY <1>1 DEF ToolsInv, ToolKept
<1>4. Owed'
  <2>1. SUFFICES ASSUME kills = 0, NEW f \in Files, There(f)
                 PROVE  \E t \in DOMAIN Tools : Owes(t, tool'[t], f)
    BY DEF Owed, Owes, There
  <2>2. PICK t \in DOMAIN Tools : Owes(t, tool[t], f)
    BY <2>1 DEF ToolsInv, Owed
  <2>3. Owes(t, tool'[t], f)
    BY <1>1, <2>1, <2>2
  <2> QED BY <2>3
<1>5. Fresh'
  <2>1. SUFFICES ASSUME ~crossed' PROVE Fresh'
    BY DEF Fresh
  <2>2. \A t, u \in DOMAIN Tools :
            Tools[t] = "routes" /\ Tools[u] = "routes" /\ tool'[t].at # "idle" /\ tool'[u].at # "idle" => t = u
    BY <1>1, <2>1 DEF ToolsInv, Fresh
  <2>3. ASSUME NEW t \in DOMAIN Tools, tool'[t].at \in {"look", "read"}, There(Data)
        PROVE  scratch[Data] = tool'[t].version
    BY <1>1, <2>1, <2>3 DEF ToolsInv, Fresh
  <2> QED BY <2>1, <2>2, <2>3 DEF Fresh, There
<1> QED BY <1>2, <1>3, <1>4, <1>5 DEF ToolsInv

LEMMA ToolWorks ==
    ASSUME ToolsInv, NEW s \in DOMAIN Tools, NEW c \in ToolStates, tool' = [tool EXCEPT ![s] = c],
           UNCHANGED <<app, scratch, kills, crossed>>, ToolKept(s, c),
           tool[s].at # "idle" \/ Tools[s] # "routes",
           \A f \in Files : There(f) /\ Owes(s, tool[s], f) => Owes(s, c, f),
           c.at \in {"look", "read"} /\ ~crossed /\ There(Data) => scratch[Data] = c.version,
           shown' \in [since : Nat, version : Nat], ~crossed => shown'.version >= shown'.since
    PROVE  ToolsInv'
<1>1. crossed \in BOOLEAN /\ crossed' = crossed
  BY DEF ToolsInv, ToolsType
<1>2. crossed' \in BOOLEAN
  BY <1>1
<1>3. crossed => crossed'
  BY <1>1
<1>4. ~crossed' /\ tool[s].at = "idle" /\ c.at # "idle" /\ Tools[s] = "routes" =>
                \A t \in DOMAIN Tools : Tools[t] = "routes" => tool[t].at = "idle"
  OBVIOUS
<1>5. UNCHANGED <<app, scratch, kills>>
  OBVIOUS
<1> QED BY <1>2, <1>3, <1>4, <1>5, ToolMoves

\* Going on to the next file that is there: none, or the end of the list that
\* begins with it
LEMMA OnwardGoes ==
    ASSUME ToolsInv, NEW s \in DOMAIN Tools, NEW todo \in Seq(Files), Len(todo) <= 4, Onward(s, todo),
           EndOf(todo, Leftovers(Tools[s]))
    PROVE  \E c \in ToolStates :
            /\ tool' = [tool EXCEPT ![s] = c]
            /\ \/ c = Idle /\ \A f \in ToSet(todo) : ~There(f)
               \/ /\ c.at = "unlink" /\ c.since = tool[s].since
                  /\ c.todo # <<>> /\ EndOf(c.todo, Leftovers(Tools[s]))
                  /\ There(Head(c.todo))
                  /\ \A f \in ToSet(todo) : There(f) => f \in ToSet(c.todo)
<1>1. PICK there : there = {i \in DOMAIN todo : There(todo[i])}
  OBVIOUS
<1>2. tool[s] \in ToolStates
  BY DEF ToolsInv, ToolsType
<1>3. Tools[s] \in Kinds
  BY ToolsAssumption DEF ToolsAssumption
<1>4. CASE there = {}
  <2>1. Idle \in ToolStates
    BY DEF Idle, ToolStates, ToolPhases
  <2>2. tool' = [tool EXCEPT ![s] = Idle]
    BY <1>1, <1>4 DEF Onward
  <2>3. \A f \in ToSet(todo) : ~There(f)
    BY <1>1, <1>4 DEF ToSet
  <2> QED BY <2>1, <2>2, <2>3
<1>5. CASE there # {}
  <2>1. DOMAIN todo = 1 .. Len(todo) /\ Len(todo) \in Nat
    OBVIOUS
  <2>2. there \subseteq 1 .. 4 /\ there \subseteq 1 .. Len(todo)
    BY <1>1, <2>1
  <2>3. \E i \in there : \A j \in there : i <= j
    BY <1>5, <2>2, SmallestOfFour
  <2>4. PICK i \in there : Min(there) = i /\ \A j \in there : i <= j
    BY <2>3 DEF Min
  <2>5. i \in 1 .. Len(todo) /\ There(todo[i])
    BY <1>1, <2>1
  <2>6. PICK end : end = SubSeq(todo, i, Len(todo))
    OBVIOUS
  <2>7. /\ end \in Seq(Files) /\ end # <<>> /\ Head(end) = todo[i]
        /\ EndOf(end, Leftovers(Tools[s]))
        /\ \A k \in i .. Len(todo) : todo[k] \in ToSet(end)
    BY <2>5, <2>6, <1>3, LeftoversShape, EndOfEnd
  <2>8. PICK c : c = [tool[s] EXCEPT !.at = "unlink", !.todo = end]
    OBVIOUS
  <2>9. c \in ToolStates /\ c.at = "unlink" /\ c.since = tool[s].since /\ c.todo = end
    BY <1>2, <2>7, <2>8 DEF ToolStates, ToolPhases
  <2>10. tool' = [tool EXCEPT ![s] = c]
    BY <1>1, <1>5, <2>4, <2>6, <2>8 DEF Onward
  <2>11. ASSUME NEW f \in ToSet(todo), There(f) PROVE f \in ToSet(end)
    <3>1. PICK k \in DOMAIN todo : f = todo[k]
      BY <2>11 DEF ToSet
    <3>2. k \in there
      BY <3>1, <2>11, <1>1
    <3>3. k \in i .. Len(todo)
      BY <3>2, <2>1, <2>2, <2>4, <2>5
    <3> QED BY <3>1, <3>3, <2>7
  <2> QED BY <2>5, <2>7, <2>9, <2>10, <2>11
<1> QED BY <1>4, <1>5

\* A tool that goes on along its list, having deleted no file in this step
LEMMA OnwardKeeps ==
    ASSUME ToolsInv, NEW s \in DOMAIN Tools, NEW todo \in Seq(Files), Len(todo) <= 4, Onward(s, todo),
           EndOf(todo, Leftovers(Tools[s])), tool[s].at # "idle" \/ Tools[s] # "routes",
           \A f \in Files : There(f) /\ Owes(s, tool[s], f) => f \in ToSet(todo),
           UNCHANGED <<app, scratch, kills, crossed>>,
           shown' \in [since : Nat, version : Nat], ~crossed => shown'.version >= shown'.since
    PROVE  ToolsInv'
<1>1. PICK c \in ToolStates :
        /\ tool' = [tool EXCEPT ![s] = c]
        /\ \/ c = Idle /\ \A f \in ToSet(todo) : ~There(f)
           \/ /\ c.at = "unlink" /\ c.since = tool[s].since
              /\ c.todo # <<>> /\ EndOf(c.todo, Leftovers(Tools[s]))
              /\ There(Head(c.todo))
              /\ \A f \in ToSet(todo) : There(f) => f \in ToSet(c.todo)
  BY OnwardGoes
<1>2. Idle.at = "idle" /\ Idle.since <= app
  BY DEF Idle, ToolsInv, ToolsType
<1>3. ToolKept(s, c)
  BY <1>1, <1>2 DEF ToolsInv, ToolKept
<1>4. c.at \notin {"look", "read"}
  BY <1>1, <1>2
<1>5. \A f \in Files : There(f) /\ Owes(s, tool[s], f) => Owes(s, c, f)
  BY <1>1 DEF Owes
<1> QED BY <1>1, <1>3, <1>4, <1>5, ToolWorks

\* The finally block: the whole list is still to be gone through
LEMMA FinallyKeeps ==
    ASSUME ToolsInv, NEW s \in DOMAIN Tools, Finally(s),
           tool[s].at \in {"script", "load", "dump", "look", "read"},
           UNCHANGED <<app, scratch, kills, crossed>>,
           shown' \in [since : Nat, version : Nat], ~crossed => shown'.version >= shown'.since
    PROVE  ToolsInv'
<1>1. Tools[s] \in Kinds
  BY ToolsAssumption DEF ToolsAssumption
<1>2. PICK todo : todo = Leftovers(Tools[s])
  OBVIOUS
<1>3. todo \in Seq(Files) /\ Len(todo) <= 4 /\ EndOf(todo, Leftovers(Tools[s]))
  BY <1>1, <1>2, LeftoversShape, EndOfItself
<1>4. Onward(s, todo)
  BY <1>2 DEF Finally
<1>5. \A f \in Files : Owes(s, tool[s], f) => f \in ToSet(todo)
  BY <1>2 DEF Owes
<1>6. tool[s].at # "idle"
  OBVIOUS
<1> QED BY <1>3, <1>4, <1>5, <1>6, OnwardKeeps

LEMMA ShownRests ==
    ASSUME ToolsInv, shown' = shown
    PROVE  shown' \in [since : Nat, version : Nat] /\ (~crossed => shown'.version >= shown'.since)
BY DEF ToolsInv, ToolsType, Fresh

LEMMA LoadAppKeeps ==
    ASSUME ToolsInv, NEW s \in DOMAIN Tools, LoadApp(s)
    PROVE  ToolsInv'
<1>1. tool[s].at = "load" /\ UNCHANGED <<app, scratch, shown, kills, crossed>>
  BY DEF LoadApp
<1>2. CASE There(Script(Tools[s])) /\ loads
  <2>1. tool[s] \in ToolStates /\ app \in Nat \ {0} /\ tool[s].since <= app
    BY DEF ToolsInv, ToolsType, ToolKept
  <2>2. PICK c : c = [tool[s] EXCEPT !.at = "dump", !.version = app]
    OBVIOUS
  <2>3. c \in ToolStates /\ c.at = "dump" /\ c.since = tool[s].since /\ c.version = app
    BY <2>1, <2>2 DEF ToolStates, ToolPhases
  <2>4. tool' = [tool EXCEPT ![s] = c]
    BY <1>2, <2>2 DEF LoadApp
  <2>5. ToolKept(s, c)
    BY <1>1, <2>1, <2>3 DEF ToolsInv, ToolKept
  <2>6. \A f \in Files : Owes(s, tool[s], f) => Owes(s, c, f)
    BY <1>1, <2>3 DEF Owes
  <2>7. tool[s].at # "idle" /\ c.at \notin {"look", "read"}
    BY <1>1, <2>3
  <2> QED BY <1>1, <2>3, <2>4, <2>5, <2>6, <2>7, ShownRests, ToolWorks
<1>3. CASE ~(There(Script(Tools[s])) /\ loads)
  BY <1>1, <1>3, FinallyKeeps, ShownRests DEF LoadApp
<1> QED BY <1>2, <1>3

LEMMA LookForDataKeeps ==
    ASSUME ToolsInv, NEW s \in DOMAIN Tools, LookForData(s)
    PROVE  ToolsInv'
<1>1. tool[s].at = "look" /\ UNCHANGED <<app, scratch, shown, kills, crossed>>
  BY DEF LookForData
<1>2. CASE There(Data)
  <2>1. tool[s] \in ToolStates
    BY DEF ToolsInv, ToolsType
  <2>2. PICK c : c = [tool[s] EXCEPT !.at = "read"]
    OBVIOUS
  <2>3. c \in ToolStates /\ c.at = "read" /\ c.since = tool[s].since /\ c.version = tool[s].version
    BY <2>1, <2>2 DEF ToolStates, ToolPhases
  <2>4. tool' = [tool EXCEPT ![s] = c]
    BY <1>2, <2>2 DEF LookForData
  <2>5. ToolKept(s, c)
    BY <1>1, <2>1, <2>3 DEF ToolsInv, ToolKept
  <2>6. \A f \in Files : Owes(s, tool[s], f) => Owes(s, c, f)
    BY <1>1, <2>3 DEF Owes
  <2>7. tool[s].at # "idle"
    BY <1>1
  <2>8. ~crossed /\ There(Data) => scratch[Data] = c.version
    BY <1>1, <2>3 DEF ToolsInv, Fresh
  <2> QED BY <1>1, <2>3, <2>4, <2>5, <2>6, <2>7, <2>8, ShownRests, ToolWorks
<1>3. CASE ~There(Data)
  BY <1>1, <1>3, FinallyKeeps, ShownRests DEF LookForData
<1> QED BY <1>2, <1>3

LEMMA ReadDataKeeps ==
    ASSUME ToolsInv, NEW s \in DOMAIN Tools, ReadData(s)
    PROVE  ToolsInv'
<1>1. /\ tool[s].at = "read" /\ Finally(s) /\ UNCHANGED <<app, scratch, kills, crossed>>
      /\ shown' = IF There(Data) THEN [since |-> tool[s].since, version |-> scratch[Data]] ELSE shown
  BY DEF ReadData
<1>2. /\ tool[s] \in ToolStates /\ Data \in Files /\ scratch[Data] \in Nat
      /\ tool[s].since \in Nat /\ tool[s].version >= tool[s].since
      /\ shown \in [since : Nat, version : Nat]
  BY <1>1 DEF ToolsInv, ToolsType, ToolStates, ToolKept, Files
<1>3. ~crossed /\ There(Data) => scratch[Data] = tool[s].version
  BY <1>1 DEF ToolsInv, Fresh
<1>4. shown' \in [since : Nat, version : Nat]
  BY <1>1, <1>2
<1>5. ASSUME ~crossed PROVE shown'.version >= shown'.since
  <2>1. CASE There(Data)
    BY <1>1, <1>2, <1>3, <1>5, <2>1
  <2>2. CASE ~There(Data)
    BY <1>1, <1>5, <2>2 DEF ToolsInv, Fresh
  <2> QED BY <2>1, <2>2
<1> QED BY <1>1, <1>4, <1>5, FinallyKeeps

LEMMA NextFileKeeps ==
    ASSUME ToolsInv, NEW s \in DOMAIN Tools, NextFile(s)
    PROVE  ToolsInv'
<1>1. tool[s].at = "next" /\ Onward(s, tool[s].todo) /\ UNCHANGED <<app, scratch, shown, kills, crossed>>
  BY DEF NextFile
<1>2. tool[s].todo \in Seq(Files) /\ EndOf(tool[s].todo, Leftovers(Tools[s]))
  BY <1>1 DEF ToolsInv, ToolsType, ToolStates, ToolKept
<1>3. Len(tool[s].todo) <= 4
  <2>1. Len(Leftovers(Tools[s])) <= 4 /\ Len(Leftovers(Tools[s])) \in Nat
    BY ToolsAssumption, LeftoversShape DEF ToolsAssumption
  <2>2. PICK d \in 0 .. Len(Leftovers(Tools[s])) : Len(tool[s].todo) = Len(Leftovers(Tools[s])) - d
    BY <1>2 DEF EndOf
  <2> QED BY <2>1, <2>2
<1>4. \A f \in Files : Owes(s, tool[s], f) => f \in ToSet(tool[s].todo)
  BY <1>1 DEF Owes
<1>5. tool[s].at # "idle"
  BY <1>1
<1> QED BY <1>1, <1>2, <1>3, <1>4, <1>5, ShownRests, OnwardKeeps

LEMMA DumpSpecKeeps ==
    ASSUME ToolsInv, NEW s \in DOMAIN Tools, DumpSpec(s) \/ ReplEnds(s)
    PROVE  ToolsInv'
<1>1. tool[s].at = "dump" /\ Finally(s) /\ UNCHANGED <<app, scratch, shown, kills, crossed>>
  BY DEF DumpSpec, ReplEnds
<1> QED BY <1>1, FinallyKeeps, ShownRests

\* `clean` goes straight to its list; another tool has its script to write
LEMMA RunKeeps ==
    ASSUME ToolsInv, NEW s \in DOMAIN Tools, Run(s)
    PROVE  ToolsInv'
<1> DEFINE meets == \E t \in DOMAIN Tools : Tools[s] = "routes" /\ Tools[t] = "routes" /\ tool[t] # Idle
<1>1. /\ tool[s] = Idle /\ UNCHANGED <<app, scratch, shown, kills>>
      /\ crossed' = (crossed \/ meets)
  BY DEF Run
<1>2. Idle.at = "idle" /\ Idle \in ToolStates
  BY DEF Idle, ToolStates, ToolPhases
<1>3. CASE Tools[s] = "clean"
  <2>1. ~meets
    BY <1>3
  <2> HIDE DEF meets
  <2>2. crossed' = crossed
    BY <1>1, <2>1 DEF ToolsInv, ToolsType
  <2>3. Finally(s)
    BY <1>3 DEF Run
  <2>4. PICK todo : todo = Leftovers(Tools[s])
    OBVIOUS
  <2>5. todo \in Seq(Files) /\ Len(todo) <= 4 /\ EndOf(todo, Leftovers(Tools[s]))
    BY <2>4, ToolsAssumption, LeftoversShape, EndOfItself DEF ToolsAssumption
  <2>6. Onward(s, todo)
    BY <2>3, <2>4 DEF Finally
  <2>7. \A f \in Files : ~Owes(s, tool[s], f)
    BY <1>1, <1>2 DEF Owes
  <2>8. Tools[s] # "routes"
    BY <1>3
  <2>9. UNCHANGED <<app, scratch, kills, crossed>>
    BY <1>1, <2>2
  <2>10. shown' \in [since : Nat, version : Nat] /\ (~crossed => shown'.version >= shown'.since)
    BY <1>1, ShownRests
  <2> QED BY <2>5, <2>6, <2>7, <2>8, <2>9, <2>10, OnwardKeeps
<1>4. CASE Tools[s] # "clean"
  <2>1. PICK c : c = [Idle EXCEPT !.at = "script", !.since = app]
    OBVIOUS
  <2>0. app \in Nat
    BY DEF ToolsInv, ToolsType
  <2>2. c \in ToolStates /\ c.at = "script" /\ c.since = app
    <3>1. c = [at |-> "script", since |-> app, version |-> 0, todo |-> <<>>]
      BY <2>1 DEF Idle
    <3>2. <<>> \in Seq(Files) /\ 0 \in Nat /\ "script" \in ToolPhases
      BY DEF ToolPhases
    <3> QED BY <2>0, <3>1, <3>2 DEF ToolStates
  <2>3. tool' = [tool EXCEPT ![s] = c]
    BY <1>4, <2>1 DEF Run
  <2>4. ToolKept(s, c)
    BY <1>4, <2>2 DEF ToolKept, ToolsInv, ToolsType
  <2>5. \A f \in Files : ~Owes(s, tool[s], f)
    BY <1>1, <1>2 DEF Owes
  <2>6. ~meets /\ Tools[s] = "routes" => \A t \in DOMAIN Tools : Tools[t] = "routes" => tool[t].at = "idle"
    BY <1>2
  <2> HIDE DEF meets
  <2>7. (crossed => crossed') /\ (~crossed' => ~meets)
    BY <1>1
  <2>8. crossed' \in BOOLEAN
    <3>1. CASE crossed \/ meets
      BY <1>1, <3>1
    <3>2. CASE ~(crossed \/ meets)
      BY <1>1, <3>2
    <3> QED BY <3>1, <3>2
  <2>9. ~crossed' /\ tool[s].at = "idle" /\ c.at # "idle" /\ Tools[s] = "routes" =>
                \A t \in DOMAIN Tools : Tools[t] = "routes" => tool[t].at = "idle"
    BY <2>6, <2>7
  <2>10. shown' \in [since : Nat, version : Nat] /\ (~crossed => shown'.version >= shown'.since)
    BY <1>1, ShownRests
  <2>11. UNCHANGED <<app, scratch, kills>>
    BY <1>1
  <2>12. c.at \notin {"look", "read"}
    BY <2>2
  <2>13. ~crossed' => shown'.version >= shown'.since
    BY <2>7, <2>10
  <2>14. crossed => crossed'
    BY <2>7
  <2> QED BY <2>2, <2>3, <2>4, <2>5, <2>8, <2>9, <2>10, <2>11, <2>12, <2>13, <2>14, ToolMoves
<1> QED BY <1>3, <1>4

\* A tool writes a file its own list comes to at its end
LEMMA WritingKeeps ==
    ASSUME ToolsInv, NEW s \in DOMAIN Tools, NEW c \in ToolStates, NEW f \in Files, NEW v \in Nat \ {0},
           tool' = [tool EXCEPT ![s] = c], scratch' = [scratch EXCEPT ![f] = v],
           UNCHANGED <<app, shown, kills, crossed>>, ToolKept(s, c),
           tool[s].at \in {"script", "dump"}, c.at \in {"load", "look"},
           f \in ToSet(Leftovers(Tools[s])),
           f = Data => Tools[s] = "routes" /\ v = c.version,
           c.at = "look" => f = Data
    PROVE  ToolsInv'
<1>1. /\ tool' \in [DOMAIN Tools -> ToolStates]
      /\ tool'[s] = c /\ \A t \in DOMAIN Tools \ {s} : tool'[t] = tool[t]
  BY DEF ToolsInv, ToolsType
<1>2. /\ scratch' \in [Files -> Nat]
      /\ scratch'[f] = v /\ \A g \in Files \ {f} : scratch'[g] = scratch[g]
  BY DEF ToolsInv, ToolsType
<1>3. ToolsType'
  BY <1>1, <1>2 DEF ToolsInv, ToolsType
<1>4. ASSUME NEW t \in DOMAIN Tools PROVE ToolKept(t, tool[t])'
  BY <1>1 DEF ToolsInv, ToolKept
<1>5. \A g \in Files : There(g) => There(g)'
  BY <1>2 DEF There, Gone
<1>6. Owed'
  <2>1. SUFFICES ASSUME kills = 0, NEW g \in Files, There(g)'
                 PROVE  \E t \in DOMAIN Tools : Owes(t, tool[t], g)'
    BY DEF Owed
  <2>2. CASE g = f
    <3>1. Owes(s, tool[s], g)'
      BY <2>2, <1>1 DEF Owes
    <3> QED BY <3>1
  <2>3. CASE g # f
    <3>1. There(g)
      BY <2>1, <2>3, <1>2 DEF There
    <3>2. PICK t \in DOMAIN Tools : Owes(t, tool[t], g)
      BY <2>1, <3>1 DEF ToolsInv, Owed
    <3>3. CASE t = s
      <4>1. g \in ToSet(Leftovers(Tools[s]))
        BY <3>2, <3>3 DEF Owes
      <4>2. Owes(s, tool[s], g)'
        BY <4>1, <1>1 DEF Owes
      <4> QED BY <4>2
    <3>4. CASE t # s
      <4>1. tool[t].at = "unlink" => tool[t].todo \in Seq(Files) /\ tool[t].todo # <<>>
        BY DEF ToolsInv, ToolsType, ToolStates, ToolKept
      <4>2. tool[t].at = "unlink" => Head(tool[t].todo) \in Files
        BY <4>1
      <4>3. Owes(t, tool[t], g)'
        BY <3>2, <3>4, <4>2, <1>1, <1>5 DEF Owes
      <4> QED BY <4>3
    <3> QED BY <3>3, <3>4
  <2> QED BY <2>2, <2>3
<1>7. Fresh'
  <2>1. SUFFICES ASSUME ~crossed PROVE Fresh'
    BY DEF Fresh
  <2>2. tool[s].at # "idle"
    OBVIOUS
  <2>3. \A t, u \in DOMAIN Tools :
            Tools[t] = "routes" /\ Tools[u] = "routes" /\ tool'[t].at # "idle" /\ tool'[u].at # "idle" => t = u
    BY <1>1, <2>1, <2>2 DEF ToolsInv, Fresh
  <2>4. ASSUME NEW t \in DOMAIN Tools, tool'[t].at \in {"look", "read"}, There(Data)'
        PROVE  scratch'[Data] = tool'[t].version
    <3>1. CASE f = Data
      <4>1. Tools[t] = "routes" /\ Tools[s] = "routes"
        BY <2>4, <3>1, <1>4 DEF ToolKept
      <4>2. t = s
        BY <4>1, <2>3, <2>4, <1>1
      <4> QED BY <4>2, <3>1, <1>1, <1>2
    <3>2. CASE f # Data
      <4>1. t # s
        BY <3>2, <2>4, <1>1
      <4>2. Data \in Files /\ scratch'[Data] = scratch[Data]
        BY <3>2, <1>2 DEF Files
      <4> QED BY <4>1, <4>2, <2>1, <2>4, <1>1 DEF ToolsInv, Fresh, There
    <3> QED BY <3>1, <3>2
  <2> QED BY <2>1, <2>3, <2>4 DEF Fresh, ToolsInv
<1> QED BY <1>3, <1>4, <1>6, <1>7 DEF ToolsInv

LEMMA ScriptOfKind ==
    ASSUME NEW kind \in Kinds, kind # "clean"
    PROVE  /\ Script(kind) \in Files /\ Script(kind) # Data
           /\ Script(kind) \in ToSet(Leftovers(kind))
<1>1. Script(kind) \in Files /\ Script(kind) # Data
  BY DEF Kinds, Script, Files, Data, RoutesScript
<1>2. Leftovers(kind)[1] = Script(kind)
  BY DEF Kinds, Leftovers
<1>3. Leftovers(kind) \in Seq(Files) /\ Leftovers(kind) # <<>>
  BY LeftoversShape
<1>4. 1 \in DOMAIN Leftovers(kind)
  BY <1>3
<1> QED BY <1>1, <1>2, <1>4 DEF ToSet

LEMMA WriteScriptKeeps ==
    ASSUME ToolsInv, NEW s \in DOMAIN Tools, WriteScript(s)
    PROVE  ToolsInv'
<1>1. /\ tool[s].at = "script" /\ UNCHANGED <<app, shown, kills, crossed>>
      /\ scratch' = [scratch EXCEPT ![Script(Tools[s])] = 1]
  BY DEF WriteScript
<1>2. tool[s] \in ToolStates /\ Tools[s] \in Kinds /\ Tools[s] # "clean"
  BY <1>1, ToolsAssumption DEF ToolsInv, ToolsType, ToolKept, ToolsAssumption
<1>3. PICK c : c = [tool[s] EXCEPT !.at = "load"]
  OBVIOUS
<1>4. c \in ToolStates /\ c.at = "load" /\ c.since = tool[s].since
  BY <1>2, <1>3 DEF ToolStates, ToolPhases
<1>5. tool' = [tool EXCEPT ![s] = c]
  BY <1>3 DEF WriteScript
<1>6. ToolKept(s, c)
  BY <1>1, <1>2, <1>4 DEF ToolsInv, ToolKept
<1>7. PICK f : f = Script(Tools[s])
  OBVIOUS
<1>8. f \in Files /\ f # Data /\ f \in ToSet(Leftovers(Tools[s]))
  BY <1>2, <1>7, ScriptOfKind
<1>9. 1 \in Nat \ {0} /\ scratch' = [scratch EXCEPT ![f] = 1]
  BY <1>1, <1>7
<1> QED BY <1>1, <1>4, <1>5, <1>6, <1>8, <1>9, WritingKeeps

LEMMA DumpRoutesKeeps ==
    ASSUME ToolsInv, NEW s \in DOMAIN Tools, DumpRoutes(s)
    PROVE  ToolsInv'
<1>1. /\ tool[s].at = "dump" /\ Tools[s] = "routes" /\ UNCHANGED <<app, shown, kills, crossed>>
      /\ scratch' = [scratch EXCEPT ![Data] = tool[s].version]
  BY DEF DumpRoutes
<1>2. tool[s] \in ToolStates /\ tool[s].version # 0 /\ tool[s].version \in Nat
  BY <1>1 DEF ToolsInv, ToolsType, ToolKept, ToolStates
<1>3. PICK c : c = [tool[s] EXCEPT !.at = "look"]
  OBVIOUS
<1>4. c \in ToolStates /\ c.at = "look" /\ c.since = tool[s].since /\ c.version = tool[s].version
  BY <1>2, <1>3 DEF ToolStates, ToolPhases
<1>5. tool' = [tool EXCEPT ![s] = c]
  BY <1>3 DEF DumpRoutes
<1>6. ToolKept(s, c)
  BY <1>1, <1>2, <1>4 DEF ToolsInv, ToolKept
<1>7. Data \in Files /\ Data \in ToSet(Leftovers(Tools[s]))
  <2>1. Leftovers(Tools[s]) = <<Script("routes"), Data>>
    BY <1>1 DEF Leftovers
  <2>2. 2 \in DOMAIN Leftovers(Tools[s]) /\ Leftovers(Tools[s])[2] = Data
    BY <2>1
  <2> QED BY <2>2 DEF ToSet, Files
<1>8. tool[s].version \in Nat \ {0}
  BY <1>2
<1> QED BY <1>1, <1>4, <1>5, <1>6, <1>7, <1>8, WritingKeeps

\* What a tool still owed after another deleted the file f: whoever gives up at
\* f had only Data left, and the one that deleted f comes to Data next
LEMMA UnlinkKeeps ==
    ASSUME ToolsInv, NEW s \in DOMAIN Tools, Unlink(s)
    PROVE  ToolsInv'
<1>0. PICK f, todo : todo = tool[s].todo /\ f = Head(todo)
  OBVIOUS
<1>1. /\ tool[s].at = "unlink" /\ UNCHANGED <<app, shown, kills, crossed>>
      /\ scratch' = [scratch EXCEPT ![f] = 0]
  BY <1>0 DEF Unlink, Gone
<1>2. /\ tool[s] \in ToolStates /\ Tools[s] \in Kinds /\ todo \in Seq(Files) /\ todo # <<>>
      /\ EndOf(todo, Leftovers(Tools[s]))
  BY <1>0, <1>1, ToolsAssumption DEF ToolsInv, ToolsType, ToolKept, ToolStates, ToolsAssumption
<1>3. f \in Files /\ Tail(todo) \in Seq(Files) /\ ToSet(todo) = {f} \cup ToSet(Tail(todo))
      /\ EndOf(Tail(todo), Leftovers(Tools[s]))
  BY <1>0, <1>2, ToSetOfRest, LeftoversShape, EndOfTail
<1>4. PICK c \in ToolStates :
        /\ tool' = [tool EXCEPT ![s] = c]
        /\ ToolKept(s, c)
        /\ \/ /\ c.at = "next" /\ c.todo = Tail(todo)
           \/ c.at = "idle" /\ ~There(f) /\ Tools[s] # "clean"
  <2>1. CASE There(f) \/ Tools[s] = "clean"
    <3>1. PICK c : c = [tool[s] EXCEPT !.at = "next", !.todo = Tail(todo)]
      OBVIOUS
    <3>2. c \in ToolStates /\ c.at = "next" /\ c.todo = Tail(todo) /\ c.since = tool[s].since
      BY <1>2, <1>3, <3>1 DEF ToolStates, ToolPhases
    <3>3. tool' = [tool EXCEPT ![s] = c]
      BY <1>0, <2>1, <3>1 DEF Unlink
    <3>4. ToolKept(s, c)
      BY <1>3, <3>2 DEF ToolsInv, ToolKept
    <3> QED BY <3>2, <3>3, <3>4
  <2>2. CASE ~There(f) /\ Tools[s] # "clean"
    <3>1. tool' = [tool EXCEPT ![s] = Idle]
      BY <1>0, <2>2 DEF Unlink
    <3>2. Idle \in ToolStates /\ Idle.at = "idle" /\ Idle.since <= app
      BY DEF Idle, ToolStates, ToolPhases, ToolsInv, ToolsType
    <3>3. ToolKept(s, Idle)
      BY <3>2 DEF ToolKept
    <3> QED BY <2>2, <3>1, <3>2, <3>3
  <2> QED BY <2>1, <2>2
<1>5. /\ tool' \in [DOMAIN Tools -> ToolStates]
      /\ tool'[s] = c /\ \A t \in DOMAIN Tools \ {s} : tool'[t] = tool[t]
  BY <1>4 DEF ToolsInv, ToolsType
<1>6. /\ scratch' \in [Files -> Nat]
      /\ scratch'[f] = 0 /\ \A g \in Files \ {f} : scratch'[g] = scratch[g]
  BY <1>1, <1>3 DEF ToolsInv, ToolsType
<1>7. ToolsType'
  BY <1>1, <1>5, <1>6 DEF ToolsInv, ToolsType
<1>8. ASSUME NEW t \in DOMAIN Tools PROVE ToolKept(t, tool[t])'
  BY <1>1, <1>4, <1>5 DEF ToolsInv, ToolKept
<1>9. /\ \A g \in Files \ {f} : There(g)' <=> There(g)
      /\ ~There(f)'
  BY <1>6, <1>3 DEF There, Gone
<1>10. ASSUME NEW t \in DOMAIN Tools \ {s}, NEW g \in Files \ {f}, There(g), Owes(t, tool[t], g)
       PROVE  Owes(t, tool[t], g)' \/ (g = Data /\ f = RoutesScript /\ Tools[t] = "routes")
  <2>1. CASE tool[t].at # "unlink"
    BY <1>5, <1>10, <2>1 DEF Owes
  <2>2. CASE tool[t].at = "unlink"
    <3>0. PICK rest : rest = tool[t].todo
      OBVIOUS
    <3>1. /\ rest \in Seq(Files) /\ rest # <<>> /\ EndOf(rest, Leftovers(Tools[t]))
          /\ Tools[t] \in Kinds
      BY <2>2, <3>0, ToolsAssumption DEF ToolsInv, ToolsType, ToolStates, ToolKept, ToolsAssumption
    <3>2. /\ g \in ToSet(rest)
          /\ g = Head(rest) \/ There(Head(rest)) \/ Tools[t] = "clean"
      BY <1>10, <2>2, <3>0 DEF Owes
    <3>3. Head(rest) \in Files /\ ToSet(rest) = {Head(rest)} \cup ToSet(Tail(rest))
      BY <3>1, ToSetOfRest
    <3>4. CASE g = Head(rest) \/ Tools[t] = "clean"
      <4>1. Owes(t, tool[t], g)'
        BY <1>5, <2>2, <3>0, <3>2, <3>4 DEF Owes
      <4> QED BY <4>1
    <3>5. CASE Head(rest) # f /\ There(Head(rest))
      <4>1. There(Head(rest))'
        BY <1>9, <3>3, <3>5
      <4>2. Owes(t, tool[t], g)'
        BY <1>5, <2>2, <3>0, <3>2, <4>1 DEF Owes
      <4> QED BY <4>2
    <3>6. CASE Head(rest) = f /\ g # Head(rest) /\ Tools[t] # "clean"
      <4>1. g \in ToSet(Tail(rest))
        BY <3>2, <3>3, <3>6
      <4>2. g = Data /\ Head(rest) = RoutesScript /\ Tools[t] \notin {"docs", "console"}
        BY <3>1, <3>6, <4>1, DataFollows
      <4> QED BY <4>2, <3>1, <3>6 DEF Kinds
    <3> QED BY <3>2, <3>4, <3>5, <3>6
  <2> QED BY <2>1, <2>2
<1>11. Owed'
  <2>1. SUFFICES ASSUME kills = 0, NEW g \in Files, There(g)'
                 PROVE  \E t \in DOMAIN Tools : Owes(t, tool[t], g)'
    BY <1>1 DEF Owed
  <2>2. g # f /\ There(g)
    BY <2>1, <1>9
  <2>3. PICK t \in DOMAIN Tools : Owes(t, tool[t], g)
    BY <2>1, <2>2 DEF ToolsInv, Owed
  <2>4. CASE t = s
    <3>1. g \in ToSet(Tail(todo)) /\ (There(f) \/ Tools[s] = "clean")
      BY <2>2, <2>3, <2>4, <1>0, <1>1, <1>3 DEF Owes
    <3>2. c.at = "next" /\ c.todo = Tail(todo)
      BY <3>1, <1>4
    <3>3. Owes(s, tool[s], g)'
      BY <3>1, <3>2, <1>5 DEF Owes
    <3> QED BY <3>3
  <2>5. CASE t # s /\ ~(g = Data /\ f = RoutesScript /\ Tools[t] = "routes")
    <3>1. Owes(t, tool[t], g)'
      BY <2>2, <2>3, <2>5, <1>10
    <3> QED BY <3>1
  <2>6. CASE t # s /\ g = Data /\ f = RoutesScript /\ Tools[t] = "routes" /\ There(f)
    <3>1. Tools[s] \in {"routes", "clean"} /\ Data \in ToSet(Tail(todo))
      BY <2>6, <1>0, <1>2, DataFollows DEF Kinds
    <3>2. c.at = "next" /\ c.todo = Tail(todo)
      BY <2>6, <1>4
    <3>3. Owes(s, tool[s], g)'
      BY <2>6, <3>1, <3>2, <1>5 DEF Owes
    <3> QED BY <3>3
  <2>7. CASE t # s /\ g = Data /\ f = RoutesScript /\ Tools[t] = "routes" /\ ~There(f)
    <3>1. Owes(t, tool[t], g)'
      <4>1. tool'[t] = tool[t]
        BY <2>7, <1>5
      <4>2. \A h \in Files : There(h)' <=> There(h)
        BY <2>7, <1>9
      <4>3. tool[t].at = "unlink" => tool[t].todo \in Seq(Files) /\ tool[t].todo # <<>>
        BY DEF ToolsInv, ToolsType, ToolStates, ToolKept
      <4>4. tool[t].at = "unlink" => Head(tool[t].todo) \in Files
        BY <4>3
      <4> QED BY <2>3, <4>1, <4>2, <4>4 DEF Owes
    <3> QED BY <3>1
  <2> QED BY <2>4, <2>5, <2>6, <2>7
<1>12. Fresh'
  <2>1. SUFFICES ASSUME ~crossed PROVE Fresh'
    BY <1>1 DEF Fresh
  <2>2. \A t, u \in DOMAIN Tools :
            Tools[t] = "routes" /\ Tools[u] = "routes" /\ tool'[t].at # "idle" /\ tool'[u].at # "idle" => t = u
    BY <1>1, <1>5, <2>1 DEF ToolsInv, Fresh
  <2>3. ASSUME NEW t \in DOMAIN Tools, tool'[t].at \in {"look", "read"}, There(Data)'
        PROVE  scratch'[Data] = tool'[t].version
    <3>1. t # s
      BY <2>3, <1>4, <1>5
    <3>2. Data \in Files /\ Data # f
      BY <2>3, <1>9 DEF Files
    <3>3. There(Data) /\ scratch'[Data] = scratch[Data]
      BY <2>3, <3>2, <1>6, <1>9
    <3> QED BY <2>1, <2>3, <3>1, <3>3, <1>5 DEF ToolsInv, Fresh
  <2> QED BY <1>1, <2>1, <2>2, <2>3 DEF Fresh, ToolsInv
<1> QED BY <1>7, <1>8, <1>11, <1>12 DEF ToolsInv

LEMMA KilledKeeps ==
    ASSUME ToolsInv, NEW s \in DOMAIN Tools, Killed(s)
    PROVE  ToolsInv'
<1>1. /\ tool' = [tool EXCEPT ![s] = Idle] /\ UNCHANGED <<app, scratch, shown, crossed>>
      /\ kills' = kills + 1
  BY DEF Killed
<1>2. Idle \in ToolStates /\ Idle.at = "idle" /\ Idle.since <= app
  BY DEF Idle, ToolStates, ToolPhases, ToolsInv, ToolsType
<1>3. /\ tool' \in [DOMAIN Tools -> ToolStates]
      /\ tool'[s] = Idle /\ \A t \in DOMAIN Tools \ {s} : tool'[t] = tool[t]
  BY <1>1, <1>2 DEF ToolsInv, ToolsType
<1>4. kills' \in Nat /\ kills' # 0
  BY <1>1 DEF ToolsInv, ToolsType
<1>5. ToolsType'
  BY <1>1, <1>3, <1>4 DEF ToolsInv, ToolsType
<1>6. ASSUME NEW t \in DOMAIN Tools PROVE ToolKept(t, tool[t])'
  BY <1>1, <1>2, <1>3 DEF ToolsInv, ToolKept
<1>7. Owed'
  BY <1>4 DEF Owed
<1>8. Fresh'
  <2>1. SUFFICES ASSUME ~crossed PROVE Fresh'
    BY <1>1 DEF Fresh
  <2>2. \A t \in DOMAIN Tools : tool'[t].at # "idle" => t # s /\ tool'[t] = tool[t]
    BY <1>2, <1>3
  <2>3. \A t \in DOMAIN Tools : tool'[t].at \in {"look", "read"} => t # s /\ tool'[t] = tool[t]
    BY <2>2
  <2> QED BY <1>1, <2>1, <2>2, <2>3 DEF Fresh, ToolsInv, There
<1> QED BY <1>5, <1>6, <1>7, <1>8 DEF ToolsInv

LEMMA EditAppKeeps ==
    ASSUME ToolsInv, EditApp
    PROVE  ToolsInv'
<1>1. app' = app + 1 /\ UNCHANGED <<scratch, tool, shown, kills, crossed>>
  BY DEF EditApp
<1>2. app \in Nat \ {0} /\ app' \in Nat \ {0} /\ \A n \in Nat : n <= app => n <= app'
  BY <1>1 DEF ToolsInv, ToolsType
<1>3. ToolsType'
  BY <1>1, <1>2 DEF ToolsInv, ToolsType
<1>4. ASSUME NEW t \in DOMAIN Tools PROVE ToolKept(t, tool[t])'
  <2>1. tool[t].since \in Nat
    BY DEF ToolsInv, ToolsType, ToolStates
  <2> QED BY <2>1, <1>1, <1>2 DEF ToolsInv, ToolKept
<1>5. Owed' /\ Fresh'
  BY <1>1 DEF ToolsInv, Owed, Owes, Fresh, There
<1> QED BY <1>3, <1>4, <1>5 DEF ToolsInv

LEMMA ToolsStepInv == ToolsInv /\ [ToolsNext]_toolVars => ToolsInv'
<1> SUFFICES ASSUME ToolsInv, [ToolsNext]_toolVars PROVE ToolsInv'
  OBVIOUS
<1>1. ASSUME NEW s \in DOMAIN Tools, Run(s) \/ WriteScript(s) PROVE ToolsInv'
  BY <1>1, RunKeeps, WriteScriptKeeps
<1>2. ASSUME NEW s \in DOMAIN Tools, LoadApp(s) \/ DumpRoutes(s) PROVE ToolsInv'
  BY <1>2, LoadAppKeeps, DumpRoutesKeeps
<1>3. ASSUME NEW s \in DOMAIN Tools, DumpSpec(s) \/ ReplEnds(s) PROVE ToolsInv'
  BY <1>3, DumpSpecKeeps
<1>4. ASSUME NEW s \in DOMAIN Tools, LookForData(s) \/ ReadData(s) PROVE ToolsInv'
  BY <1>4, LookForDataKeeps, ReadDataKeeps
<1>5. ASSUME NEW s \in DOMAIN Tools, Unlink(s) \/ NextFile(s) PROVE ToolsInv'
  BY <1>5, UnlinkKeeps, NextFileKeeps
<1>6. ASSUME NEW s \in DOMAIN Tools, Killed(s) PROVE ToolsInv'
  BY <1>6, KilledKeeps
<1>7. CASE EditApp
  BY <1>7, EditAppKeeps
<1>8. CASE UNCHANGED toolVars
  BY <1>8 DEF toolVars, ToolsInv, ToolsType, ToolKept, Owed, Owes, Fresh, There
<1> QED BY <1>1, <1>2, <1>3, <1>4, <1>5, <1>6, <1>7, <1>8 DEF ToolsNext

\* The routes printed are never older than the command, and tools that were not
\* killed leave no file behind: for any number of tools of any kind at once.
THEOREM ScratchFilesDoNotMisleadHold == ToolsSpec => []ScratchFilesDoNotMislead
<1>1. ASSUME ToolsInv PROVE RoutesAreFresh
  BY <1>1 DEF ToolsInv, Fresh, RoutesAreFresh
<1>2. ASSUME ToolsInv PROVE NothingLeftBehind
  <2>1. SUFFICES ASSUME kills = 0, \A s \in DOMAIN Tools : tool[s] = Idle, NEW f \in Files, There(f)
                 PROVE  FALSE
    BY FilesAreTemporary DEF NothingLeftBehind
  <2>2. PICK s \in DOMAIN Tools : Owes(s, tool[s], f)
    BY <1>2, <2>1 DEF ToolsInv, Owed
  <2>3. tool[s].at = "idle"
    BY <2>1 DEF Idle
  <2> QED BY <2>2, <2>3 DEF Owes
<1>3. ToolsInv => ScratchFilesDoNotMislead
  BY <1>1, <1>2 DEF ScratchFilesDoNotMislead
<1> QED BY <1>3, ToolsInitInv, ToolsStepInv, PTL DEF ToolsSpec

(***************************************************************************)
(* nural generate and nural add                                            *)
(***************************************************************************)
SourceFields == {"text", "calls", "notes"}
PackageFields == {"deps", "scripts"}
ShellFields == {"at", "kind", "name", "todo", "next"}

\* A file of a granular schematic is there, with its text unless it was
\* truncated again
Granted(r) == r \in granular /\ Whole(r)

\* What a registration in app.ts, or in main.ts, stands for was written first
Registered(kind, n) ==
    IF kind = "resource" THEN n \in removed \/ Written(n) ELSE Granted(<<"provider", n>>)

GoodSource(kind, c) ==
    /\ DOMAIN c = SourceFields
    /\ c.calls \in Seq(FileNames)
    /\ <<Target(kind)>> \in overlaid \/ IsInjective(c.calls)
    /\ \A n \in ToSet(c.calls) : Registered(kind, n)

\* What a command that has come to wiring has behind it
Present(kind, name) ==
    /\ kind = "resource" => name \in FileNames /\ Written(name)
    /\ kind = "provider" => name \in FileNames /\ Granted(<<"provider", name>>)
    /\ kind = "prisma-pg" => name = kind /\ <<"integration", kind>> \in granular

FileWritten(n, f) == f \in files[n] /\ Whole(<<"resource", n, f>>)

\* What a module lacks is still on the list
Underway(n, todo) == \A f \in Wanted \ ToSet(todo) : FileWritten(n, f)

\* What is true of a shell in the state c: which kinds of command come to each
\* point, what they have written until then, and what they are about to write
ShellKept(c) ==
    /\ DOMAIN c = ShellFields
    /\ c.at \in {"dirs", "files", "fillModule"} => c.kind = "resource" /\ c.name \in FileNames
    /\ c.at \in {"files", "fillModule"} =>
        c.todo \in Seq(ToSet(ModuleFiles)) /\ c.todo # <<>> /\ Underway(c.name, c.todo)
    /\ c.at = "fillModule" => Head(c.todo) \in files[c.name]
    /\ c.at \in {"dir", "file", "fillFile"} => c.kind \in Schematics \ {"resource"} /\ c.name \in FileNames
    /\ c.at \in {"install", "install -D", "provider", "fillProvider", "schema", "fillSchema", "scripts"} =>
        c.kind \in Integrations /\ c.name = c.kind
    /\ c.at \in {"fillFile", "fillProvider", "fillSchema"} => Granule(c) \in granular
    /\ c.at = "read" => c.kind \in {"resource", "provider"}
    /\ c.at \in {"schema", "fillSchema", "scripts"} => c.kind = "prisma-pg"
    /\ c.at \in {"truncate", "fill"} => c.kind \in {"resource", "provider", "prisma-pg"}
    /\ c.at \in {"read", "schema", "fillSchema", "scripts", "truncate", "fill"} => Present(c.kind, c.name)
    /\ c.at \in {"truncate", "fill"} =>
        /\ c.kind \in {"resource", "provider"} => GoodSource(c.kind, c.next)
        /\ c.kind = "prisma-pg" => DOMAIN c.next = PackageFields

SourcesKept ==
    /\ DOMAIN sources = {"app", "main", "package"}
    /\ GoodSource("resource", sources.app)
    /\ GoodSource("provider", sources.main)
    /\ DOMAIN sources.package = PackageFields

\* What a command reported is there, and was not deleted since
ReportedKept(r) ==
    /\ r = <<r[1], r[2]>>
    /\ r[1] \in Schematics \cup Integrations
    /\ r[1] \in Integrations => r[2] = r[1] /\ <<"integration", r[1]>> \in granular
    /\ r[1] = "resource" => r[2] \in FileNames /\ Wanted \subseteq files[r[2]]
    /\ r[1] \in Schematics \ {"resource"} => r \in granular

CodegenInv ==
    /\ DOMAIN shell = Shells
    /\ DOMAIN files = FileNames
    /\ SourcesKept
    /\ \A s \in Shells : ShellKept(shell[s])
    /\ \A r \in reported : ReportedKept(r)

LEMMA EmptySourceIsGood ==
    ASSUME NEW kind, NEW c, DOMAIN c = SourceFields, c.calls = <<>>
    PROVE  GoodSource(kind, c)
<1>1. <<>> \in Seq(FileNames) /\ ToSet(<<>>) = {} /\ IsInjective(<<>>)
  BY DEF ToSet, IsInjective
<1> QED BY <1>1 DEF GoodSource

LEMMA BareSources ==
    /\ \A text : DOMAIN Source(text) = SourceFields /\ Source(text).calls = <<>> /\ Source(text).text = text
    /\ DOMAIN Emptied = SourceFields /\ Emptied.calls = <<>>
    /\ DOMAIN NoFile = SourceFields /\ NoFile.calls = <<>> /\ NoFile.text = "missing"
BY DEF Source, Emptied, NoFile, SourceFields

LEMMA IdleIsKept == ShellKept(NoShell) /\ NoShell.at = "idle"
<1>1. DOMAIN NoShell = ShellFields /\ NoShell.at = "idle"
  BY DEF NoShell, ShellFields
<1> QED BY <1>1 DEF ShellKept

LEMMA CodegenInitInv == CodegenInit => CodegenInv
<1> SUFFICES ASSUME CodegenInit PROVE CodegenInv
  OBVIOUS
<1>1. DOMAIN shell = Shells /\ DOMAIN files = FileNames /\ reported = {}
      /\ \A s \in Shells : shell[s] = NoShell
  BY DEF CodegenInit
<1>2. PICK main \in Mains : sources = [app |-> Source("plain"), main |-> main, package |-> Package]
  BY DEF CodegenInit
<1>3. DOMAIN main = SourceFields /\ main.calls = <<>>
  BY MainsAssumption, BareSources
<1>4. DOMAIN Package = PackageFields
  BY DEF Package, PackageFields
<1>5. SourcesKept
  BY <1>2, <1>3, <1>4, EmptySourceIsGood, BareSources DEF SourcesKept
<1> QED BY <1>1, <1>5, IdleIsKept DEF CodegenInv

\* What is written stays written while no module is deleted
Grows ==
    /\ installed' = installed /\ removed' = removed
    /\ granular \subseteq granular' /\ overlaid \subseteq overlaid'
    /\ DOMAIN files' = FileNames /\ \A n \in FileNames : files[n] \subseteq files'[n]
    /\ \A n \in FileNames : \A f \in files[n] :
        Whole(<<"resource", n, f>>) => Whole(<<"resource", n, f>>)'
    /\ \A n : Granted(<<"provider", n>>) => Granted(<<"provider", n>>)'

\* A step that writes no generated file
LEMMA FilesRest ==
    ASSUME CodegenInv, UNCHANGED <<installed, files, granular, hollow, removed>>, overlaid \subseteq overlaid'
    PROVE  Grows
BY DEF Grows, Granted, Whole, CodegenInv

LEMMA FilesStay ==
    ASSUME CodegenInv, UNCHANGED <<installed, files, granular, hollow, removed, overlaid>>
    PROVE  Grows
BY FilesRest

\* A file that was there and is truncated again counts as written still
LEMMA OpensGrows ==
    ASSUME CodegenInv, NEW file, NEW there, Opens(file, there),
           granular \subseteq granular', DOMAIN files' = FileNames,
           \A n \in FileNames : files[n] \subseteq files'[n],
           \A n \in FileNames : \A f \in files[n] : file = <<"resource", n, f>> => there,
           \A n : <<"provider", n>> \in granular /\ file = <<"provider", n>> => there
    PROVE  Grows
<1>1. /\ hollow' = hollow \cup {file} /\ overlaid \subseteq overlaid' /\ (there => file \in overlaid')
      /\ installed' = installed /\ removed' = removed
  BY DEF Opens
<1>2. ASSUME NEW id, Whole(id), id = file => there PROVE Whole(id)'
  BY <1>1, <1>2 DEF Whole
<1>3. \A n \in FileNames : \A f \in files[n] : Whole(<<"resource", n, f>>) => Whole(<<"resource", n, f>>)'
  BY <1>2
<1>4. \A n : Granted(<<"provider", n>>) => Granted(<<"provider", n>>)'
  BY <1>2 DEF Granted
<1> QED BY <1>1, <1>3, <1>4 DEF Grows

LEMMA FillsGrows ==
    ASSUME CodegenInv, NEW file, Fills(file)
    PROVE  Grows /\ Whole(file)'
BY DEF Fills, Grows, Granted, Whole, CodegenInv

LEMMA WrittenStays ==
    ASSUME Grows, NEW n \in FileNames
    PROVE  /\ Wanted' = Wanted
           /\ Written(n) => Written(n)'
           /\ \A todo : Underway(n, todo) => Underway(n, todo)'
<1>1. Wanted' = Wanted
  BY DEF Grows, Wanted
<1>2. \A f : FileWritten(n, f) => FileWritten(n, f)'
  BY DEF Grows, FileWritten
<1> QED BY <1>1, <1>2 DEF Written, Underway, FileWritten

LEMMA GoodStays ==
    ASSUME Grows, NEW kind, NEW c, GoodSource(kind, c)
    PROVE  GoodSource(kind, c)'
<1>1. \A n \in ToSet(c.calls) : n \in FileNames
  BY DEF GoodSource, ToSet
<1>2. \A n \in FileNames : Registered(kind, n) => Registered(kind, n)'
  BY WrittenStays DEF Registered, Grows
<1>3. overlaid \subseteq overlaid'
  BY DEF Grows
<1> QED BY <1>1, <1>2, <1>3 DEF GoodSource

LEMMA PresentStays ==
    ASSUME Grows, NEW kind, NEW name, Present(kind, name)
    PROVE  Present(kind, name)'
<1>1. granular \subseteq granular' /\ (Granted(<<"provider", name>>) => Granted(<<"provider", name>>)')
  BY DEF Grows
<1>2. name \in FileNames => (Written(name) => Written(name)')
  BY WrittenStays
<1> QED BY <1>1, <1>2 DEF Present

LEMMA ShellStays ==
    ASSUME Grows, NEW c, ShellKept(c)
    PROVE  ShellKept(c)'
<1>1. Present(c.kind, c.name) => Present(c.kind, c.name)'
  BY PresentStays
<1>2. GoodSource(c.kind, c.next) => GoodSource(c.kind, c.next)'
  BY GoodStays
<1>3. c.at \in {"files", "fillModule"} => Underway(c.name, c.todo)'
  BY WrittenStays DEF ShellKept
<1>4. c.at = "fillModule" => Head(c.todo) \in files'[c.name]
  BY DEF Grows, ShellKept
<1>5. c.at \in {"fillFile", "fillProvider", "fillSchema"} => Granule(c) \in granular'
  BY DEF Grows, ShellKept
<1> QED BY <1>1, <1>2, <1>3, <1>4, <1>5 DEF ShellKept, Granule

LEMMA ReportedStays ==
    ASSUME Grows, NEW r, ReportedKept(r)
    PROVE  ReportedKept(r)'
BY DEF Grows, ReportedKept, Wanted

\* The step of one command: it goes on to the state c, and what it reports, if
\* it ends, is what it has written
LEMMA CommandStep ==
    ASSUME CodegenInv, NEW s \in Shells, NEW c, shell' = [shell EXCEPT ![s] = c], Grows,
           ShellKept(c)', SourcesKept',
           \A r \in reported' \ reported : ReportedKept(r)'
    PROVE  CodegenInv'
<1>1. /\ DOMAIN shell' = Shells
      /\ shell'[s] = c /\ \A t \in Shells \ {s} : shell'[t] = shell[t]
  BY DEF CodegenInv
<1>2. ASSUME NEW t \in Shells PROVE ShellKept(shell[t])'
  BY <1>1, ShellStays DEF CodegenInv
<1>3. ASSUME NEW r \in reported' PROVE ReportedKept(r)'
  BY ReportedStays DEF CodegenInv
<1>4. DOMAIN files' = FileNames
  BY DEF Grows
<1> QED BY <1>1, <1>2, <1>3, <1>4 DEF CodegenInv

LEMMA SourcesStay ==
    ASSUME Grows, SourcesKept, sources' = sources
    PROVE  SourcesKept'
BY GoodStays DEF SourcesKept

LEMMA CodegenRests ==
    ASSUME CodegenInv, UNCHANGED <<project, shell, reported, removed, overlaid>>
    PROVE  CodegenInv'
<1>1. Grows
  BY FilesStay DEF project
<1>2. SourcesKept'
  BY <1>1, SourcesStay DEF CodegenInv, project
<1>3. ASSUME NEW s \in Shells PROVE ShellKept(shell[s])'
  <2>1. PICK c : c = shell[s]
    OBVIOUS
  <2>2. ShellKept(c)'
    BY <1>1, <2>1, ShellStays DEF CodegenInv
  <2> QED BY <2>1, <2>2
<1>4. ASSUME NEW r \in reported' PROVE ReportedKept(r)'
  BY <1>1, ReportedStays DEF CodegenInv
<1> QED BY <1>2, <1>3, <1>4 DEF CodegenInv, project

\* A command begins: it has written nothing yet
LEMMA BeginsKeeps ==
    ASSUME CodegenInv, NEW s \in Shells, NEW kind, NEW name, NEW at,
           Begins(s, kind, name, at), UNCHANGED <<project, reported, removed, overlaid>>,
           \/ at = "dirs" /\ kind = "resource" /\ name \in FileNames
           \/ at = "dir" /\ kind \in Schematics \ {"resource"} /\ name \in FileNames
           \/ at = "install" /\ kind \in Integrations /\ name = kind
    PROVE  CodegenInv'
<1>1. PICK c : c = [NoShell EXCEPT !.at = at, !.kind = kind, !.name = name]
  OBVIOUS
<1>2. DOMAIN c = ShellFields /\ c.at = at /\ c.kind = kind /\ c.name = name
  BY <1>1 DEF NoShell, ShellFields
<1>3. ShellKept(c)
  BY <1>2 DEF ShellKept
<1>4. Grows
  BY FilesStay DEF project
<1>5. shell' = [shell EXCEPT ![s] = c]
  BY <1>1 DEF Begins
<1>6. ShellKept(c)' /\ SourcesKept'
  BY <1>3, <1>4, ShellStays, SourcesStay DEF CodegenInv, project
<1> QED BY <1>4, <1>5, <1>6, CommandStep

LEMMA GenerateKeeps ==
    ASSUME CodegenInv, NEW s \in Shells, NEW a \in Args, Generate(s, a)
    PROVE  CodegenInv'
<1>1. /\ a.command = "generate" /\ UNCHANGED <<project, reported, removed, overlaid>>
  BY DEF Generate
<1>2. PICK c \in Resolve(a) :
        \/ shell' = shell
        \/ /\ c.kind \in Schematics
           /\ Begins(s, c.kind, FileName[c.name], IF c.kind = "resource" THEN "dirs" ELSE "dir")
  BY DEF Generate
<1>3. CASE shell' = shell
  BY <1>1, <1>3, CodegenRests
<1>4. CASE /\ c.kind \in Schematics
           /\ Begins(s, c.kind, FileName[c.name], IF c.kind = "resource" THEN "dirs" ELSE "dir")
  <2>1. FileName[c.name] \in FileNames
    BY <1>1, <1>4, ArgsAssumption DEF FileNames
  <2> QED BY <1>1, <1>4, <2>1, BeginsKeeps
<1> QED BY <1>2, <1>3, <1>4

LEMMA AddKeeps ==
    ASSUME CodegenInv, NEW s \in Shells, NEW a \in Args, Add(s, a)
    PROVE  CodegenInv'
<1>1. UNCHANGED <<project, reported, removed, overlaid>>
  BY DEF Add
<1>2. PICK i : shell' = shell \/ (i \in Integrations /\ Begins(s, i, i, "install"))
  BY DEF Add
<1> QED BY <1>1, <1>2, CodegenRests, BeginsKeeps

\* A command goes on to another point of its program
LEMMA GoneOn ==
    ASSUME CodegenInv, NEW s \in Shells, NEW at, Go(s, at)
    PROVE  \E c : /\ shell' = [shell EXCEPT ![s] = c] /\ DOMAIN c = ShellFields
                  /\ c.at = at /\ c.kind = shell[s].kind /\ c.name = shell[s].name
                  /\ c.next = shell[s].next /\ c.todo = shell[s].todo
<1>1. DOMAIN shell[s] = ShellFields /\ s \in DOMAIN shell
  BY DEF CodegenInv, ShellKept
<1>2. PICK c : c = [shell[s] EXCEPT !.at = at]
  OBVIOUS
<1>3. DOMAIN c = ShellFields /\ c.at = at /\ c.kind = shell[s].kind /\ c.name = shell[s].name
      /\ c.next = shell[s].next /\ c.todo = shell[s].todo
  BY <1>1, <1>2 DEF ShellFields
<1>4. shell' = [shell EXCEPT ![s] = c]
  BY <1>1, <1>2 DEF Go
<1> QED BY <1>3, <1>4

LEMMA GoneOnWith ==
    ASSUME CodegenInv, NEW s \in Shells, NEW at, NEW todo, Do(s, at, todo)
    PROVE  \E c : /\ shell' = [shell EXCEPT ![s] = c] /\ DOMAIN c = ShellFields
                  /\ c.at = at /\ c.kind = shell[s].kind /\ c.name = shell[s].name
                  /\ c.todo = todo
<1>1. DOMAIN shell[s] = ShellFields /\ s \in DOMAIN shell
  BY DEF CodegenInv, ShellKept
<1>2. PICK c : c = [shell[s] EXCEPT !.at = at]
  OBVIOUS
<1>3. DOMAIN c = ShellFields /\ c.at = at /\ c.kind = shell[s].kind /\ c.name = shell[s].name
  BY <1>1, <1>2 DEF ShellFields
<1>4. PICK d : d = [c EXCEPT !.todo = todo]
  OBVIOUS
<1>5. DOMAIN d = ShellFields /\ d.at = at /\ d.kind = shell[s].kind /\ d.name = shell[s].name /\ d.todo = todo
  BY <1>3, <1>4 DEF ShellFields
<1>6. shell' = [shell EXCEPT ![s] = d]
  BY <1>1, <1>2, <1>4 DEF Do
<1> QED BY <1>5, <1>6

LEMMA EnsureDirsKeeps ==
    ASSUME CodegenInv, NEW s \in Shells, EnsureDirs(s)
    PROVE  CodegenInv'
<1>1. /\ shell[s].at = "dirs" /\ Do(s, "files", ModuleFiles)
      /\ UNCHANGED <<installed, files, granular, hollow, sources, reported, removed, overlaid>>
  BY DEF EnsureDirs, history
<1>2. PICK c : /\ shell' = [shell EXCEPT ![s] = c] /\ DOMAIN c = ShellFields
               /\ c.at = "files" /\ c.kind = shell[s].kind /\ c.name = shell[s].name
               /\ c.todo = ModuleFiles
  BY <1>1, GoneOnWith
<1>3. c.kind = "resource" /\ c.name \in FileNames
  BY <1>1, <1>2 DEF CodegenInv, ShellKept
<1>4. ShellKept(c)
  BY <1>2, <1>3, ModuleFilesAssumption DEF ShellKept, Underway, Wanted
<1>5. Grows
  BY <1>1, FilesStay
<1>6. ShellKept(c)' /\ SourcesKept'
  BY <1>1, <1>4, <1>5, ShellStays, SourcesStay DEF CodegenInv
<1> QED BY <1>1, <1>2, <1>5, <1>6, CommandStep

LEMMA EndsKeeps ==
    ASSUME CodegenInv, NEW s \in Shells, Ends(s), Grows, sources' = sources,
           \A r \in reported' \ reported : ReportedKept(r)'
    PROVE  CodegenInv'
<1>1. shell' = [shell EXCEPT ![s] = NoShell]
  BY DEF Ends
<1>2. ShellKept(NoShell)' /\ SourcesKept'
  BY IdleIsKept, ShellStays, SourcesStay DEF CodegenInv
<1> QED BY <1>1, <1>2, CommandStep

\* A file leaves the list: what is wanted is written or still on the list
LEMMA NextModuleFileKeeps ==
    ASSUME CodegenInv, NEW s \in Shells, shell[s].at \in {"files", "fillModule"},
           NEW n, n = shell[s].name, NEW f, f = Head(shell[s].todo),
           NextModuleFile(s), Grows, UNCHANGED <<sources, reported>>,
           f \in Wanted => FileWritten(n, f)'
    PROVE  CodegenInv'
<1>0. PICK todo, rest, at : /\ todo = shell[s].todo /\ rest = Tail(todo)
                            /\ at = IF Len(todo) = 1 THEN "read" ELSE "files"
  OBVIOUS
<1>1. /\ n \in FileNames /\ shell[s].kind = "resource"
      /\ todo \in Seq(ToSet(ModuleFiles)) /\ todo # <<>> /\ Underway(n, todo)
  BY <1>0 DEF CodegenInv, ShellKept
<1>2. PICK c : /\ shell' = [shell EXCEPT ![s] = c] /\ DOMAIN c = ShellFields
               /\ c.at = at /\ c.kind = shell[s].kind /\ c.name = shell[s].name
               /\ c.todo = rest
  <2>1. Do(s, at, rest)
    BY <1>0 DEF NextModuleFile
  <2>2. \E c : /\ shell' = [shell EXCEPT ![s] = c] /\ DOMAIN c = ShellFields
               /\ c.at = at /\ c.kind = shell[s].kind /\ c.name = shell[s].name
               /\ c.todo = rest
    BY <2>1, GoneOnWith
  <2> QED BY <2>2
<1>3. rest \in Seq(ToSet(ModuleFiles)) /\ ToSet(todo) = {f} \cup ToSet(rest)
      /\ (Len(todo) = 1 <=> rest = <<>>)
  BY <1>0, <1>1, ToSetOfRest, OneLeft
<1>4. Underway(n, rest)'
  <2>1. Wanted' = Wanted /\ Underway(n, todo)'
    BY <1>1, WrittenStays
  <2> QED BY <2>1, <1>3 DEF Underway
<1>5. ShellKept(c)'
  <2>1. CASE at = "files"
    <3>1. rest # <<>>
      BY <1>0, <1>3, <2>1
    <3> QED BY <1>1, <1>2, <1>3, <1>4, <2>1, <3>1 DEF ShellKept
  <2>2. CASE at = "read"
    <3>1. rest = <<>>
      BY <1>0, <1>3, <2>2
    <3>2. ToSet(rest) = {}
      BY <3>1 DEF ToSet
    <3>3. Present("resource", n)'
      BY <1>1, <1>4, <3>2 DEF Present, Underway, Written, FileWritten
    <3> QED BY <1>1, <1>2, <2>2, <3>3 DEF ShellKept
  <2> QED BY <1>0, <2>1, <2>2
<1>6. SourcesKept'
  BY SourcesStay DEF CodegenInv
<1> QED BY <1>2, <1>5, <1>6, CommandStep

LEMMA SkipModuleFileKeeps ==
    ASSUME CodegenInv, NEW s \in Shells, SkipModuleFile(s)
    PROVE  CodegenInv'
<1>1. /\ shell[s].at = "files" /\ Head(shell[s].todo) \notin installed /\ NextModuleFile(s)
      /\ UNCHANGED <<installed, files, granular, hollow, sources, reported, removed, overlaid>>
  BY DEF SkipModuleFile, history, project
<1>2. Grows
  BY <1>1, FilesStay
<1>3. Head(shell[s].todo) \notin Wanted
  BY <1>1 DEF Wanted
<1> QED BY <1>1, <1>2, <1>3, NextModuleFileKeeps

LEMMA OpenModuleFileKeeps ==
    ASSUME CodegenInv, NEW s \in Shells, OpenModuleFile(s)
    PROVE  CodegenInv'
<1>0. PICK n, f : n = shell[s].name /\ f = Head(shell[s].todo)
  OBVIOUS
<1>1. /\ shell[s].at = "files" /\ files' = [files EXCEPT ![n] = @ \cup {f}]
      /\ granular' = granular
  BY <1>0 DEF OpenModuleFile, ModuleFile
<1>11. Opens(<<"resource", n, f>>, f \in files[n])
  BY <1>0 DEF OpenModuleFile, ModuleFile
<1>12. Go(s, "fillModule")
  BY DEF OpenModuleFile
<1>2. /\ n \in FileNames /\ shell[s].kind = "resource"
      /\ shell[s].todo \in Seq(ToSet(ModuleFiles)) /\ shell[s].todo # <<>> /\ Underway(n, shell[s].todo)
  BY <1>0, <1>1 DEF CodegenInv, ShellKept
<1>3. DOMAIN files' = FileNames /\ f \in files'[n] /\ \A m \in FileNames : files[m] \subseteq files'[m]
  BY <1>1, <1>2 DEF CodegenInv
<1>4. Grows
  <2>1. PICK file, there : file = <<"resource", n, f>> /\ there = (f \in files[n])
    OBVIOUS
  <2>2. Opens(file, there)
    BY <1>11, <2>1
  <2>3. \A m \in FileNames : \A g \in files[m] : file = <<"resource", m, g>> => there
    BY <2>1
  <2>4. \A m : file # <<"provider", m>>
    BY <2>1
  <2> QED BY <1>1, <1>3, <2>2, <2>3, <2>4, OpensGrows
<1>5. PICK c : /\ shell' = [shell EXCEPT ![s] = c] /\ DOMAIN c = ShellFields
               /\ c.at = "fillModule" /\ c.kind = shell[s].kind /\ c.name = shell[s].name
               /\ c.next = shell[s].next /\ c.todo = shell[s].todo
  BY <1>12, GoneOn
<1>6. Underway(n, shell[s].todo)'
  <2>1. PICK todo : todo = shell[s].todo
    OBVIOUS
  <2>2. Underway(n, todo)'
    BY <1>2, <1>4, <2>1, WrittenStays
  <2>3. c.todo = todo /\ shell'[s] = c
    BY <1>5, <2>1 DEF CodegenInv
  <2> QED BY <2>2, <2>3
<1>7. shell'[s].todo = c.todo
  BY <1>5 DEF CodegenInv
<1>8. ShellKept(c)'
  BY <1>0, <1>2, <1>3, <1>5, <1>6, <1>7 DEF ShellKept
<1>9. sources' = sources /\ reported' = reported
  BY <1>11 DEF Opens
<1>10. SourcesKept'
  BY <1>4, <1>9, SourcesStay DEF CodegenInv
<1> QED BY <1>4, <1>5, <1>8, <1>9, <1>10, CommandStep

LEMMA FillModuleFileKeeps ==
    ASSUME CodegenInv, NEW s \in Shells, FillModuleFile(s)
    PROVE  CodegenInv'
<1>0. PICK n, f : n = shell[s].name /\ f = Head(shell[s].todo)
  OBVIOUS
<1>1. /\ shell[s].at = "fillModule" /\ Fills(<<"resource", n, f>>) /\ NextModuleFile(s)
      /\ UNCHANGED <<sources, files, reported>>
  BY <1>0 DEF FillModuleFile, ModuleFile, Fills
<1>2. Grows /\ Whole(<<"resource", n, f>>)'
  BY <1>1, FillsGrows
<1>3. FileWritten(n, f)'
  BY <1>0, <1>1, <1>2 DEF CodegenInv, ShellKept, FileWritten
<1> QED BY <1>0, <1>1, <1>2, <1>3, NextModuleFileKeeps

\* What a command that succeeds reports is there
LEMMA ReportKept ==
    ASSUME Grows, NEW kind, NEW name,
           \/ kind \in {"resource", "provider", "prisma-pg"} /\ Present(kind, name)
           \/ kind \in Integrations /\ name = kind /\ <<"integration", kind>> \in granular'
           \/ kind \in Schematics \ {"resource"} /\ <<kind, name>> \in granular'
    PROVE  ReportedKept(<<kind, name>>)'
<1>1. PICK r : r = <<kind, name>>
  OBVIOUS
<1>2. r[1] = kind /\ r[2] = name
  BY <1>1
<1>3. granular \subseteq granular' /\ \A n \in FileNames : Wanted \subseteq files[n] => Wanted' \subseteq files'[n]
  BY DEF Grows, Wanted
<1>4. ReportedKept(r)'
  <2>1. CASE kind \in {"resource", "provider", "prisma-pg"} /\ Present(kind, name)
    BY <1>1, <1>2, <1>3, <2>1 DEF ReportedKept, Present, Written, Granted, Schematics, Integrations
  <2>2. CASE kind \in Integrations /\ name = kind /\ <<"integration", kind>> \in granular'
    BY <1>1, <1>2, <2>2 DEF ReportedKept, Schematics, Integrations
  <2>3. CASE kind \in Schematics \ {"resource"} /\ <<kind, name>> \in granular'
    BY <1>1, <1>2, <2>3 DEF ReportedKept, Schematics, Integrations
  <2> QED BY <2>1, <2>2, <2>3
<1> QED BY <1>1, <1>4

LEMMA EnsureDirKeeps ==
    ASSUME CodegenInv, NEW s \in Shells, EnsureDir(s)
    PROVE  CodegenInv'
<1>1. /\ shell[s].at = "dir" /\ (Ends(s) \/ Go(s, "file"))
      /\ UNCHANGED <<installed, files, granular, hollow, sources, reported, removed, overlaid>>
  BY DEF EnsureDir, history, project
<1>2. Grows
  BY <1>1, FilesStay
<1>3. CASE Ends(s)
  BY <1>1, <1>2, <1>3, EndsKeeps
<1>4. CASE Go(s, "file")
  <2>1. PICK c : /\ shell' = [shell EXCEPT ![s] = c] /\ DOMAIN c = ShellFields
                 /\ c.at = "file" /\ c.kind = shell[s].kind /\ c.name = shell[s].name
    BY <1>4, GoneOn
  <2>2. ShellKept(c)
    BY <1>1, <2>1 DEF CodegenInv, ShellKept
  <2>3. ShellKept(c)' /\ SourcesKept'
    BY <1>1, <1>2, <2>2, ShellStays, SourcesStay DEF CodegenInv
  <2> QED BY <1>1, <1>2, <2>1, <2>3, CommandStep
<1> QED BY <1>1, <1>3, <1>4

\* Truncating the one file of a schematic, or of an integration
LEMMA OpenGranularKeeps ==
    ASSUME CodegenInv, NEW s \in Shells, OpenGranular(s)
    PROVE  CodegenInv'
<1>0. PICK g, at : /\ g = Granule(shell[s])
                   /\ at = CASE shell[s].at = "file" -> "fillFile"
                             [] shell[s].at = "provider" -> "fillProvider"
                             [] shell[s].at = "schema" -> "fillSchema"
  OBVIOUS
<1>1. shell[s].at \in {"file", "provider", "schema"} /\ granular' = granular \cup {g} /\ files' = files
  BY <1>0 DEF OpenGranular
<1>2. Opens(g, g \in granular)
  BY <1>0 DEF OpenGranular
<1>3. Go(s, at)
  BY <1>0 DEF OpenGranular
<1>4. PICK there : there = (g \in granular)
  OBVIOUS
<1>5. Opens(g, there) /\ UNCHANGED <<sources, reported>>
  BY <1>2, <1>4 DEF Opens
<1>6. ShellKept(shell[s])
  BY DEF CodegenInv
<1>7. \A n, f : g # <<"resource", n, f>>
  <2>1. \/ g = <<shell[s].kind, shell[s].name>> /\ shell[s].kind # "resource"
        \/ g = <<"integration", shell[s].kind>> \/ g = <<"schema", shell[s].kind>>
    BY <1>0, <1>1, <1>6 DEF Granule, ShellKept
  <2>2. g[1] # "resource"
    BY <2>1
  <2> QED BY <2>2
<1>8. Grows
  <2>1. granular \subseteq granular' /\ DOMAIN files' = FileNames /\ \A n \in FileNames : files[n] \subseteq files'[n]
    BY <1>1 DEF CodegenInv
  <2>2. \A n \in FileNames : \A f \in files[n] : g = <<"resource", n, f>> => there
    BY <1>7
  <2>3. \A n : <<"provider", n>> \in granular /\ g = <<"provider", n>> => there
    BY <1>4
  <2> QED BY <1>5, <2>1, <2>2, <2>3, OpensGrows
<1>9. PICK c : /\ shell' = [shell EXCEPT ![s] = c] /\ DOMAIN c = ShellFields
               /\ c.at = at /\ c.kind = shell[s].kind /\ c.name = shell[s].name
  <2>1. \E c : /\ shell' = [shell EXCEPT ![s] = c] /\ DOMAIN c = ShellFields
               /\ c.at = at /\ c.kind = shell[s].kind /\ c.name = shell[s].name
               /\ c.next = shell[s].next /\ c.todo = shell[s].todo
    BY <1>3, GoneOn
  <2> QED BY <2>1
<1>10. \/ shell[s].at = "file" /\ at = "fillFile"
       \/ shell[s].at = "provider" /\ at = "fillProvider"
       \/ shell[s].at = "schema" /\ at = "fillSchema"
  BY <1>0, <1>1
<1>11. Granule(c) = g
  BY <1>0, <1>9, <1>10 DEF Granule
<1>12. Granule(c) \in granular'
  BY <1>1, <1>11
<1>13. c.at = "fillSchema" => Present(c.kind, c.name)'
  <2>1. PICK kind, name : kind = c.kind /\ name = c.name
    OBVIOUS
  <2>2. c.at = "fillSchema" => Present(kind, name)
    BY <1>6, <1>9, <1>10, <2>1 DEF ShellKept
  <2>3. c.at = "fillSchema" => Present(kind, name)'
    BY <1>8, <2>2, PresentStays
  <2> QED BY <2>1, <2>3
<1>14. ShellKept(c)'
  BY <1>6, <1>9, <1>10, <1>12, <1>13 DEF ShellKept, Granule
<1>15. SourcesKept'
  BY <1>5, <1>8, SourcesStay DEF CodegenInv
<1> QED BY <1>5, <1>8, <1>9, <1>14, <1>15, CommandStep

LEMMA FillGranularKeeps ==
    ASSUME CodegenInv, NEW s \in Shells, FillGranular(s)
    PROVE  CodegenInv'
<1>0. PICK g, kind, name : g = Granule(shell[s]) /\ kind = shell[s].kind /\ name = shell[s].name
  OBVIOUS
<1>1. /\ shell[s].at \in {"fillFile", "fillProvider", "fillSchema"} /\ Fills(g)
      /\ \/ Ends(s) /\ reported' = reported \cup {<<kind, name>>} /\ shell[s].at # "fillSchema"
         \/ /\ reported' = reported
            /\ \/ shell[s].at = "fillFile" /\ kind = "provider" /\ Go(s, "read")
               \/ shell[s].at = "fillProvider" /\ kind = "prisma-pg" /\ Go(s, "schema")
               \/ shell[s].at = "fillSchema" /\ Go(s, "scripts")
  <2>1. CASE shell[s].at = "fillFile" /\ kind = "provider"
    BY <1>0, <2>1 DEF FillGranular, None
  <2>2. CASE shell[s].at = "fillProvider" /\ kind = "prisma-pg"
    BY <1>0, <2>2 DEF FillGranular, None
  <2>3. CASE shell[s].at = "fillSchema"
    BY <1>0, <2>3 DEF FillGranular, None
  <2>4. CASE \/ shell[s].at = "fillFile" /\ kind # "provider"
             \/ shell[s].at = "fillProvider" /\ kind # "prisma-pg"
    BY <1>0, <2>4 DEF FillGranular, Succeeds, None
  <2> QED BY <2>1, <2>2, <2>3, <2>4 DEF FillGranular
<1>2. Grows /\ Whole(g)'
  BY <1>1, FillsGrows
<1>3. sources' = sources /\ granular' = granular
  BY <1>1 DEF Fills
<1>4. ShellKept(shell[s])
  BY DEF CodegenInv
<1>5. /\ g \in granular'
      /\ shell[s].at = "fillFile" => g = <<kind, name>> /\ kind \in Schematics \ {"resource"} /\ name \in FileNames
      /\ shell[s].at = "fillProvider" =>
            g = <<"integration", kind>> /\ kind \in Integrations /\ name = kind
      /\ shell[s].at = "fillSchema" => kind = "prisma-pg" /\ name = kind /\ Present(kind, name)
  BY <1>0, <1>1, <1>3, <1>4 DEF ShellKept, Granule
<1>6. CASE Ends(s) /\ reported' = reported \cup {<<kind, name>>} /\ shell[s].at # "fillSchema"
  <2>1. \/ kind \in Schematics \ {"resource"} /\ <<kind, name>> \in granular'
        \/ kind \in Integrations /\ name = kind /\ <<"integration", kind>> \in granular'
    BY <1>1, <1>5, <1>6
  <2>2. ReportedKept(<<kind, name>>)'
    BY <1>2, <2>1, ReportKept
  <2>3. \A r \in reported' \ reported : r = <<kind, name>>
    BY <1>6
  <2> QED BY <1>2, <1>3, <1>6, <2>2, <2>3, EndsKeeps
<1>7. ASSUME NEW at \in {"read", "schema", "scripts"}, Go(s, at), reported' = reported,
             \/ at = "read" /\ shell[s].at = "fillFile" /\ kind = "provider"
             \/ at = "schema" /\ shell[s].at = "fillProvider" /\ kind = "prisma-pg"
             \/ at = "scripts" /\ shell[s].at = "fillSchema"
      PROVE  CodegenInv'
  <2>1. PICK c : /\ shell' = [shell EXCEPT ![s] = c] /\ DOMAIN c = ShellFields
                 /\ c.at = at /\ c.kind = kind /\ c.name = name
    <3>1. \E c : /\ shell' = [shell EXCEPT ![s] = c] /\ DOMAIN c = ShellFields
                 /\ c.at = at /\ c.kind = shell[s].kind /\ c.name = shell[s].name
                 /\ c.next = shell[s].next /\ c.todo = shell[s].todo
      BY <1>7, GoneOn
    <3> QED BY <1>0, <3>1
  <2>2. Present(kind, name)'
    <3>1. CASE at = "read"
      BY <3>1, <1>2, <1>5, <1>7 DEF Present, Granted
    <3>2. CASE at = "schema"
      BY <3>2, <1>5, <1>7 DEF Present
    <3>3. CASE at = "scripts"
      BY <3>3, <1>2, <1>5, <1>7, PresentStays
    <3> QED BY <3>1, <3>2, <3>3
  <2>3. ShellKept(c)'
    BY <1>5, <1>7, <2>1, <2>2 DEF ShellKept, Integrations
  <2>4. SourcesKept'
    BY <1>2, <1>3, SourcesStay DEF CodegenInv
  <2> QED BY <1>2, <1>7, <2>1, <2>3, <2>4, CommandStep
<1> QED BY <1>1, <1>6, <1>7

\* Appending a name that is not in a list without repetitions leaves none
LEMMA AppendStaysInjective ==
    ASSUME NEW S, NEW l \in Seq(S), IsInjective(l), NEW x \in S, x \notin ToSet(l), NEW m \in Seq(S),
           DOMAIN m = 1 .. Len(l) + 1, m[Len(l) + 1] = x, \A i \in 1 .. Len(l) : m[i] = l[i]
    PROVE  IsInjective(m) /\ ToSet(m) = ToSet(l) \cup {x}
<1>1. /\ DOMAIN m = 1 .. Len(l) + 1 /\ DOMAIN l = 1 .. Len(l) /\ Len(l) \in Nat
      /\ m[Len(l) + 1] = x /\ \A i \in 1 .. Len(l) : m[i] = l[i]
  OBVIOUS
<1>2. \A i \in DOMAIN m : i \in DOMAIN l \/ i = Len(l) + 1
  BY <1>1
<1>3. \A i \in DOMAIN l : l[i] # x
  BY DEF ToSet
<1>4. IsInjective(m)
  BY <1>1, <1>2, <1>3 DEF IsInjective
<1>5. ToSet(m) = ToSet(l) \cup {x}
  <2>1. \A i \in DOMAIN l : i \in DOMAIN m /\ m[i] = l[i]
    BY <1>1
  <2>2. Len(l) + 1 \in DOMAIN m
    BY <1>1
  <2>3. \A i \in DOMAIN m : m[i] \in ToSet(l) \cup {x}
    BY <1>1, <1>2 DEF ToSet
  <2>4. ToSet(l) \subseteq ToSet(m)
    BY <2>1 DEF ToSet
  <2>5. x \in ToSet(m)
    BY <1>1, <2>2 DEF ToSet
  <2>6. ToSet(m) \subseteq ToSet(l) \cup {x}
    BY <2>3 DEF ToSet
  <2> QED BY <2>4, <2>5, <2>6
<1> QED BY <1>4, <1>5

\* An edit leaves a source that is good, with one name more
LEMMA WiredIsGood ==
    ASSUME NEW kind, NEW c, GoodSource(kind, c), NEW n \in FileNames, Registered(kind, n), ~Includes(c, n)
    PROVE  GoodSource(kind, Wired(kind, c, n))
<1>1. n \notin ToSet(c.calls)
  BY DEF Includes
<1>2. PICK k, l, w : k = c.calls /\ l = Append(k, n) /\ w = Wired(kind, c, n)
  OBVIOUS
<1>3. /\ DOMAIN c = SourceFields /\ k \in Seq(FileNames) /\ n \notin ToSet(k)
      /\ <<Target(kind)>> \in overlaid \/ IsInjective(k)
      /\ \A m \in ToSet(k) : Registered(kind, m)
  BY <1>1, <1>2 DEF GoodSource
<1>4. DOMAIN w = SourceFields /\ (w.calls = l \/ w.calls = k)
  <2>1. CASE w = [c EXCEPT !.calls = Append(@, n)]
    BY <2>1, <1>2, <1>3 DEF SourceFields
  <2>2. CASE w = [c EXCEPT !.notes = @ \cup {n}]
    BY <2>2, <1>2, <1>3 DEF SourceFields
  <2> QED BY <1>2, <2>1, <2>2 DEF Wired, RegisterModule, RegisterProvider
<1>5. /\ l \in Seq(FileNames) /\ DOMAIN l = 1 .. Len(k) + 1
      /\ l[Len(k) + 1] = n /\ \A i \in 1 .. Len(k) : l[i] = k[i]
  BY <1>2, <1>3
<1>6. IsInjective(k) => IsInjective(l)
  BY <1>3, <1>5, AppendStaysInjective
<1>7. ASSUME NEW m \in ToSet(l) PROVE m \in ToSet(k) \/ m = n
  <2>1. DOMAIN k = 1 .. Len(k) /\ Len(k) \in Nat
    BY <1>3
  <2>2. PICK i \in DOMAIN l : m = l[i]
    BY <1>7 DEF ToSet
  <2>3. CASE i = Len(k) + 1
    BY <2>2, <2>3, <1>5
  <2>4. CASE i # Len(k) + 1
    <3>1. i \in DOMAIN k /\ m = k[i]
      BY <2>1, <2>2, <2>4, <1>5
    <3> QED BY <3>1 DEF ToSet
  <2> QED BY <2>3, <2>4
<1>8. GoodSource(kind, w)
  BY <1>3, <1>4, <1>5, <1>6, <1>7 DEF GoodSource
<1> QED BY <1>2, <1>8

LEMMA TargetOf ==
    ASSUME NEW kind
    PROVE  /\ kind = "resource" => Target(kind) = "app"
           /\ kind = "provider" => Target(kind) = "main"
           /\ kind \notin {"resource", "provider"} => Target(kind) = "package"
BY DEF Target

LEMMA ReadSourceKeeps ==
    ASSUME CodegenInv, NEW s \in Shells, ReadSource(s)
    PROVE  CodegenInv'
<1>0. PICK k, n, c : k = shell[s].kind /\ n = shell[s].name /\ c = sources[Target(k)]
  OBVIOUS
<1>1. /\ shell[s].at = "read"
      /\ UNCHANGED <<installed, files, granular, hollow, sources, removed, overlaid>>
      /\ \/ Ends(s) /\ reported' = reported
         \/ Ends(s) /\ reported' = reported \cup {<<k, n>>}
         \/ /\ ~Includes(c, n)
            /\ shell' = [shell EXCEPT ![s].at = "truncate", ![s].next = Wired(k, c, n)]
            /\ reported' = reported
  BY <1>0 DEF ReadSource, Succeeds, project
<1>2. Grows
  BY <1>1, FilesStay
<1>3. /\ DOMAIN shell[s] = ShellFields /\ s \in DOMAIN shell
      /\ k \in {"resource", "provider"} /\ Present(k, n)
  BY <1>0, <1>1 DEF CodegenInv, ShellKept
<1>4. CASE Ends(s) /\ reported' = reported
  BY <1>1, <1>2, <1>4, EndsKeeps
<1>5. CASE Ends(s) /\ reported' = reported \cup {<<k, n>>}
  <2>1. ReportedKept(<<k, n>>)'
    BY <1>2, <1>3, ReportKept
  <2>2. \A r \in reported' \ reported : r = <<k, n>>
    BY <1>5
  <2> QED BY <1>1, <1>2, <1>5, <2>1, <2>2, EndsKeeps
<1>6. CASE /\ ~Includes(c, n)
           /\ shell' = [shell EXCEPT ![s].at = "truncate", ![s].next = Wired(k, c, n)]
           /\ reported' = reported
  <2>1. PICK d : d = [shell[s] EXCEPT !.at = "truncate"]
    OBVIOUS
  <2>2. PICK e : e = [d EXCEPT !.next = Wired(k, c, n)]
    OBVIOUS
  <2>3. DOMAIN d = ShellFields /\ d.at = "truncate" /\ d.kind = k /\ d.name = n
    BY <1>0, <1>3, <2>1 DEF ShellFields
  <2>4. DOMAIN e = ShellFields /\ e.at = "truncate" /\ e.kind = k /\ e.name = n /\ e.next = Wired(k, c, n)
    BY <2>2, <2>3 DEF ShellFields
  <2>5. shell' = [shell EXCEPT ![s] = e]
    BY <1>3, <1>6, <2>1, <2>2
  <2>6. GoodSource(k, c) /\ n \in FileNames /\ Registered(k, n)
    BY <1>0, <1>3, TargetOf DEF CodegenInv, SourcesKept, Present, Registered
  <2>7. GoodSource(k, Wired(k, c, n))
    BY <1>6, <2>6, WiredIsGood
  <2>8. ShellKept(e)
    BY <1>3, <2>4, <2>7 DEF ShellKept
  <2>9. ShellKept(e)' /\ SourcesKept'
    BY <1>1, <1>2, <2>8, ShellStays, SourcesStay DEF CodegenInv
  <2> QED BY <1>2, <1>6, <2>5, <2>9, CommandStep
<1> QED BY <1>1, <1>4, <1>5, <1>6

\* One file is given a content that is good for it
LEMMA SourceWritten ==
    ASSUME SourcesKept, Grows, NEW f \in {"app", "main", "package"}, NEW c, sources' = [sources EXCEPT ![f] = c],
           f = "app" => GoodSource("resource", c),
           f = "main" => GoodSource("provider", c),
           f = "package" => DOMAIN c = PackageFields
    PROVE  SourcesKept'
<1>1. /\ DOMAIN sources' = {"app", "main", "package"} /\ sources'[f] = c
      /\ \A g \in {"app", "main", "package"} \ {f} : sources'[g] = sources[g]
  BY DEF SourcesKept
<1>2. /\ GoodSource("resource", sources.app)' \/ f = "app"
      /\ GoodSource("provider", sources.main)' \/ f = "main"
  BY <1>1, GoodStays DEF SourcesKept
<1>3. \A kind : GoodSource(kind, c) => GoodSource(kind, c)'
  BY GoodStays
<1>4. f = "app" => GoodSource("resource", sources.app)'
  BY <1>1, <1>3
<1>5. f = "main" => GoodSource("provider", sources.main)'
  BY <1>1, <1>3
<1>6. DOMAIN sources'.package = PackageFields
  BY <1>1 DEF SourcesKept
<1> QED BY <1>1, <1>2, <1>4, <1>5, <1>6 DEF SourcesKept

\* The point of wiring one comes to after another, with the same text to write
LEMMA GoneOnWriting ==
    ASSUME CodegenInv, NEW s \in Shells, shell[s].at = "truncate", Go(s, "fill"), Grows
    PROVE  \E c : shell' = [shell EXCEPT ![s] = c] /\ ShellKept(c)'
<1>1. PICK c : /\ shell' = [shell EXCEPT ![s] = c] /\ DOMAIN c = ShellFields
               /\ c.at = "fill" /\ c.kind = shell[s].kind /\ c.name = shell[s].name
               /\ c.next = shell[s].next
  BY GoneOn
<1>2. ShellKept(c)
  BY <1>1 DEF CodegenInv, ShellKept
<1> QED BY <1>1, <1>2, ShellStays

LEMMA TruncateKeeps ==
    ASSUME CodegenInv, NEW s \in Shells, Truncate(s)
    PROVE  CodegenInv'
<1>0. PICK f : f = Target(shell[s].kind)
  OBVIOUS
<1>1. /\ shell[s].at = "truncate" /\ Go(s, "fill")
      /\ sources' = [sources EXCEPT ![f] = Cut(f)]
      /\ UNCHANGED <<installed, files, granular, hollow, reported, removed, overlaid>>
  BY <1>0 DEF Truncate, history
<1>2. Grows
  BY <1>1, FilesStay
<1>3. PICK c : shell' = [shell EXCEPT ![s] = c] /\ ShellKept(c)'
  BY <1>1, <1>2, GoneOnWriting
<1>4. f \in {"app", "main", "package"}
  BY <1>0 DEF Target
<1>5. /\ f # "package" => \A kind : GoodSource(kind, Cut(f))
      /\ f = "package" => DOMAIN Cut(f) = PackageFields
  BY BareSources, EmptySourceIsGood DEF Cut, PackageFields
<1>6. SourcesKept'
  <2>1. PICK e : e = Cut(f)
    OBVIOUS
  <2>2. sources' = [sources EXCEPT ![f] = e] /\ SourcesKept
    BY <1>1, <2>1 DEF CodegenInv
  <2>3. /\ f = "app" => GoodSource("resource", e)
        /\ f = "main" => GoodSource("provider", e)
        /\ f = "package" => DOMAIN e = PackageFields
    BY <1>4, <1>5, <2>1
  <2> QED BY <1>2, <1>4, <2>2, <2>3, SourceWritten
<1> QED BY <1>1, <1>2, <1>3, <1>6, CommandStep

\* A list and what is left of another: what is on it was on one of them
LEMMA TailBehind ==
    ASSUME NEW S, NEW l \in Seq(S), NEW m \in Seq(S), NEW from \in 1 .. Len(m) + 1, NEW k,
           k = l \o SubSeq(m, from, Len(m))
    PROVE  k \in Seq(S) /\ ToSet(k) \subseteq ToSet(l) \cup ToSet(m)
<1>1. PICK t : t = SubSeq(m, from, Len(m))
  OBVIOUS
<1>2. t \in Seq(S) /\ \A i \in DOMAIN t : \E j \in DOMAIN m : t[i] = m[j]
  <2>1. t \in Seq(S) /\ Len(t) = Len(m) - from + 1 /\ \A i \in 1 .. Len(t) : t[i] = m[from + i - 1]
    BY <1>1
  <2>2. \A i \in DOMAIN t : from + i - 1 \in DOMAIN m /\ t[i] = m[from + i - 1]
    BY <2>1
  <2> QED BY <2>1, <2>2
<1>3. k \in Seq(S) /\ Len(k) = Len(l) + Len(t)
      /\ \A i \in 1 .. Len(k) : k[i] = IF i <= Len(l) THEN l[i] ELSE t[i - Len(l)]
  BY <1>1, <1>2
<1>4. ASSUME NEW x \in ToSet(k) PROVE x \in ToSet(l) \cup ToSet(m)
  <2>1. PICK i \in DOMAIN k : x = k[i]
    BY <1>4 DEF ToSet
  <2>2. CASE i <= Len(l)
    <3>1. i \in DOMAIN l /\ x = l[i]
      BY <2>1, <2>2, <1>3
    <3> QED BY <3>1 DEF ToSet
  <2>3. CASE ~(i <= Len(l))
    <3>0. i \in 1 .. Len(k)
      BY <2>1, <1>3
    <3>1. /\ i \in 1 .. Len(l) + Len(t) /\ Len(l) \in Nat /\ Len(t) \in Nat
          /\ DOMAIN t = 1 .. Len(t) /\ x = t[i - Len(l)]
      <4>1. k[i] = t[i - Len(l)]
        BY <2>3, <3>0, <1>3
      <4> QED BY <2>1, <3>0, <4>1, <1>2, <1>3
    <3>3. i - Len(l) \in DOMAIN t
      BY <3>1, <2>3
    <3>2. PICK j \in DOMAIN m : x = m[j]
      BY <3>1, <3>3, <1>2
    <3> QED BY <3>2 DEF ToSet
  <2> QED BY <2>2, <2>3
<1> QED BY <1>3, <1>4

LEMMA OverlayIsGood ==
    ASSUME NEW kind \in {"resource", "provider"}, NEW next, GoodSource(kind, next),
           NEW old, GoodSource(kind, old), NEW c \in Overlays(Target(kind), next, old),
           Grows, <<Target(kind)>> \in overlaid'
    PROVE  GoodSource(kind, c)'
<1>1. CASE c = next
  BY <1>1, GoodStays
<1>2. CASE c # next
  <2>0. Target(kind) # "package"
    BY TargetOf
  <2>9. c \in Overlays(Target(kind), next, old) \ {next}
    BY <1>2
  <2>1. PICK texts, calls, notes :
            /\ c \in [text : texts, calls : calls, notes : notes]
            /\ calls = {next.calls \o SubSeq(old.calls, i, Len(old.calls)) : i \in 1 .. Len(old.calls) + 1}
    BY <2>0, <2>9 DEF Overlays
  <2>2. DOMAIN c = SourceFields /\ c.calls \in calls
    BY <2>1 DEF SourceFields
  <2>10. PICK from \in 1 .. Len(old.calls) + 1 : c.calls = next.calls \o SubSeq(old.calls, from, Len(old.calls))
    BY <2>1, <2>2
  <2>3. PICK l, m : l = next.calls /\ m = old.calls
    OBVIOUS
  <2>4. l \in Seq(FileNames) /\ m \in Seq(FileNames)
        /\ \A n \in ToSet(l) \cup ToSet(m) : n \in FileNames /\ Registered(kind, n)
    BY <2>3 DEF GoodSource, ToSet
  <2>5. from \in 1 .. Len(m) + 1 /\ c.calls = l \o SubSeq(m, from, Len(m))
    BY <2>10, <2>3
  <2>6. c.calls \in Seq(FileNames) /\ ToSet(c.calls) \subseteq ToSet(l) \cup ToSet(m)
    BY <2>4, <2>5, TailBehind
  <2>7. \A n \in FileNames : Registered(kind, n) => Registered(kind, n)'
    BY WrittenStays DEF Registered, Grows
  <2>8. \A n \in ToSet(c.calls) : Registered(kind, n)'
    BY <2>4, <2>6, <2>7
  <2> QED BY <2>2, <2>6, <2>8 DEF GoodSource
<1> QED BY <1>1, <1>2

LEMMA FillKeeps ==
    ASSUME CodegenInv, NEW s \in Shells, Fill(s)
    PROVE  CodegenInv'
<1>0. PICK k, n, f, next : k = shell[s].kind /\ n = shell[s].name /\ f = Target(k) /\ next = shell[s].next
  OBVIOUS
<1>1. /\ shell[s].at = "fill" /\ Ends(s) /\ reported' = reported \cup {<<k, n>>}
      /\ UNCHANGED <<installed, files, granular, hollow, removed>> /\ overlaid \subseteq overlaid'
  BY <1>0 DEF Fill, Succeeds
<1>2. PICK e : /\ sources' = [sources EXCEPT ![f] = e]
               /\ e = next \/ (e \in Overlays(f, next, sources[f]) /\ <<f>> \in overlaid')
  <2>1. CASE sources[f] \in {Cut(f), next}
    BY <2>1, <1>0 DEF Fill
  <2>2. CASE sources[f] \notin {Cut(f), next}
    BY <2>2, <1>0 DEF Fill
  <2> QED BY <2>1, <2>2
<1>3. Grows
  BY <1>1, FilesRest
<1>4. /\ k \in {"resource", "provider", "prisma-pg"} /\ Present(k, n)
      /\ k \in {"resource", "provider"} => GoodSource(k, next)
      /\ k = "prisma-pg" => DOMAIN next = PackageFields
  BY <1>0, <1>1 DEF CodegenInv, ShellKept
<1>5. k \in {"resource", "provider"} => GoodSource(k, sources[f])
  BY <1>0, TargetOf DEF CodegenInv, SourcesKept
<1>6. f \in {"app", "main", "package"}
  BY <1>0 DEF Target
<1>7. k \in {"resource", "provider"} => GoodSource(k, e)'
  <2>1. PICK old : old = sources[f]
    OBVIOUS
  <2>2. CASE k \in {"resource", "provider"} /\ e = next
    BY <2>2, <1>3, <1>4, GoodStays
  <2>3. CASE k \in {"resource", "provider"} /\ e \in Overlays(f, next, sources[f]) /\ <<f>> \in overlaid'
    <3>1. GoodSource(k, next) /\ GoodSource(k, old) /\ e \in Overlays(Target(k), next, old)
          /\ <<Target(k)>> \in overlaid'
      BY <1>0, <1>4, <1>5, <2>1, <2>3
    <3> QED BY <1>3, <2>3, <3>1, OverlayIsGood
  <2> QED BY <1>2, <2>2, <2>3
<1>8. k = "prisma-pg" => DOMAIN e = PackageFields
  <2>1. ASSUME k = "prisma-pg" PROVE e = next \/ e = Cut("package")
    <3>1. f = "package"
      BY <1>0, <2>1, TargetOf
    <3>2. \A old : Overlays("package", next, old) = {next} \cup {Cut("package")}
      BY DEF Overlays
    <3> QED BY <1>2, <3>1, <3>2
  <2> QED BY <2>1, <1>4 DEF Cut, PackageFields
<1>9. SourcesKept'
  <2>1. /\ DOMAIN sources' = {"app", "main", "package"} /\ sources'[f] = e
        /\ \A g \in {"app", "main", "package"} \ {f} : sources'[g] = sources[g]
    BY <1>2, <1>6 DEF CodegenInv, SourcesKept
  <2>2. /\ f = "app" => k = "resource"
        /\ f = "main" => k = "provider"
        /\ f = "package" => k = "prisma-pg"
    BY <1>0, <1>4, TargetOf
  <2>3. GoodSource("resource", sources.app)' /\ GoodSource("provider", sources.main)'
    <3>1. PICK a, m : a = sources.app /\ m = sources.main
      OBVIOUS
    <3>2. GoodSource("resource", a)' /\ GoodSource("provider", m)'
      BY <1>3, <3>1, GoodStays DEF CodegenInv, SourcesKept
    <3>3. f = "app" => GoodSource("resource", e)' /\ sources'.app = e
      BY <1>7, <2>1, <2>2
    <3>4. f = "main" => GoodSource("provider", e)' /\ sources'.main = e
      BY <1>7, <2>1, <2>2
    <3>5. f # "app" => sources'.app = a
      BY <2>1, <3>1
    <3>6. f # "main" => sources'.main = m
      BY <2>1, <3>1
    <3> QED BY <3>2, <3>3, <3>4, <3>5, <3>6
  <2>4. DOMAIN sources'.package = PackageFields
    BY <1>6, <1>8, <2>1, <2>2 DEF CodegenInv, SourcesKept
  <2> QED BY <2>1, <2>3, <2>4 DEF SourcesKept
<1>10. shell' = [shell EXCEPT ![s] = NoShell] /\ ShellKept(NoShell)'
  BY <1>1, <1>3, IdleIsKept, ShellStays DEF Ends
<1>11. \A r \in reported' \ reported : ReportedKept(r)'
  <2>1. ReportedKept(<<k, n>>)'
    BY <1>3, <1>4, ReportKept
  <2>2. \A r \in reported' \ reported : r = <<k, n>>
    BY <1>1
  <2> QED BY <2>1, <2>2
<1> QED BY <1>3, <1>9, <1>10, <1>11, CommandStep

LEMMA InstallKeeps ==
    ASSUME CodegenInv, NEW s \in Shells, InstallDeps(s) \/ InstallDevDeps(s)
    PROVE  CodegenInv'
<1>1. PICK deps, next :
        /\ Install(s, deps, next) /\ shell[s].at \in {"install", "install -D"}
        /\ next = "install -D" \/ next = "provider"
  BY DEF InstallDeps, InstallDevDeps
<1>2. UNCHANGED <<installed, files, granular, hollow, reported, removed, overlaid>>
  BY <1>1 DEF Install, history
<1>3. Grows
  BY <1>2, FilesStay
<1>4. CASE Ends(s) /\ sources' = sources
  BY <1>2, <1>3, <1>4, EndsKeeps
<1>5. SUFFICES ASSUME Go(s, next), sources' = [sources EXCEPT !["package"].deps = @ \cup deps]
                PROVE  CodegenInv'
  BY <1>1, <1>4 DEF Install
<1>6. PICK c : /\ shell' = [shell EXCEPT ![s] = c] /\ DOMAIN c = ShellFields
               /\ c.at = next /\ c.kind = shell[s].kind /\ c.name = shell[s].name
  <2>1. \E c : /\ shell' = [shell EXCEPT ![s] = c] /\ DOMAIN c = ShellFields
               /\ c.at = next /\ c.kind = shell[s].kind /\ c.name = shell[s].name
               /\ c.next = shell[s].next /\ c.todo = shell[s].todo
    BY <1>5, GoneOn
  <2> QED BY <2>1
<1>7. c.kind \in Integrations /\ c.name = c.kind
  BY <1>1, <1>6 DEF CodegenInv, ShellKept
<1>8. ShellKept(c)
  BY <1>1, <1>6, <1>7 DEF ShellKept
<1>9. PICK e : e = [sources.package EXCEPT !.deps = sources.package.deps \cup deps]
  OBVIOUS
<1>10. DOMAIN e = PackageFields
  BY <1>9 DEF CodegenInv, SourcesKept, PackageFields
<1>11. sources' = [sources EXCEPT !["package"] = e]
  BY <1>5, <1>9 DEF CodegenInv, SourcesKept, PackageFields
<1>12. SourcesKept'
  BY <1>3, <1>10, <1>11, SourceWritten DEF CodegenInv
<1>13. ShellKept(c)'
  BY <1>3, <1>8, ShellStays
<1> QED BY <1>2, <1>3, <1>6, <1>12, <1>13, CommandStep

LEMMA AddScriptsKeeps ==
    ASSUME CodegenInv, NEW s \in Shells, AddScripts(s)
    PROVE  CodegenInv'
<1>0. PICK e : e = [sources.package EXCEPT !.scripts = @ \cup DbScripts]
  OBVIOUS
<1>1. /\ shell[s].at = "scripts"
      /\ UNCHANGED <<installed, files, granular, hollow, sources, reported, removed, overlaid>>
      /\ \/ Ends(s)
         \/ shell' = [shell EXCEPT ![s].at = "truncate", ![s].next = e]
  BY <1>0 DEF AddScripts, history, project
<1>2. Grows
  BY <1>1, FilesStay
<1>3. DOMAIN e = PackageFields
  BY <1>0 DEF CodegenInv, SourcesKept, PackageFields
<1>4. CASE Ends(s)
  BY <1>1, <1>2, <1>4, EndsKeeps
<1>5. CASE shell' = [shell EXCEPT ![s].at = "truncate", ![s].next = e]
  <2>0. DOMAIN shell[s] = ShellFields /\ s \in DOMAIN shell
        /\ shell[s].kind = "prisma-pg" /\ Present(shell[s].kind, shell[s].name)
    BY <1>1 DEF CodegenInv, ShellKept
  <2>1. PICK d : d = [shell[s] EXCEPT !.at = "truncate"]
    OBVIOUS
  <2>2. PICK c : c = [d EXCEPT !.next = e]
    OBVIOUS
  <2>3. DOMAIN d = ShellFields /\ d.at = "truncate" /\ d.kind = shell[s].kind /\ d.name = shell[s].name
    BY <2>0, <2>1 DEF ShellFields
  <2>4. DOMAIN c = ShellFields /\ c.at = "truncate" /\ c.kind = shell[s].kind /\ c.name = shell[s].name
        /\ c.next = e
    BY <2>2, <2>3 DEF ShellFields
  <2>5. shell' = [shell EXCEPT ![s] = c]
    BY <2>0, <1>5, <2>1, <2>2
  <2>6. ShellKept(c)
    BY <1>3, <2>0, <2>4 DEF ShellKept
  <2>7. ShellKept(c)' /\ SourcesKept'
    BY <1>1, <1>2, <2>6, ShellStays, SourcesStay DEF CodegenInv
  <2> QED BY <1>1, <1>2, <2>5, <2>7, CommandStep
<1> QED BY <1>1, <1>4, <1>5

LEMMA StopsKeeps ==
    ASSUME CodegenInv, NEW s \in Shells, Stops(s)
    PROVE  CodegenInv'
<1>1. Ends(s) /\ UNCHANGED <<installed, files, granular, hollow, sources, reported, removed, overlaid>>
  BY DEF Stops, project
<1>2. Grows
  BY <1>1, FilesStay
<1> QED BY <1>1, <1>2, EndsKeeps

\* A module that is deleted is not one a command is at work on
LEMMA RemoveModuleKeeps ==
    ASSUME CodegenInv, NEW n \in FileNames, RemoveModule(n)
    PROVE  CodegenInv'
<1>1. /\ \A s \in Busy : shell[s].name # n
      /\ files' = [files EXCEPT ![n] = {}]
      /\ reported' = reported \ {<<"resource", n>>}
      /\ removed' = removed \cup {n}
      /\ hollow' \subseteq hollow
      /\ UNCHANGED <<installed, granular, sources, shell, overlaid>>
  BY DEF RemoveModule
<1>2. DOMAIN files' = FileNames /\ \A m \in FileNames \ {n} : files'[m] = files[m]
  BY <1>1 DEF CodegenInv
<1>3. \A id : Whole(id) => Whole(id)'
  BY <1>1 DEF Whole
<1>4. Wanted' = Wanted
  BY <1>1 DEF Wanted
<1>5. \A m \in FileNames \ {n} : (Written(m) => Written(m)') /\ \A todo : Underway(m, todo) => Underway(m, todo)'
  BY <1>2, <1>3, <1>4 DEF Written, Underway, FileWritten
<1>6. \A r : Granted(r) => Granted(r)'
  BY <1>1, <1>3 DEF Granted
<1>7. ASSUME NEW kind, NEW c, GoodSource(kind, c) PROVE GoodSource(kind, c)'
  <2>1. \A m \in ToSet(c.calls) : m \in FileNames
    BY <1>7 DEF GoodSource, ToSet
  <2>2. \A m \in FileNames : Registered(kind, m) => Registered(kind, m)'
    BY <1>1, <1>5, <1>6 DEF Registered
  <2> QED BY <1>1, <1>7, <2>1, <2>2 DEF GoodSource
<1>8. SourcesKept'
  BY <1>1, <1>7 DEF CodegenInv, SourcesKept
<1>9. ASSUME NEW s \in Shells PROVE ShellKept(shell[s])'
  <2>1. PICK c : c = shell[s]
    OBVIOUS
  <2>2. ShellKept(c) /\ shell'[s] = c
    BY <1>1, <2>1 DEF CodegenInv
  <2>3. c.at # "idle" => c.name # n
    BY <1>1, <2>1 DEF Busy
  <2>4. c.at \in {"read", "schema", "fillSchema", "scripts", "truncate", "fill"} => Present(c.kind, c.name)'
    BY <1>1, <1>5, <1>6, <2>2, <2>3 DEF ShellKept, Present
  <2>5. /\ c.at \in {"files", "fillModule"} => Underway(c.name, c.todo)'
        /\ c.at = "fillModule" => Head(c.todo) \in files'[c.name]
    BY <1>2, <1>5, <2>2, <2>3 DEF ShellKept
  <2>6. GoodSource(c.kind, c.next) => GoodSource(c.kind, c.next)'
    BY <1>7
  <2>7. ShellKept(c)'
    BY <1>1, <2>2, <2>4, <2>5, <2>6 DEF ShellKept, Granule
  <2> QED BY <2>2, <2>7
<1>10. ASSUME NEW r \in reported' PROVE ReportedKept(r)'
  <2>1. ReportedKept(r) /\ r # <<"resource", n>>
    BY <1>1 DEF CodegenInv
  <2>2. r[1] = "resource" => r[2] # n
    BY <2>1 DEF ReportedKept
  <2> QED BY <1>1, <1>2, <2>1, <2>2 DEF ReportedKept, Wanted
<1> QED BY <1>1, <1>2, <1>8, <1>9, <1>10 DEF CodegenInv

LEMMA CodegenStepInv == CodegenInv /\ [CodegenNext]_codegenVars => CodegenInv'
<1> SUFFICES ASSUME CodegenInv, [CodegenNext]_codegenVars PROVE CodegenInv'
  OBVIOUS
<1>1. ASSUME NEW s \in Shells, NEW a \in Args, Generate(s, a) \/ Add(s, a) PROVE CodegenInv'
  BY <1>1, GenerateKeeps, AddKeeps
<1>2. ASSUME NEW s \in Shells, EnsureDirs(s) \/ SkipModuleFile(s) \/ OpenModuleFile(s) \/ FillModuleFile(s)
      PROVE  CodegenInv'
  BY <1>2, EnsureDirsKeeps, SkipModuleFileKeeps, OpenModuleFileKeeps, FillModuleFileKeeps
<1>3. ASSUME NEW s \in Shells, EnsureDir(s) \/ OpenGranular(s) \/ FillGranular(s) PROVE CodegenInv'
  BY <1>3, EnsureDirKeeps, OpenGranularKeeps, FillGranularKeeps
<1>4. ASSUME NEW s \in Shells, ReadSource(s) \/ Truncate(s) \/ Fill(s) PROVE CodegenInv'
  BY <1>4, ReadSourceKeeps, TruncateKeeps, FillKeeps
<1>5. ASSUME NEW s \in Shells, InstallDeps(s) \/ InstallDevDeps(s) PROVE CodegenInv'
  BY <1>5, InstallKeeps
<1>6. ASSUME NEW s \in Shells, AddScripts(s) PROVE CodegenInv'
  BY <1>6, AddScriptsKeeps
<1>7. ASSUME NEW s \in Shells, Stops(s) PROVE CodegenInv'
  BY <1>7, StopsKeeps
<1>8. ASSUME NEW n \in FileNames, RemoveModule(n) PROVE CodegenInv'
  BY <1>8, RemoveModuleKeeps
<1>9. CASE UNCHANGED codegenVars
  BY <1>9, CodegenRests DEF codegenVars, project, history
<1> QED BY <1>1, <1>2, <1>3, <1>4, <1>5, <1>6, <1>7, <1>8, <1>9 DEF CodegenNext

\* Whatever is killed, fails or overlaps, app.ts and main.ts register only what
\* was written in full, or deleted by the user since; a file that is empty was
\* truncated by a second command, after the first had written it.
THEOREM WiredIsWrittenHolds == CodegenSpec => []WiredIsWritten
<1>1. CodegenInv => WiredIsWritten
  BY DEF CodegenInv, SourcesKept, GoodSource, Registered, Granted, WiredIsWritten
<1> QED BY <1>1, CodegenInitInv, CodegenStepInv, PTL DEF CodegenSpec

\* However often a module is deleted and generated again, and by however many
\* shells at once, it is registered at most once in a file that no two commands
\* wrote over one another.
THEOREM NeverTwiceHolds == CodegenSpec => []NeverTwice
<1>1. Target("resource") = "app" /\ Target("provider") = "main"
  BY TargetOf
<1>2. CodegenInv => NeverTwice
  BY <1>1 DEF CodegenInv, SourcesKept, GoodSource, NeverTwice
<1> QED BY <1>2, CodegenInitInv, CodegenStepInv, PTL DEF CodegenSpec

(***************************************************************************)
(* Commands one after the other lose nothing                               *)
(***************************************************************************)
HasInstalled(kind, c) ==
    /\ Deps(kind) \cup DevDeps(kind) \subseteq c.deps
    /\ kind = "prisma-pg" => DbScripts \subseteq c.scripts

\* The content c holds what a command of this kind is to leave in its file
Does(kind, n, c) ==
    /\ kind \in {"resource", "provider"} => Stands(Target(kind), c, <<kind, n>>)
    /\ kind \in Integrations => HasInstalled(kind, c)

\* The content c of the file f holds the user's text and all that was reported
Completed(f, c) ==
    /\ f \in {"app", "main"} /\ (f = "app" \/ c.text = "starts") => c.notes = {}
    /\ f = "app" => c.text = "plain" /\ \A r \in reported : r[1] = "resource" => Stands("app", c, r)
    /\ f = "main" => c.text # "cut" /\ \A r \in reported : r[1] = "provider" => Stands("main", c, r)
    /\ f = "package" => \A r \in reported : r[1] \in Integrations => HasInstalled(r[1], c)

\* What a shell in the state c has installed, and what it is about to write,
\* into a file that is empty then
Prepared(c) ==
    /\ c.at = "install -D" => Deps(c.kind) \subseteq sources.package.deps
    /\ c.at \in {"provider", "fillProvider", "schema", "fillSchema", "scripts"} =>
        Deps(c.kind) \cup DevDeps(c.kind) \subseteq sources.package.deps
    /\ c.at \in {"truncate", "fill"} =>
        Completed(Target(c.kind), c.next) /\ Does(c.kind, c.name, c.next)
    /\ c.at = "fill" => sources[Target(c.kind)] = Cut(Target(c.kind))

\* One command at a time: between its truncate and its fill the complete text
\* of a file is with the command, otherwise it is in the file
Calm ==
    undisturbed =>
        /\ \A s, t \in Shells : shell[s].at # "idle" /\ shell[t].at # "idle" => s = t
        /\ \A f \in {"app", "main", "package"} :
            (\A s \in Shells : ~(shell[s].at = "fill" /\ Target(shell[s].kind) = f)) => Completed(f, sources[f])
        /\ \A s \in Shells : Prepared(shell[s])

QuietPhases == {"idle", "dirs", "files", "fillModule", "dir", "file", "fillFile", "install", "read"}

LEMMA QuietIsPrepared == \A c : c.at \in QuietPhases => Prepared(c)
BY DEF Prepared, QuietPhases

LEMMA CalmInit == CodegenInit => Calm
<1> SUFFICES ASSUME CodegenInit PROVE Calm
  OBVIOUS
<1>1. reported = {} /\ \A s \in Shells : shell[s] = NoShell
  BY DEF CodegenInit
<1>2. PICK main \in Mains : sources = [app |-> Source("plain"), main |-> main, package |-> Package]
  BY DEF CodegenInit
<1>3. main.text # "cut" /\ Source("plain").text = "plain"
  BY MainsAssumption, BareSources
<1>7. main.notes = {} /\ Source("plain").notes = {}
  BY MainsAssumption DEF Source, NoFile
<1>4. Completed("app", sources.app) /\ Completed("main", sources.main) /\ Completed("package", sources.package)
  BY <1>1, <1>2, <1>3, <1>7 DEF Completed
<1>5. \A s \in Shells : shell[s].at = "idle"
  BY <1>1, IdleIsKept
<1>6. \A s \in Shells : Prepared(shell[s])
  BY <1>5, QuietIsPrepared DEF QuietPhases
<1> QED BY <1>4, <1>5, <1>6 DEF Calm

LEMMA StandsStays ==
    ASSUME overlooked \subseteq overlooked', NEW f, NEW c, NEW r, Stands(f, c, r)
    PROVE  Stands(f, c, r)'
BY DEF Stands

LEMMA DoesStays ==
    ASSUME overlooked \subseteq overlooked', NEW kind, NEW n, NEW c, Does(kind, n, c)
    PROVE  Does(kind, n, c)'
BY StandsStays DEF Does, HasInstalled

LEMMA CompletedGrows ==
    ASSUME NEW f \in {"app", "main", "package"}, NEW c, Completed(f, c), NEW kind, NEW n,
           overlooked \subseteq overlooked', reported' \subseteq reported \cup {<<kind, n>>},
           f = Target(kind) => Does(kind, n, c)'
    PROVE  Completed(f, c)'
<1>1. PICK q : q = <<kind, n>>
  OBVIOUS
<1>2. q[1] = kind /\ q[2] = n
  BY <1>1
<1>3. \A r \in reported' : r \in reported \/ r = q
  BY <1>1
<1>4. kind \in Integrations => Target(kind) = "package"
  BY DEF Integrations, Target
<1>5. CASE f = "app"
  <2>1. ASSUME NEW r \in reported', r[1] = "resource" PROVE Stands("app", c, r)'
    BY <1>1, <1>2, <1>3, <1>5, <2>1, TargetOf, StandsStays DEF Completed, Does
  <2> QED BY <1>5, <2>1 DEF Completed
<1>6. CASE f = "main"
  <2>1. ASSUME NEW r \in reported', r[1] = "provider" PROVE Stands("main", c, r)'
    BY <1>1, <1>2, <1>3, <1>6, <2>1, TargetOf, StandsStays DEF Completed, Does
  <2> QED BY <1>6, <2>1 DEF Completed
<1>7. CASE f = "package"
  <2>1. ASSUME NEW r \in reported', r[1] \in Integrations PROVE HasInstalled(r[1], c)
    BY <1>2, <1>3, <1>4, <1>7, <2>1 DEF Completed, Does
  <2> QED BY <1>7, <2>1 DEF Completed
<1> QED BY <1>5, <1>6, <1>7

LEMMA CompletedStays ==
    ASSUME NEW f, NEW c, Completed(f, c), reported' \subseteq reported, overlooked \subseteq overlooked'
    PROVE  Completed(f, c)'
BY StandsStays DEF Completed, HasInstalled

\* The only command there is goes on to c, or ends and reports what the file it
\* wires holds, without writing that file
LEMMA CalmStep ==
    ASSUME CodegenInv, Calm, undisturbed, NEW s \in Shells, NEW c, shell' = [shell EXCEPT ![s] = c],
           shell[s].at \notin {"idle", "fill"}, c.at # "fill", sources' = sources, Prepared(c)',
           NEW kind, NEW n, reported' \subseteq reported \cup {<<kind, n>>},
           overlooked \subseteq overlooked',
           NEW e, e = sources[Target(kind)], reported' # reported => Does(kind, n, e)'
    PROVE  Calm'
<1>1. /\ shell'[s] = c /\ \A t \in Shells \ {s} : shell'[t] = shell[t]
  BY DEF CodegenInv
<1>2. \A t \in Shells \ {s} : shell[t].at = "idle"
  BY DEF Calm
<1>3. \A t \in Shells : shell[t].at # "fill"
  BY <1>2
<1>4. ASSUME NEW f \in {"app", "main", "package"} PROVE Completed(f, sources[f])'
  <2>1. Completed(f, sources[f])
    BY <1>3 DEF Calm
  <2>2. PICK d : d = sources[f]
    OBVIOUS
  <2>3. CASE reported' = reported
    BY <2>1, <2>2, <2>3, CompletedStays
  <2>4. CASE reported' # reported
    <3>1. f = Target(kind) => Does(kind, n, d)'
      BY <2>2, <2>4
    <3> QED BY <2>1, <2>2, <3>1, CompletedGrows
  <2>5. Completed(f, d)' /\ sources'[f] = d
    BY <2>2, <2>3, <2>4
  <2> QED BY <2>5
<1>5. \A t \in Shells \ {s} : Prepared(shell[t])'
  <2>1. TAKE t \in Shells \ {s}
  <2>2. shell'[t].at = "idle"
    BY <1>1, <1>2
  <2> QED BY <2>2 DEF Prepared
<1>6. Prepared(shell[s])'
  BY <1>1
<1> QED BY <1>1, <1>2, <1>4, <1>5, <1>6 DEF Calm

\* A step that reports nothing and is not about a file that is wired
LEMMA CalmQuietStep ==
    ASSUME CodegenInv, Calm, undisturbed, NEW s \in Shells, NEW c, shell' = [shell EXCEPT ![s] = c],
           shell[s].at \notin {"idle", "fill"}, sources' = sources, reported' = reported,
           overlooked \subseteq overlooked', c.at \in QuietPhases
    PROVE  Calm'
<1>1. Prepared(c)' /\ c.at # "fill"
  BY DEF Prepared, QuietPhases
<1>2. PICK kind, n, e : kind = "none" /\ n = "none" /\ e = sources[Target(kind)]
  OBVIOUS
<1>3. reported' \subseteq reported \cup {<<kind, n>>}
  OBVIOUS
<1> QED BY <1>1, <1>2, <1>3, CalmStep

\* What a command says at its end is true when its file holds what it does
LEMMA CalmSuccess ==
    ASSUME CodegenInv, Calm, undisturbed, NEW s \in Shells, NEW kind, NEW n, Ends(s),
           shell[s].at \notin {"idle", "fill"}, sources' = sources,
           overlooked \subseteq overlooked', reported' = reported \cup {<<kind, n>>},
           NEW e, e = sources[Target(kind)], Does(kind, n, e)'
    PROVE  Calm'
<1>1. shell' = [shell EXCEPT ![s] = NoShell] /\ NoShell.at = "idle"
  BY IdleIsKept DEF Ends
<1>2. Prepared(NoShell)'
  BY <1>1 DEF Prepared
<1>3. reported' \subseteq reported \cup {<<kind, n>>} /\ NoShell.at # "fill"
  BY <1>1
<1> QED BY <1>1, <1>2, <1>3, CalmStep

LEMMA CalmEnds ==
    ASSUME CodegenInv, Calm, undisturbed, NEW s \in Shells, Ends(s),
           shell[s].at \notin {"idle", "fill"}, sources' = sources, reported' = reported,
           overlooked \subseteq overlooked'
    PROVE  Calm'
<1>1. shell' = [shell EXCEPT ![s] = NoShell] /\ NoShell.at = "idle"
  BY IdleIsKept DEF Ends
<1>2. NoShell.at \in QuietPhases
  BY <1>1 DEF QuietPhases
<1> QED BY <1>1, <1>2, CalmQuietStep

LEMMA CalmBegins ==
    ASSUME CodegenInv, Calm, undisturbed', NEW s \in Shells, NEW kind, NEW name, NEW at,
           Begins(s, kind, name, at), at \in {"dirs", "dir", "install"},
           UNCHANGED <<sources, reported, overlooked>>
    PROVE  Calm'
<1>1. undisturbed /\ Busy = {}
  BY DEF Begins
<1>2. PICK c : c = [NoShell EXCEPT !.at = at, !.kind = kind, !.name = name]
  OBVIOUS
<1>3. c.at = at
  BY <1>2 DEF NoShell
<1>4. shell' = [shell EXCEPT ![s] = c]
  BY <1>2 DEF Begins
<1>5. shell'[s] = c /\ \A t \in Shells \ {s} : shell'[t] = shell[t] /\ shell[t].at = "idle"
  BY <1>1, <1>4 DEF CodegenInv, Busy
<1>6. shell[s].at = "idle"
  BY <1>1 DEF Busy
<1>7. \A f \in {"app", "main", "package"} : Completed(f, sources[f])'
  <2>1. TAKE f \in {"app", "main", "package"}
  <2>2. Completed(f, sources[f])
    BY <1>1, <1>5, <1>6 DEF Calm
  <2>3. PICK d : d = sources[f]
    OBVIOUS
  <2>4. Completed(f, d)'
    BY <2>2, <2>3, CompletedStays
  <2> QED BY <2>3, <2>4
<1>8. \A t \in Shells : Prepared(shell[t])'
  BY <1>3, <1>5 DEF Prepared
<1>9. \A t, u \in Shells : shell'[t].at # "idle" /\ shell'[u].at # "idle" => t = u
  BY <1>5
<1> QED BY <1>7, <1>8, <1>9 DEF Calm

LEMMA CalmRests ==
    ASSUME Calm, UNCHANGED <<sources, shell, undisturbed, overlooked>>, reported' \subseteq reported
    PROVE  Calm'
<1> SUFFICES ASSUME undisturbed PROVE Calm'
  BY DEF Calm
<1>1. ASSUME NEW f \in {"app", "main", "package"}, \A s \in Shells : ~(shell[s].at = "fill" /\ Target(shell[s].kind) = f)
      PROVE  Completed(f, sources[f])'
  <2>1. Completed(f, sources[f])
    BY <1>1 DEF Calm
  <2>2. PICK d : d = sources[f]
    OBVIOUS
  <2>3. Completed(f, d)'
    BY <2>1, <2>2, CompletedStays
  <2> QED BY <2>2, <2>3
<1>2. ASSUME NEW s \in Shells PROVE Prepared(shell[s])'
  <2>1. PICK c : c = shell[s]
    OBVIOUS
  <2>2. Prepared(c)
    BY <2>1 DEF Calm
  <2>3. Completed(Target(c.kind), c.next) => Completed(Target(c.kind), c.next)'
    BY CompletedStays
  <2>5. Does(c.kind, c.name, c.next) => Does(c.kind, c.name, c.next)'
    BY DoesStays
  <2>6. Prepared(c)'
    BY <2>2, <2>3, <2>5 DEF Prepared
  <2> QED BY <2>1, <2>6
<1> QED BY <1>1, <1>2 DEF Calm

LEMMA CalmGenerate ==
    ASSUME CodegenInv, Calm, undisturbed', NEW s \in Shells, NEW a \in Args, Generate(s, a) \/ Add(s, a)
    PROVE  Calm'
<1>1. UNCHANGED <<sources, reported, overlooked>>
  BY DEF Generate, Add, project
<1>2. \/ UNCHANGED <<shell, undisturbed>>
      \/ \E kind, name, at : Begins(s, kind, name, at) /\ at \in {"dirs", "dir", "install"}
  BY DEF Generate, Add
<1>3. CASE UNCHANGED <<shell, undisturbed>>
  BY <1>1, <1>3, CalmRests
<1>4. CASE \E kind, name, at : Begins(s, kind, name, at) /\ at \in {"dirs", "dir", "install"}
  BY <1>1, <1>4, CalmBegins
<1> QED BY <1>2, <1>3, <1>4

LEMMA CalmFiles ==
    ASSUME CodegenInv, Calm, undisturbed, NEW s \in Shells,
           EnsureDirs(s) \/ SkipModuleFile(s) \/ OpenModuleFile(s) \/ FillModuleFile(s)
    PROVE  Calm'
<1>1. shell[s].at \notin {"idle", "fill"} /\ UNCHANGED <<sources, reported, overlooked>>
  BY DEF EnsureDirs, SkipModuleFile, OpenModuleFile, FillModuleFile, Opens, Fills, history, project
<1>2. CASE OpenModuleFile(s)
  <2>1. Go(s, "fillModule")
    BY <1>2 DEF OpenModuleFile
  <2>2. \E c : shell' = [shell EXCEPT ![s] = c] /\ c.at = "fillModule"
    BY <2>1, GoneOn
  <2> QED BY <1>1, <2>2, CalmQuietStep DEF QuietPhases
<1>3. CASE EnsureDirs(s) \/ SkipModuleFile(s) \/ FillModuleFile(s)
  <2>1. PICK at, todo : Do(s, at, todo) /\ at \in {"files", "read"}
    BY <1>3 DEF EnsureDirs, SkipModuleFile, FillModuleFile, NextModuleFile
  <2>2. \E c : shell' = [shell EXCEPT ![s] = c] /\ c.at = at
    BY <2>1, GoneOnWith
  <2> QED BY <1>1, <2>1, <2>2, CalmQuietStep DEF QuietPhases
<1> QED BY <1>2, <1>3

LEMMA CalmEnsureDir ==
    ASSUME CodegenInv, Calm, undisturbed, NEW s \in Shells, EnsureDir(s)
    PROVE  Calm'
<1>1. /\ shell[s].at \notin {"idle", "fill"} /\ UNCHANGED <<sources, reported, overlooked>>
      /\ Ends(s) \/ Go(s, "file")
  BY DEF EnsureDir, history, project
<1>2. CASE Ends(s)
  BY <1>1, <1>2, CalmEnds
<1>3. CASE Go(s, "file")
  <2>1. \E c : shell' = [shell EXCEPT ![s] = c] /\ c.at = "file"
    BY <1>3, GoneOn
  <2> QED BY <1>1, <2>1, CalmQuietStep DEF QuietPhases
<1> QED BY <1>1, <1>2, <1>3

FillsItsLast(here, kind) ==
    \/ here = "fillFile" /\ kind # "provider"
    \/ here = "fillProvider" /\ kind # "prisma-pg"

\* What the one file of an integration is opened and filled for is installed
LEMMA CalmGranular ==
    ASSUME CodegenInv, Calm, undisturbed, NEW s \in Shells, OpenGranular(s) \/ FillGranular(s)
    PROVE  Calm'
<1>0. PICK kind, name, here : kind = shell[s].kind /\ name = shell[s].name /\ here = shell[s].at
  OBVIOUS
<1>1. /\ here \in {"file", "provider", "schema", "fillFile", "fillProvider", "fillSchema"}
      /\ UNCHANGED <<sources, overlooked>>
  BY <1>0 DEF OpenGranular, FillGranular, Opens, Fills
<1>2. \/ Ends(s) /\ reported' = reported \cup {<<kind, name>>}
         /\ FillsItsLast(here, kind)
      \/ reported' = reported /\ \E at : Go(s, at) /\
            \/ here = "file" /\ at = "fillFile"
            \/ here = "fillFile" /\ at = "read"
            \/ here \notin {"file", "fillFile"} /\ at \in {"fillProvider", "schema", "fillSchema", "scripts"}
  <2>1. CASE OpenGranular(s)
    BY <1>0, <2>1 DEF OpenGranular, Opens
  <2>2. CASE FillGranular(s)
    <3>1. CASE here = "fillFile" /\ kind = "provider"
      BY <1>0, <2>2, <3>1 DEF FillGranular, None
    <3>2. CASE here = "fillProvider" /\ kind = "prisma-pg"
      BY <1>0, <2>2, <3>2 DEF FillGranular, None
    <3>3. CASE here = "fillSchema"
      BY <1>0, <2>2, <3>3 DEF FillGranular, None
    <3>4. CASE here = "fillFile" /\ kind # "provider"
      BY <1>0, <2>2, <3>4 DEF FillGranular, Succeeds, None, FillsItsLast
    <3>5. CASE here = "fillProvider" /\ kind # "prisma-pg"
      BY <1>0, <2>2, <3>5 DEF FillGranular, Succeeds, None, FillsItsLast
    <3> QED BY <1>0, <2>2, <3>1, <3>2, <3>3, <3>4, <3>5 DEF FillGranular
  <2> QED BY <2>1, <2>2
<1>3. /\ here \in {"file", "fillFile"} => kind \in Schematics \ {"resource"}
      /\ here \in {"provider", "fillProvider", "schema", "fillSchema"} =>
            kind \in Integrations /\ Deps(kind) \cup DevDeps(kind) \subseteq sources.package.deps
  BY <1>0 DEF CodegenInv, ShellKept, Calm, Prepared
<1>4. CASE Ends(s) /\ reported' = reported \cup {<<kind, name>>} /\ FillsItsLast(here, kind)
  <2>1. PICK e : e = sources[Target(kind)]
    OBVIOUS
  <2>2. Does(kind, name, e)'
    <3>1. CASE here = "fillFile"
      <4>1. kind \in Schematics \ {"resource", "provider"}
        BY <3>1, <1>3, <1>4 DEF FillsItsLast
      <4>2. kind \notin {"resource", "provider"} /\ kind \notin Integrations
        BY <4>1 DEF Schematics, Integrations
      <4> QED BY <4>2 DEF Does
    <3>2. CASE here = "fillProvider"
      <4>1. kind \in Integrations /\ kind \notin {"resource", "provider"} /\ kind # "prisma-pg"
        BY <3>2, <1>3, <1>4 DEF Integrations, FillsItsLast
      <4>2. e = sources.package
        BY <2>1, <4>1, TargetOf
      <4> QED BY <3>2, <4>1, <4>2, <1>3 DEF Does, HasInstalled
    <3> QED BY <1>4, <3>1, <3>2 DEF FillsItsLast
  <2> QED BY <1>0, <1>1, <1>4, <2>1, <2>2, CalmSuccess
<1>5. ASSUME NEW at, Go(s, at), reported' = reported, at \in {"fillFile", "read"} PROVE Calm'
  <2>1. \E c : shell' = [shell EXCEPT ![s] = c] /\ c.at = at
    BY <1>5, GoneOn
  <2> QED BY <1>0, <1>1, <1>5, <2>1, CalmQuietStep DEF QuietPhases
<1>6. ASSUME NEW at, Go(s, at), reported' = reported, here \notin {"file", "fillFile"},
             at \in {"fillProvider", "schema", "fillSchema", "scripts"}
      PROVE  Calm'
  <2>1. PICK c : shell' = [shell EXCEPT ![s] = c] /\ c.at = at /\ c.kind = shell[s].kind
    BY <1>6, GoneOn
  <2>2. Prepared(c)'
    BY <1>0, <1>1, <1>3, <1>6, <2>1 DEF Prepared
  <2>3. PICK e : e = sources[Target(kind)]
    OBVIOUS
  <2>4. reported' \subseteq reported \cup {<<kind, name>>} /\ c.at # "fill" /\ reported' = reported
        /\ shell[s].at \notin {"idle", "fill"} /\ sources' = sources /\ overlooked \subseteq overlooked'
    BY <1>0, <1>1, <1>6, <2>1
  <2> QED BY <2>1, <2>2, <2>3, <2>4, CalmStep
<1> QED BY <1>2, <1>4, <1>5, <1>6

\* An edit keeps all a source says and adds the name
LEMMA WiredIsComplete ==
    ASSUME NEW kind \in {"resource", "provider"}, NEW c, GoodSource(kind, c), NEW n \in FileNames,
           Completed(Target(kind), c)
    PROVE  Completed(Target(kind), Wired(kind, c, n)) /\ Does(kind, n, Wired(kind, c, n))
<1>1. PICK k, l, w : k = c.calls /\ l = Append(k, n) /\ w = Wired(kind, c, n)
  OBVIOUS
<1>2. DOMAIN c = SourceFields /\ k \in Seq(FileNames)
  BY <1>1 DEF GoodSource
<1>3. /\ w.text = c.text
      /\ \/ w.calls = l /\ w.notes = c.notes
         \/ w.calls = k /\ w.notes = c.notes \cup {n} /\ kind # "resource" /\ c.text # "starts"
  <2>1. CASE w = [c EXCEPT !.calls = Append(@, n)]
    BY <2>1, <1>1, <1>2 DEF SourceFields
  <2>2. CASE w = [c EXCEPT !.notes = @ \cup {n}] /\ kind # "resource" /\ c.text # "starts"
    BY <2>2, <1>1, <1>2 DEF SourceFields
  <2> QED BY <1>1, <2>1, <2>2 DEF Wired, RegisterModule, RegisterProvider
<1>4. ToSet(k) \cup {n} \subseteq ToSet(l)
  <2>1. /\ DOMAIN l = 1 .. Len(k) + 1 /\ DOMAIN k = 1 .. Len(k) /\ Len(k) \in Nat
        /\ l[Len(k) + 1] = n /\ \A i \in 1 .. Len(k) : l[i] = k[i]
    BY <1>1, <1>2
  <2>2. Len(k) + 1 \in DOMAIN l /\ \A i \in DOMAIN k : i \in DOMAIN l /\ l[i] = k[i]
    BY <2>1
  <2>3. ToSet(k) \subseteq ToSet(l)
    BY <2>2 DEF ToSet
  <2>4. n \in ToSet(l)
    BY <2>1, <2>2 DEF ToSet
  <2> QED BY <2>3, <2>4
<1>5. ToSet(c.calls) \subseteq ToSet(w.calls) /\ c.notes \subseteq w.notes
  BY <1>1, <1>3, <1>4
<1>6. \A f, r : Stands(f, c, r) => Stands(f, w, r)
  BY <1>3, <1>5 DEF Stands
<1>7. Stands(Target(kind), w, <<kind, n>>)
  <2>1. CASE w.calls = l
    BY <2>1, <1>4 DEF Stands
  <2>2. CASE n \in w.notes /\ kind # "resource" /\ w.text # "starts"
    BY <2>2, TargetOf DEF Stands
  <2> QED BY <1>3, <2>1, <2>2
<1>8. Does(kind, n, w)
  BY <1>7 DEF Does, Integrations
<1>9. CASE kind = "resource"
  BY <1>1, <1>3, <1>6, <1>8, <1>9, TargetOf DEF Completed
<1>10. CASE kind = "provider"
  BY <1>1, <1>3, <1>6, <1>8, <1>10, TargetOf DEF Completed
<1> QED BY <1>9, <1>10

LEMMA CalmReadSource ==
    ASSUME CodegenInv, Calm, undisturbed, NEW s \in Shells, ReadSource(s)
    PROVE  Calm'
<1>0. PICK k, n, c : k = shell[s].kind /\ n = shell[s].name /\ c = sources[Target(k)]
  OBVIOUS
<1>1. /\ shell[s].at = "read" /\ UNCHANGED <<sources>> /\ overlooked \subseteq overlooked'
      /\ \/ Ends(s) /\ reported' = reported
         \/ Includes(c, n) /\ Ends(s) /\ reported' = reported \cup {<<k, n>>}
         \/ /\ shell' = [shell EXCEPT ![s].at = "truncate", ![s].next = Wired(k, c, n)]
            /\ reported' = reported
  BY <1>0 DEF ReadSource, Succeeds, project
<1>6. n \in ToSet(c.calls) \cup c.notes \/ overlooked' = overlooked \cup (reported' \ reported)
  BY <1>0 DEF ReadSource
<1>2. /\ DOMAIN shell[s] = ShellFields /\ s \in DOMAIN shell
      /\ k \in {"resource", "provider"} /\ n \in FileNames /\ GoodSource(k, c)
  <2>1. DOMAIN shell[s] = ShellFields /\ s \in DOMAIN shell
    BY DEF CodegenInv, ShellKept
  <2>2. k \in {"resource", "provider"} /\ Present(k, n)
    BY <1>0, <1>1 DEF CodegenInv, ShellKept
  <2>3. n \in FileNames
    BY <2>2 DEF Present
  <2>4. GoodSource(k, c)
    <3>1. GoodSource("resource", sources.app) /\ GoodSource("provider", sources.main)
      BY DEF CodegenInv, SourcesKept
    <3> QED BY <1>0, <2>2, <3>1, TargetOf
  <2> QED BY <2>1, <2>2, <2>3, <2>4
<1>3. CASE Ends(s) /\ reported' = reported
  BY <1>1, <1>3, CalmEnds
<1>4. CASE Includes(c, n) /\ Ends(s) /\ reported' = reported \cup {<<k, n>>}
  <2>1. Completed(Target(k), c)
    <3>1. \A t \in Shells : shell[t].at # "fill"
      BY <1>1 DEF Calm
    <3> QED BY <1>0, <3>1 DEF Calm, Target
  <2>2. PICK q : q = <<k, n>>
    OBVIOUS
  <2>5. q[1] = k /\ q[2] = n
    BY <2>2
  <2>3. Stands(Target(k), c, q)'
    <3>1. CASE q \in reported
      <4>1. Stands(Target(k), c, q)
        BY <1>2, <2>1, <2>5, <3>1, TargetOf DEF Completed
      <4> QED BY <1>1, <4>1, StandsStays
    <3>2. CASE q \notin reported /\ n \in ToSet(c.calls)
      BY <2>5, <3>2 DEF Stands
    <3>3. CASE q \notin reported /\ n \notin ToSet(c.calls) /\ n \in c.notes
      <4>1. Target(k) = "main" /\ c.text # "starts"
        BY <1>2, <2>1, <3>3, TargetOf DEF Completed
      <4> QED BY <2>5, <3>3, <4>1 DEF Stands
    <3>4. CASE q \notin reported /\ n \notin ToSet(c.calls) \cup c.notes
      <4>1. q \in overlooked'
        BY <1>4, <1>6, <2>2, <3>4
      <4>2. \E m \in ToSet(c.calls) \cup c.notes : n \in Mentions[m]
        BY <1>4, <3>4 DEF Includes
      <4> QED BY <2>5, <4>1, <4>2 DEF Stands
    <3> QED BY <3>1, <3>2, <3>3, <3>4
  <2>4. Does(k, n, c)'
    BY <1>2, <2>2, <2>3 DEF Does, Integrations
  <2> QED BY <1>0, <1>1, <1>4, <2>4, CalmSuccess
<1>5. CASE /\ shell' = [shell EXCEPT ![s].at = "truncate", ![s].next = Wired(k, c, n)]
           /\ reported' = reported
  <2>1. PICK d : d = [shell[s] EXCEPT !.at = "truncate"]
    OBVIOUS
  <2>2. PICK e : e = [d EXCEPT !.next = Wired(k, c, n)]
    OBVIOUS
  <2>3. DOMAIN d = ShellFields /\ d.at = "truncate" /\ d.kind = k /\ d.name = n
    BY <1>0, <1>2, <2>1 DEF ShellFields
  <2>4. e.at = "truncate" /\ e.kind = k /\ e.name = n /\ e.next = Wired(k, c, n)
    BY <2>2, <2>3 DEF ShellFields
  <2>5. shell' = [shell EXCEPT ![s] = e]
    BY <1>2, <1>5, <2>1, <2>2
  <2>6. Target(k) \in {"app", "main", "package"}
    BY DEF Target
  <2>7. \A t \in Shells : shell[t].at # "fill"
    BY <1>1 DEF Calm
  <2>8. Completed(Target(k), c)
    BY <1>0, <2>6, <2>7 DEF Calm
  <2>9. Completed(Target(k), Wired(k, c, n)) /\ Does(k, n, Wired(k, c, n))
    BY <1>2, <1>5, <2>8, WiredIsComplete
  <2>10. Prepared(e)
    BY <2>4, <2>9 DEF Prepared
  <2>11. Completed(Target(e.kind), e.next)' /\ Does(e.kind, e.name, e.next)'
    <3>1. PICK w : w = Wired(k, c, n)
      OBVIOUS
    <3>2. Completed(Target(k), w)' /\ Does(k, n, w)'
      BY <2>9, <1>1, <1>5, <3>1, CompletedStays, DoesStays
    <3> QED BY <2>4, <3>1, <3>2
  <2>12. Prepared(e)'
    BY <2>4, <2>11 DEF Prepared
  <2>13. shell[s].at \notin {"idle", "fill"} /\ e.at # "fill" /\ sources' = sources
         /\ reported' \subseteq reported \cup {<<k, n>>}
    BY <1>1, <1>5, <2>4
  <2> QED BY <1>0, <1>1, <1>5, <2>5, <2>12, <2>13, CalmStep
<1> QED BY <1>1, <1>3, <1>4, <1>5

\* The only command there is writes the file f, or empties it to write it next
LEMMA CalmWrites ==
    ASSUME CodegenInv, Calm, undisturbed, NEW s \in Shells, NEW c, shell' = [shell EXCEPT ![s] = c],
           NEW f \in {"app", "main", "package"}, NEW e, sources' = [sources EXCEPT ![f] = e],
           shell[s].at # "idle", shell[s].at = "fill" => Target(shell[s].kind) = f,
           Prepared(c)', (c.at = "fill" /\ Target(c.kind) = f) \/ Completed(f, e)',
           c.at = "fill" => Target(c.kind) = f,
           overlooked' = overlooked, NEW kind, NEW n, reported' \subseteq reported \cup {<<kind, n>>},
           reported' = reported \/ Target(kind) = f
    PROVE  Calm'
<1>1. /\ shell'[s] = c /\ \A t \in Shells \ {s} : shell'[t] = shell[t]
  BY DEF CodegenInv
<1>2. \A t \in Shells \ {s} : shell[t].at = "idle"
  BY DEF Calm
<1>3. /\ sources'[f] = e
      /\ \A g \in {"app", "main", "package"} \ {f} : sources'[g] = sources[g]
  BY DEF CodegenInv, SourcesKept
<1>4. ASSUME NEW g \in {"app", "main", "package"} \ {f} PROVE Completed(g, sources[g])'
  <2>1. \A t \in Shells : ~(shell[t].at = "fill" /\ Target(shell[t].kind) = g)
    BY <1>2
  <2>2. Completed(g, sources[g])
    BY <2>1 DEF Calm
  <2>3. PICK d : d = sources[g]
    OBVIOUS
  <2>4. CASE reported' = reported
    <3>1. Completed(g, d)'
      BY <2>2, <2>3, <2>4, CompletedStays
    <3> QED BY <1>3, <2>3, <3>1
  <2>5. CASE Target(kind) = f
    <3>1. g = Target(kind) => Does(kind, n, d)'
      BY <2>5
    <3>2. Completed(g, d)'
      BY <2>2, <2>3, <3>1, CompletedGrows
    <3> QED BY <1>3, <2>3, <3>2
  <2> QED BY <2>4, <2>5
<1>5. ASSUME NEW g \in {"app", "main", "package"},
             \A t \in Shells : ~(shell'[t].at = "fill" /\ Target(shell'[t].kind) = g)
      PROVE  Completed(g, sources[g])'
  <2>1. CASE g # f
    BY <1>4, <2>1
  <2>2. CASE g = f
    <3>1. Completed(f, e)'
      BY <1>1, <1>5, <2>2
    <3> QED BY <1>3, <2>2, <3>1
  <2> QED BY <2>1, <2>2
<1>6. \A t \in Shells \ {s} : Prepared(shell[t])'
  <2>1. TAKE t \in Shells \ {s}
  <2>2. shell'[t].at = "idle"
    BY <1>1, <1>2
  <2> QED BY <2>2 DEF Prepared
<1>7. Prepared(shell[s])'
  BY <1>1
<1>8. \A t, u \in Shells : shell'[t].at # "idle" /\ shell'[u].at # "idle" => t = u
  BY <1>1, <1>2
<1> QED BY <1>5, <1>6, <1>7, <1>8 DEF Calm

LEMMA CalmTruncate ==
    ASSUME CodegenInv, Calm, undisturbed, NEW s \in Shells, Truncate(s)
    PROVE  Calm'
<1>0. PICK k, f, e : k = shell[s].kind /\ f = Target(k) /\ e = Cut(f)
  OBVIOUS
<1>1. /\ shell[s].at = "truncate" /\ Go(s, "fill")
      /\ sources' = [sources EXCEPT ![f] = e] /\ UNCHANGED <<reported, overlooked>>
  BY <1>0 DEF Truncate, history
<1>2. PICK c : /\ shell' = [shell EXCEPT ![s] = c] /\ DOMAIN c = ShellFields
               /\ c.at = "fill" /\ c.kind = shell[s].kind /\ c.name = shell[s].name
               /\ c.next = shell[s].next
  BY <1>1, GoneOn
<1>3. f \in {"app", "main", "package"}
  BY <1>0 DEF Target
<1>4. Completed(f, c.next) /\ Does(k, c.name, c.next)
  <2>1. Prepared(shell[s])
    BY DEF Calm
  <2> QED BY <1>0, <1>1, <1>2, <2>1 DEF Prepared
<1>5. Completed(f, c.next)' /\ Does(k, c.name, c.next)'
  BY <1>1, <1>4, CompletedStays, DoesStays
<1>9. sources'[f] = Cut(f)
  BY <1>0, <1>1, <1>3 DEF CodegenInv, SourcesKept
<1>6. Prepared(c)'
  BY <1>0, <1>2, <1>5, <1>9 DEF Prepared
<1>7. reported' \subseteq reported \cup {<<k, k>>}
  BY <1>1
<1>8. c.at = "fill" /\ Target(c.kind) = f /\ shell[s].at # "idle" /\ shell[s].at # "fill"
  BY <1>0, <1>1, <1>2
<1> QED BY <1>1, <1>2, <1>3, <1>6, <1>7, <1>8, CalmWrites

LEMMA CalmFill ==
    ASSUME CodegenInv, Calm, undisturbed, NEW s \in Shells, Fill(s)
    PROVE  Calm'
<1>0. PICK k, n, f, e : k = shell[s].kind /\ n = shell[s].name /\ f = Target(k) /\ e = shell[s].next
  OBVIOUS
<1>1. /\ shell[s].at = "fill" /\ Ends(s) /\ reported' = reported \cup {<<k, n>>}
      /\ overlooked' = overlooked
  BY <1>0 DEF Fill, Succeeds
<1>9. sources' = [sources EXCEPT ![f] = e]
  <2>1. sources[f] = Cut(f)
    BY <1>0, <1>1 DEF Calm, Prepared
  <2> QED BY <1>0, <2>1 DEF Fill
<1>2. shell' = [shell EXCEPT ![s] = NoShell] /\ NoShell.at = "idle"
  BY <1>1, IdleIsKept DEF Ends
<1>3. f \in {"app", "main", "package"}
  BY <1>0 DEF Target
<1>4. Completed(f, e) /\ Does(k, n, e)
  <2>1. Prepared(shell[s])
    BY DEF Calm
  <2> QED BY <1>0, <1>1, <2>1 DEF Prepared
<1>5. reported' \subseteq reported \cup {<<k, n>>}
  BY <1>1
<1>6. Completed(f, e)'
  <2>1. Does(k, n, e)'
    BY <1>1, <1>4, DoesStays
  <2> QED BY <1>1, <1>3, <1>4, <1>5, <2>1, CompletedGrows
<1>7. Prepared(NoShell)'
  BY <1>2 DEF Prepared
<1>8. shell[s].at # "idle" /\ Target(shell[s].kind) = f /\ Target(k) = f /\ NoShell.at # "fill"
  BY <1>0, <1>1, <1>2
<1> QED BY <1>1, <1>2, <1>3, <1>5, <1>6, <1>7, <1>8, <1>9, CalmWrites

LEMMA PackageGrows ==
    ASSUME NEW c, NEW e, c.deps \subseteq e.deps, c.scripts \subseteq e.scripts, Completed("package", c)
    PROVE  Completed("package", e)
BY DEF Completed, HasInstalled

LEMMA CalmInstall ==
    ASSUME CodegenInv, Calm, undisturbed, NEW s \in Shells, InstallDeps(s) \/ InstallDevDeps(s)
    PROVE  Calm'
<1>0. PICK k, p : k = shell[s].kind /\ p = sources.package
  OBVIOUS
<1>1. PICK deps, next :
        /\ Install(s, deps, next) /\ shell[s].at \in {"install", "install -D"}
        /\ next \in {"install -D", "provider"}
        /\ next = "install -D" => Deps(k) \subseteq deps
        /\ next = "provider" => Deps(k) \cup DevDeps(k) \subseteq p.deps \cup deps
  <2>1. CASE InstallDeps(s)
    <3>1. CASE DevDeps(k) = {}
      <4>1. Install(s, Deps(k), "provider") /\ shell[s].at = "install"
        BY <1>0, <2>1, <3>1 DEF InstallDeps
      <4> QED BY <3>1, <4>1
    <3>2. CASE DevDeps(k) # {}
      <4>1. PICK next : next = "install -D"
        OBVIOUS
      <4>2. Install(s, Deps(k), next) /\ shell[s].at = "install"
        BY <1>0, <2>1, <3>2, <4>1 DEF InstallDeps
      <4>3. next # "provider"
        BY <4>1
      <4> QED BY <4>1, <4>2, <4>3
    <3> QED BY <3>1, <3>2
  <2>2. CASE InstallDevDeps(s)
    <3>1. Install(s, DevDeps(k), "provider") /\ shell[s].at = "install -D"
      BY <1>0, <2>2 DEF InstallDevDeps
    <3>2. Prepared(shell[s])
      BY DEF Calm
    <3>3. Deps(k) \subseteq p.deps
      BY <1>0, <3>1, <3>2 DEF Prepared
    <3> QED BY <3>1, <3>3
  <2> QED BY <2>1, <2>2
<1>2. UNCHANGED <<reported, overlooked>>
  BY <1>1 DEF Install, history
<1>13. CASE Ends(s) /\ sources' = sources
  BY <1>1, <1>2, <1>13, CalmEnds
<1>14. SUFFICES ASSUME Go(s, next), sources' = [sources EXCEPT !["package"].deps = @ \cup deps]
                PROVE  Calm'
  BY <1>1, <1>13 DEF Install
<1>3. PICK c : /\ shell' = [shell EXCEPT ![s] = c] /\ DOMAIN c = ShellFields
               /\ c.at = next /\ c.kind = shell[s].kind /\ c.name = shell[s].name
  <2>1. \E c : /\ shell' = [shell EXCEPT ![s] = c] /\ DOMAIN c = ShellFields
               /\ c.at = next /\ c.kind = shell[s].kind /\ c.name = shell[s].name
               /\ c.next = shell[s].next /\ c.todo = shell[s].todo
    BY <1>14, GoneOn
  <2> QED BY <2>1
<1>4. PICK e : e = [p EXCEPT !.deps = p.deps \cup deps]
  OBVIOUS
<1>5. DOMAIN p = PackageFields /\ DOMAIN sources = {"app", "main", "package"}
  BY <1>0 DEF CodegenInv, SourcesKept
<1>6. e.deps = p.deps \cup deps /\ e.scripts = p.scripts
  BY <1>4, <1>5 DEF PackageFields
<1>7. sources' = [sources EXCEPT !["package"] = e]
  BY <1>0, <1>14, <1>4, <1>5 DEF PackageFields
<1>8. Completed("package", p)
  <2>1. \A t \in Shells : shell[t].at # "fill"
    BY <1>1 DEF Calm
  <2> QED BY <1>0, <2>1 DEF Calm
<1>9. Completed("package", e)'
  <2>1. Completed("package", e)
    BY <1>6, <1>8, PackageGrows
  <2> QED BY <1>2, <2>1, CompletedStays
<1>10. Prepared(c)'
  <2>1. sources'.package = e
    BY <1>5, <1>7
  <2>2. next = "install -D" => Deps(k) \subseteq e.deps
    BY <1>1, <1>6
  <2>3. next = "provider" => Deps(k) \cup DevDeps(k) \subseteq e.deps
    BY <1>1, <1>6
  <2> QED BY <1>0, <1>1, <1>3, <2>1, <2>2, <2>3 DEF Prepared
<1>11. reported' \subseteq reported \cup {<<k, k>>}
  BY <1>2
<1>12. shell[s].at # "idle" /\ shell[s].at # "fill" /\ c.at # "fill"
  BY <1>1, <1>3
<1> QED BY <1>2, <1>3, <1>7, <1>9, <1>10, <1>11, <1>12, CalmWrites

LEMMA CalmAddScripts ==
    ASSUME CodegenInv, Calm, undisturbed, NEW s \in Shells, AddScripts(s)
    PROVE  Calm'
<1>0. PICK k, p, e : k = shell[s].kind /\ p = sources.package /\ e = [p EXCEPT !.scripts = @ \cup DbScripts]
  OBVIOUS
<1>1. /\ shell[s].at = "scripts" /\ UNCHANGED <<sources, reported, overlooked>>
      /\ \/ Ends(s)
         \/ shell' = [shell EXCEPT ![s].at = "truncate", ![s].next = e]
  BY <1>0 DEF AddScripts, history, project
<1>2. CASE Ends(s)
  BY <1>1, <1>2, CalmEnds
<1>3. CASE shell' = [shell EXCEPT ![s].at = "truncate", ![s].next = e]
  <2>0. DOMAIN shell[s] = ShellFields /\ s \in DOMAIN shell /\ k = "prisma-pg"
    BY <1>0, <1>1 DEF CodegenInv, ShellKept
  <2>1. PICK d : d = [shell[s] EXCEPT !.at = "truncate"]
    OBVIOUS
  <2>2. PICK c : c = [d EXCEPT !.next = e]
    OBVIOUS
  <2>3. DOMAIN d = ShellFields /\ d.at = "truncate" /\ d.kind = k
    BY <1>0, <2>0, <2>1 DEF ShellFields
  <2>4. c.at = "truncate" /\ c.kind = k /\ c.next = e
    BY <2>2, <2>3 DEF ShellFields
  <2>5. shell' = [shell EXCEPT ![s] = c]
    BY <2>0, <1>3, <2>1, <2>2
  <2>6. DOMAIN p = PackageFields
    BY <1>0 DEF CodegenInv, SourcesKept
  <2>7. e.deps = p.deps /\ e.scripts = p.scripts \cup DbScripts
    BY <1>0, <2>6 DEF PackageFields
  <2>8. Deps(k) \cup DevDeps(k) \subseteq p.deps
    <3>1. Prepared(shell[s])
      BY DEF Calm
    <3> QED BY <1>0, <1>1, <3>1 DEF Prepared
  <2>9. Completed("package", p)
    <3>1. \A t \in Shells : shell[t].at # "fill"
      BY <1>1 DEF Calm
    <3> QED BY <1>0, <3>1 DEF Calm
  <2>10. Completed("package", e)'
    <3>1. Completed("package", e)
      BY <2>7, <2>9, PackageGrows
    <3> QED BY <1>1, <3>1, CompletedStays
  <2>11. HasInstalled(k, e)
    BY <2>7, <2>8 DEF HasInstalled
  <2>12. Does(k, c.name, e)' /\ Target(k) = "package"
    BY <2>0, <2>11, TargetOf DEF Does, HasInstalled
  <2>13. Prepared(c)'
    BY <2>4, <2>10, <2>12 DEF Prepared
  <2>14. reported' \subseteq reported \cup {<<k, k>>} /\ c.at # "fill"
         /\ shell[s].at \notin {"idle", "fill"}
    BY <1>1, <2>4
  <2>15. PICK d1 : d1 = sources[Target(k)]
    OBVIOUS
  <2> QED BY <1>1, <2>5, <2>13, <2>14, <2>15, CalmStep
<1> QED BY <1>1, <1>2, <1>3

LEMMA CalmStops ==
    ASSUME CodegenInv, Calm, undisturbed', NEW s \in Shells, Stops(s)
    PROVE  Calm'
<1>1. shell[s].at \notin {"idle", "fill"} /\ Ends(s) /\ UNCHANGED <<sources, reported, overlooked>>
  BY DEF Stops, project, Busy, Filling
<1>2. undisturbed
  BY DEF Stops
<1> QED BY <1>1, <1>2, CalmEnds

LEMMA CalmRemoveModule ==
    ASSUME Calm, NEW n \in FileNames, RemoveModule(n)
    PROVE  Calm'
<1>1. UNCHANGED <<sources, shell, undisturbed, overlooked>> /\ reported' \subseteq reported
  BY DEF RemoveModule
<1> QED BY <1>1, CalmRests

LEMMA CalmStepInv == CodegenInv /\ Calm /\ [CodegenNext]_codegenVars => Calm'
<1> SUFFICES ASSUME CodegenInv, Calm, [CodegenNext]_codegenVars, undisturbed' PROVE Calm'
  BY DEF Calm
<1>1. ASSUME NEW s \in Shells, NEW a \in Args, Generate(s, a) \/ Add(s, a) PROVE Calm'
  BY <1>1, CalmGenerate
<1>2. ASSUME NEW s \in Shells, EnsureDirs(s) \/ SkipModuleFile(s) \/ OpenModuleFile(s) \/ FillModuleFile(s)
      PROVE  Calm'
  <2>1. undisturbed
    BY <1>2 DEF EnsureDirs, SkipModuleFile, OpenModuleFile, FillModuleFile, Opens, Fills, history
  <2> QED BY <1>2, <2>1, CalmFiles
<1>3. ASSUME NEW s \in Shells, EnsureDir(s) \/ OpenGranular(s) \/ FillGranular(s) PROVE Calm'
  <2>1. undisturbed
    BY <1>3 DEF EnsureDir, OpenGranular, FillGranular, Opens, Fills, history
  <2> QED BY <1>3, <2>1, CalmEnsureDir, CalmGranular
<1>4. ASSUME NEW s \in Shells, ReadSource(s) \/ Truncate(s) \/ Fill(s) PROVE Calm'
  <2>1. undisturbed
    BY <1>4 DEF ReadSource, Truncate, Fill, history
  <2> QED BY <1>4, <2>1, CalmReadSource, CalmTruncate, CalmFill
<1>5. ASSUME NEW s \in Shells, InstallDeps(s) \/ InstallDevDeps(s) PROVE Calm'
  <2>1. undisturbed
    BY <1>5 DEF InstallDeps, InstallDevDeps, Install, history
  <2> QED BY <1>5, <2>1, CalmInstall
<1>6. ASSUME NEW s \in Shells, AddScripts(s) PROVE Calm'
  <2>1. undisturbed
    BY <1>6 DEF AddScripts, history
  <2> QED BY <1>6, <2>1, CalmAddScripts
<1>7. ASSUME NEW s \in Shells, Stops(s) PROVE Calm'
  BY <1>7, CalmStops
<1>8. ASSUME NEW n \in FileNames, RemoveModule(n) PROVE Calm'
  BY <1>8, CalmRemoveModule
<1>9. CASE UNCHANGED codegenVars
  <2>1. UNCHANGED <<sources, shell, undisturbed, overlooked>> /\ reported' \subseteq reported
    BY <1>9 DEF codegenVars, project, history
  <2> QED BY <2>1, CalmRests
<1> QED BY <1>1, <1>2, <1>3, <1>4, <1>5, <1>6, <1>7, <1>8, <1>9 DEF CodegenNext

(***************************************************************************)
(* What is truncated is being filled                                       *)
(***************************************************************************)
FillPhases == {"fillModule", "fillFile", "fillProvider", "fillSchema"}

\* The file a shell in the state c has truncated
FillingOf(c, file) ==
    \/ c.at = "fillModule" /\ file = <<"resource", c.name, Head(c.todo)>>
    \/ c.at \in FillPhases \ {"fillModule"} /\ file = Granule(c)

\* While no write was cut, an empty file is one that a command is about to fill
Tidy == undisturbed => \A file \in hollow : \E s \in Shells : FillingOf(shell[s], file)

LEMMA TidyStep ==
    ASSUME CodegenInv, Tidy, undisturbed, NEW s \in Shells, \A t \in Shells \ {s} : shell'[t] = shell[t],
           \A file \in hollow' :
              FillingOf(shell[s], file)' \/ (file \in hollow /\ ~FillingOf(shell[s], file))
    PROVE  Tidy'
<1>1. ASSUME NEW file \in hollow' PROVE \E t \in Shells : FillingOf(shell[t], file)'
  <2>1. CASE FillingOf(shell[s], file)'
    BY <2>1
  <2>2. CASE file \in hollow /\ ~FillingOf(shell[s], file)
    <3>1. PICK t \in Shells : FillingOf(shell[t], file)
      BY <2>2 DEF Tidy
    <3>2. t # s /\ shell'[t] = shell[t]
      BY <2>2, <3>1
    <3>3. FillingOf(shell[t], file)'
      BY <3>1, <3>2 DEF FillingOf, Granule
    <3> QED BY <3>3
  <2> QED BY <1>1, <2>1, <2>2
<1> QED BY <1>1 DEF Tidy

\* A command that is not filling a file leaves what is truncated alone
LEMMA TidyQuietStep ==
    ASSUME CodegenInv, Tidy, undisturbed, NEW s \in Shells, \A t \in Shells \ {s} : shell'[t] = shell[t],
           shell[s].at \notin FillPhases, hollow' = hollow
    PROVE  Tidy'
<1>1. \A file : ~FillingOf(shell[s], file)
  BY DEF FillingOf, FillPhases
<1> QED BY <1>1, TidyStep

LEMMA TidyRests ==
    ASSUME Tidy, UNCHANGED <<shell, undisturbed>>, hollow' \subseteq hollow
    PROVE  Tidy'
BY DEF Tidy, FillingOf, Granule

LEMMA TidyGenerate ==
    ASSUME CodegenInv, Tidy, undisturbed', NEW s \in Shells, NEW a \in Args, Generate(s, a) \/ Add(s, a)
    PROVE  Tidy'
<1>1. shell[s].at \notin FillPhases /\ hollow' = hollow
  BY DEF Generate, Add, project, FillPhases
<1>2. \/ UNCHANGED <<shell, undisturbed>>
      \/ \E kind, name, at : Begins(s, kind, name, at)
  BY DEF Generate, Add
<1>3. CASE UNCHANGED <<shell, undisturbed>>
  BY <1>1, <1>3, TidyRests
<1>4. CASE \E kind, name, at : Begins(s, kind, name, at)
  <2>1. undisturbed /\ \A t \in Shells \ {s} : shell'[t] = shell[t]
    BY <1>4 DEF Begins, CodegenInv
  <2> QED BY <1>1, <2>1, TidyQuietStep
<1> QED BY <1>2, <1>3, <1>4

LEMMA TidyOpens ==
    ASSUME CodegenInv, Tidy, undisturbed, NEW s \in Shells, OpenModuleFile(s) \/ OpenGranular(s)
    PROVE  Tidy'
<1>1. PICK at, file : /\ Go(s, at) /\ hollow' = hollow \cup {file} /\ shell[s].at \notin FillPhases
                      /\ \/ at = "fillModule" /\ file = ModuleFile(s)
                         \/ /\ at \in FillPhases \ {"fillModule"} /\ file = Granule(shell[s])
                            /\ shell[s].at = "file" => at = "fillFile"
                            /\ shell[s].at = "provider" => at = "fillProvider"
                            /\ shell[s].at = "schema" => at = "fillSchema"
                            /\ shell[s].at \in {"file", "provider", "schema"}
  BY DEF OpenModuleFile, OpenGranular, Opens, FillPhases
<1>2. PICK c : /\ shell' = [shell EXCEPT ![s] = c] /\ c.at = at /\ c.kind = shell[s].kind
               /\ c.name = shell[s].name /\ c.todo = shell[s].todo
  <2>1. \E c : /\ shell' = [shell EXCEPT ![s] = c] /\ DOMAIN c = ShellFields
               /\ c.at = at /\ c.kind = shell[s].kind /\ c.name = shell[s].name
               /\ c.next = shell[s].next /\ c.todo = shell[s].todo
    BY <1>1, GoneOn
  <2> QED BY <2>1
<1>3. shell'[s] = c /\ \A t \in Shells \ {s} : shell'[t] = shell[t]
  BY <1>2 DEF CodegenInv
<1>4. FillingOf(c, file)
  <2>1. CASE at = "fillModule" /\ file = ModuleFile(s)
    BY <1>2, <2>1 DEF FillingOf, ModuleFile
  <2>2. CASE at \in FillPhases \ {"fillModule"}
    BY <1>1, <1>2, <2>2 DEF FillingOf, FillPhases, Granule
  <2> QED BY <1>1, <2>1, <2>2
<1>5. FillingOf(shell[s], file)'
  BY <1>3, <1>4 DEF FillingOf, Granule
<1>6. \A g : ~FillingOf(shell[s], g)
  BY <1>1 DEF FillingOf, FillPhases
<1> QED BY <1>1, <1>3, <1>5, <1>6, TidyStep

LEMMA TidyFills ==
    ASSUME CodegenInv, Tidy, undisturbed, NEW s \in Shells, FillModuleFile(s) \/ FillGranular(s)
    PROVE  Tidy'
<1>1. PICK file : hollow' = hollow \ {file} /\ \A g : FillingOf(shell[s], g) => g = file
  <2>1. CASE FillModuleFile(s)
    <3>1. hollow' = hollow \ {ModuleFile(s)} /\ shell[s].at = "fillModule"
      BY <2>1 DEF FillModuleFile, Fills
    <3> QED BY <3>1 DEF FillingOf, ModuleFile
  <2>2. CASE FillGranular(s)
    <3>1. hollow' = hollow \ {Granule(shell[s])} /\ shell[s].at # "fillModule"
      BY <2>2 DEF FillGranular, Fills
    <3> QED BY <3>1 DEF FillingOf
  <2> QED BY <2>1, <2>2
<1>2. \A t \in Shells \ {s} : shell'[t] = shell[t]
  BY DEF FillModuleFile, NextModuleFile, Do, FillGranular, Succeeds, Ends, Go, CodegenInv
<1>3. \A g \in hollow' : g \in hollow /\ ~FillingOf(shell[s], g)
  BY <1>1
<1> QED BY <1>2, <1>3, TidyStep

LEMMA TidyStepInv == CodegenInv /\ Tidy /\ [CodegenNext]_codegenVars => Tidy'
<1> SUFFICES ASSUME CodegenInv, Tidy, [CodegenNext]_codegenVars, undisturbed' PROVE Tidy'
  BY DEF Tidy
<1>1. ASSUME NEW s \in Shells, NEW a \in Args, Generate(s, a) \/ Add(s, a) PROVE Tidy'
  BY <1>1, TidyGenerate
<1>2. ASSUME NEW s \in Shells, OpenModuleFile(s) \/ OpenGranular(s) PROVE Tidy'
  <2>1. undisturbed
    BY <1>2 DEF OpenModuleFile, OpenGranular, Opens
  <2> QED BY <1>2, <2>1, TidyOpens
<1>3. ASSUME NEW s \in Shells, FillModuleFile(s) \/ FillGranular(s) PROVE Tidy'
  <2>1. undisturbed
    BY <1>3 DEF FillModuleFile, FillGranular, Fills
  <2> QED BY <1>3, <2>1, TidyFills
<1>4. ASSUME NEW s \in Shells, EnsureDirs(s) \/ SkipModuleFile(s) \/ EnsureDir(s) PROVE Tidy'
  <2>1. undisturbed /\ hollow' = hollow /\ shell[s].at \notin FillPhases
    BY <1>4 DEF EnsureDirs, SkipModuleFile, EnsureDir, project, history, FillPhases
  <2>2. \A t \in Shells \ {s} : shell'[t] = shell[t]
    BY <1>4 DEF EnsureDirs, SkipModuleFile, EnsureDir, NextModuleFile, Do, Go, Ends, CodegenInv
  <2> QED BY <2>1, <2>2, TidyQuietStep
<1>5. ASSUME NEW s \in Shells, ReadSource(s) \/ Truncate(s) \/ Fill(s) PROVE Tidy'
  <2>1. undisturbed /\ hollow' = hollow /\ shell[s].at \notin FillPhases
    BY <1>5 DEF ReadSource, Truncate, Fill, project, history, FillPhases
  <2>2. \A t \in Shells \ {s} : shell'[t] = shell[t]
    BY <1>5 DEF ReadSource, Truncate, Fill, Go, Ends, Succeeds, CodegenInv
  <2> QED BY <2>1, <2>2, TidyQuietStep
<1>6. ASSUME NEW s \in Shells, InstallDeps(s) \/ InstallDevDeps(s) \/ AddScripts(s) PROVE Tidy'
  <2>1. undisturbed /\ hollow' = hollow /\ shell[s].at \notin FillPhases
    BY <1>6 DEF InstallDeps, InstallDevDeps, Install, AddScripts, project, history, FillPhases
  <2>2. \A t \in Shells \ {s} : shell'[t] = shell[t]
    BY <1>6 DEF InstallDeps, InstallDevDeps, Install, AddScripts, Go, Ends, CodegenInv
  <2> QED BY <2>1, <2>2, TidyQuietStep
<1>7. ASSUME NEW s \in Shells, Stops(s) PROVE Tidy'
  <2>1. undisturbed /\ hollow' = hollow /\ shell[s].at \notin FillPhases
    BY <1>7 DEF Stops, project, FillPhases, Filling
  <2>2. \A t \in Shells \ {s} : shell'[t] = shell[t]
    BY <1>7 DEF Stops, Ends, CodegenInv
  <2> QED BY <2>1, <2>2, TidyQuietStep
<1>8. ASSUME NEW n \in FileNames, RemoveModule(n) PROVE Tidy'
  <2>1. UNCHANGED <<shell, undisturbed>> /\ hollow' \subseteq hollow
    BY <1>8 DEF RemoveModule
  <2> QED BY <2>1, TidyRests
<1>9. CASE UNCHANGED codegenVars
  <2>1. UNCHANGED <<shell, undisturbed>> /\ hollow' \subseteq hollow
    BY <1>9 DEF codegenVars, project, history
  <2> QED BY <2>1, TidyRests
<1> QED BY <1>1, <1>2, <1>3, <1>4, <1>5, <1>6, <1>7, <1>8, <1>9 DEF CodegenNext

\* While no two commands overlap and no write is cut, no generated file stays
\* empty, the user's own text is there, and what commands reported is there
\* too, whatever ran after them: its files, its dependencies, its registration.
\* Two reports hold in a weaker sense, which Stands names: a provider for a
\* main.ts without app.start( is in a comment, and a name whose identifier ends
\* another's is not registered.
THEOREM SuccessIsCompleteHolds == CodegenSpec => []SuccessIsComplete
<1>1. ASSUME CodegenInv, Calm, undisturbed, Busy = {}
      PROVE  \A f \in {"app", "main", "package"} : Completed(f, sources[f])
  BY <1>1 DEF Calm, Busy
<1>2. ASSUME CodegenInv, Tidy, undisturbed, Busy = {} PROVE hollow = {}
  <2>1. \A s \in Shells : shell[s].at = "idle"
    BY <1>2 DEF Busy
  <2>2. \A s \in Shells : \A file : ~FillingOf(shell[s], file)
    BY <2>1 DEF FillingOf, FillPhases
  <2> QED BY <1>2, <2>2 DEF Tidy
<1>3. ASSUME CodegenInv, Calm, undisturbed, Busy = {}, NEW r \in reported
      PROVE  LET kind == r[1]  name == r[2] IN
             CASE kind = "resource" -> Stands("app", sources.app, r) /\ Wanted \subseteq files[name]
               [] kind = "provider" -> Stands("main", sources.main, r) /\ r \in granular
               [] kind \in Integrations ->
                     /\ Deps(kind) \cup DevDeps(kind) \subseteq sources.package.deps
                     /\ kind = "prisma-pg" => DbScripts \subseteq sources.package.scripts
                     /\ <<"integration", kind>> \in granular
               [] OTHER -> r \in granular
  <2>0. ReportedKept(r)
    BY <1>3 DEF CodegenInv
  <2>1. Completed("app", sources.app) /\ Completed("main", sources.main) /\ Completed("package", sources.package)
    BY <1>1, <1>3
  <2>2. CASE r[1] = "resource"
    <3>1. Stands("app", sources.app, r)
      BY <2>1, <2>2 DEF Completed
    <3>2. Wanted \subseteq files[r[2]]
      BY <2>0, <2>2 DEF ReportedKept
    <3>3. r[1] # "provider" /\ r[1] \notin Integrations
      BY <2>2 DEF Integrations
    <3> QED BY <2>2, <3>1, <3>2, <3>3
  <2>3. CASE r[1] = "provider"
    <3>1. Stands("main", sources.main, r)
      BY <2>1, <2>3 DEF Completed
    <3>2. r \in granular
      BY <2>0, <2>3 DEF ReportedKept, Schematics
    <3>3. r[1] # "resource" /\ r[1] \notin Integrations
      BY <2>3 DEF Integrations
    <3> QED BY <2>3, <3>1, <3>2, <3>3
  <2>4. CASE r[1] \in Integrations
    <3>1. HasInstalled(r[1], sources.package)
      BY <2>1, <2>4 DEF Completed
    <3>2. <<"integration", r[1]>> \in granular
      BY <2>0, <2>4 DEF ReportedKept
    <3>3. r[1] # "resource" /\ r[1] # "provider"
      BY <2>4 DEF Integrations
    <3> QED BY <2>4, <3>1, <3>2, <3>3 DEF HasInstalled
  <2>5. CASE r[1] \notin Integrations \cup {"resource", "provider"}
    <3>1. r \in granular
      BY <2>0, <2>5 DEF ReportedKept
    <3> QED BY <2>5, <3>1
  <2> QED BY <2>2, <2>3, <2>4, <2>5
<1>4. ASSUME Calm, undisturbed, Busy = {} PROVE sources.app.text = "plain" /\ sources.main.text # "cut"
  <2>1. Completed("app", sources.app) /\ Completed("main", sources.main)
    BY <1>4 DEF Calm, Busy
  <2> QED BY <2>1 DEF Completed
<1>5. CodegenInv /\ Calm /\ Tidy => SuccessIsComplete
  BY <1>2, <1>3, <1>4 DEF SuccessIsComplete
<1>6. CodegenInit => Tidy
  BY DEF CodegenInit, Tidy
<1> QED BY <1>5, <1>6, CodegenInitInv, CodegenStepInv, CalmInit, CalmStepInv, TidyStepInv, PTL DEF CodegenSpec

=============================================================================
