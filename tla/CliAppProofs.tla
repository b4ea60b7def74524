---------------------------- MODULE CliAppProofs ----------------------------
(***************************************************************************)
(* Proofs about CliApp, for any tree of commands: however often, and with  *)
(* whatever lines, an application is run, no command of it gets the same   *)
(* flag twice, every command is given its parent before the parse, and     *)
(* from the second run on a line does the same thing every time.           *)
(***************************************************************************)
EXTENDS CliApp, FiniteSetTheorems, TLAPS

Flagged(k) == k \in Seq(Entries) /\ Distinct(k)

(* What the tables of flags are before, between and after the set-ups.     *)
KidsInv == kids \in [Paths -> Seq(Entries)] /\ NoDuplicates

(* A command is looked for by its name, an option by its short name too.   *)
LEMMA CommandStands ==
  ASSUME NEW x, NEW e, e.kind = "command"
  PROVE  StandsFor(x, e) <=> x = e
BY DEF StandsFor

LEMMA MissingAdded ==
  ASSUME NEW k, Flagged(k), NEW e \in Entries
  PROVE  Flagged(k \o Missing(k, e))
<1>1. CASE \E i \in DOMAIN k : StandsFor(k[i], e)
  <2>1. Missing(k, e) = <<>> /\ k \in Seq(Entries)
    BY <1>1 DEF Missing, Flagged
  <2>2. k \o <<>> = k
    BY <2>1
  <2>. QED  BY <2>1, <2>2
<1>2. CASE \A i \in DOMAIN k : ~ StandsFor(k[i], e)
  <2> DEFINE l == k \o <<e>>
  <2>0. \A i \in DOMAIN k : k[i] # e
    BY <1>2 DEF StandsFor
  <2>1. Missing(k, e) = <<e>> /\ <<e>> \in Seq(Entries)
    BY <1>2 DEF Missing
  <2>2. l \in Seq(Entries) /\ Len(l) = Len(k) + 1 /\ l[Len(k) + 1] = e
    BY DEF Flagged
  <2>3. \A i \in 1..Len(k) : l[i] = k[i]
    BY DEF Flagged
  <2>4. Distinct(l)
    BY <2>0, <2>2, <2>3 DEF Flagged, Distinct
  <2>. QED  BY <2>1, <2>2, <2>4 DEF Flagged
<1>. QED  BY <1>1, <1>2

LEMMA FlagEntries ==
  /\ HelpOption \in Entries /\ VersionOption \in Entries
  /\ HelpCommand \in Entries /\ VersionCommand \in Entries
BY AppAssumption
DEF HelpOption, VersionOption, HelpCommand, VersionCommand, Entry, Entries

LEMMA FlagKinds ==
  /\ HelpOption.kind = "option" /\ VersionOption.kind = "option"
  /\ HelpCommand.kind = "command" /\ VersionCommand.kind = "command"
BY DEF HelpOption, VersionOption, HelpCommand, VersionCommand, Entry

(* The set-ups leave a table without doubles if they find one.             *)
LEMMA VersionAdded ==
  ASSUME KidsInv, NEW c \in Paths
  PROVE  Flagged(WithVersion(c))
<1>1. Flagged(kids[c])
  BY DEF KidsInv, NoDuplicates, Flagged
<1> DEFINE l == kids[c] \o Missing(kids[c], VersionOption)
<1>2. Flagged(l)
  BY <1>1, FlagEntries, MissingAdded
<1>3. VersionOption # VersionCommand
  BY DEF VersionOption, VersionCommand, Entry
<1>4. Missing(kids[c], VersionCommand) = Missing(l, VersionCommand)
  <2> DEFINE k == kids[c]
  <2>1. CASE Missing(k, VersionOption) = <<>>
    <3>1. l = k
      BY <1>1, <2>1 DEF Flagged
    <3>. QED  BY <3>1
  <2>2. CASE Missing(k, VersionOption) = <<VersionOption>>
    <3>1. l = k \o <<VersionOption>> /\ k \in Seq(Entries) /\ <<VersionOption>> \in Seq(Entries)
      BY <1>1, <2>2, FlagEntries DEF Flagged
    <3> HIDE DEF k, l
    <3>2. Len(l) = Len(k) + 1 /\ l[Len(k) + 1] = VersionOption /\ l \in Seq(Entries)
      BY <3>1
    <3>3. \A i \in 1..Len(k) : l[i] = k[i]
      BY <3>1
    <3>4. (\E i \in DOMAIN k : k[i] = VersionCommand)
            <=> (\E i \in DOMAIN l : l[i] = VersionCommand)
      BY <3>1, <3>2, <3>3, <1>3
    <3>5. Missing(k, VersionCommand) = Missing(l, VersionCommand)
      BY <3>4, FlagKinds, CommandStands DEF Missing
    <3>. QED  BY <3>5 DEF k, l
  <2>. QED  BY <2>1, <2>2 DEF Missing
<1>5. Flagged(l \o Missing(l, VersionCommand))
  BY <1>2, FlagEntries, MissingAdded
<1>6. l \o Missing(kids[c], VersionCommand) = WithVersion(c) \/ kids[c] = WithVersion(c)
  BY DEF WithVersion
<1>. QED  BY <1>1, <1>4, <1>5, <1>6

LEMMA HelpIsAdded ==
  ASSUME NEW c \in Paths, NEW k, Flagged(k)
  PROVE  Flagged(WithHelp(c, k))
<1> DEFINE l == k \o Missing(k, HelpOption)
<1>1. Flagged(l)
  BY FlagEntries, MissingAdded
<1>2. CASE hidden[c].help
  BY <1>2 DEF WithHelp
<1>3. CASE ~ hidden[c].help /\ ~ HelpAdded(c, k)
  <2>1. WithHelp(c, k) = l \o <<>>
    BY <1>3 DEF WithHelp
  <2>2. l \o <<>> = l
    BY <1>1 DEF Flagged
  <2>. QED  BY <2>1, <2>2, <1>1
<1>4. CASE ~ hidden[c].help /\ HelpAdded(c, k)
  <2>1. WithHelp(c, k) = l \o <<HelpCommand>>
    BY <1>4 DEF WithHelp
  <2>2. \A i \in DOMAIN l : l[i] # HelpCommand
    <3>1. \A i \in DOMAIN k : k[i] # HelpCommand
      BY <1>4, FlagKinds, CommandStands DEF HelpAdded, Missing
    <3>2. HelpOption # HelpCommand
      BY DEF HelpOption, HelpCommand, Entry
    <3>. QED  BY <3>1, <3>2 DEF Missing, Flagged
  <2>3. Missing(l, HelpCommand) = <<HelpCommand>>
    BY <2>2, FlagKinds, CommandStands DEF Missing
  <2>4. Flagged(l \o Missing(l, HelpCommand))
    BY <1>1, FlagEntries, MissingAdded
  <2>. QED  BY <2>1, <2>3, <2>4
<1>. QED  BY <1>2, <1>3, <1>4

LEMMA KidsInit == Init => KidsInv
<1> SUFFICES ASSUME Init, NEW c \in Paths PROVE Flagged(kids[c])
  BY DEF Init, KidsInv, NoDuplicates, Flagged
<1>1. <<>> \in Seq(Entries) /\ Distinct(<<>>)
  BY DEF Distinct
<1>. QED  BY <1>1, AppAssumption DEF Init, Flagged

LEMMA KidsStep == KidsInv /\ [Next]_vars => KidsInv'
<1> SUFFICES ASSUME KidsInv, [Next]_vars PROVE KidsInv'
  OBVIOUS
<1>1. CASE SetupFlags
  <2> DEFINE c == Head(stack).cmd
  <2>1. kids' = [kids EXCEPT ![c] = WithHelp(c, WithVersion(c))]
    BY <1>1 DEF SetupFlags
  <2>2. c \in Paths => Flagged(WithHelp(c, WithVersion(c)))
    BY VersionAdded, HelpIsAdded
  <2> HIDE DEF c
  <2>. QED  BY <2>1, <2>2 DEF KidsInv, NoDuplicates, Flagged
<1>2. CASE UNCHANGED kids
  BY <1>2 DEF KidsInv, NoDuplicates
<1>3. SetupFlags \/ UNCHANGED kids
  BY DEF Next, vars, tree, parsed, Run, SetParent, PassOption, Parse, ReadCommand, ReadOption,
         ReadArguments, ParseFails, OwnAction, VersionAction, HelpAction,
         ExitRun, Return
<1>. QED  BY <1>1, <1>2, <1>3

---------------------------------------------------------------------------
(* However often an application is run, setup_help_flags and               *)
(* setup_version_flags never give a command two flags of one name.         *)
THEOREM FlagsOnce == Spec => []NoDuplicates
<1>1. KidsInv => NoDuplicates
  BY DEF KidsInv
<1>. QED  BY KidsInit, KidsStep, <1>1, PTL DEF Spec

---------------------------------------------------------------------------
(* What is in a sequence, wherever it is.                                  *)
Members(s) == {s[j] : j \in DOMAIN s}

LEMMA MembersJoined ==
  ASSUME NEW S, NEW s \in Seq(S), NEW t \in Seq(S)
  PROVE  Members(s \o t) = Members(s) \cup Members(t)
<1> DEFINE u == s \o t
<1>1. /\ Len(u) = Len(s) + Len(t) /\ Len(s) \in Nat /\ Len(t) \in Nat
      /\ DOMAIN u = 1 .. Len(u) /\ DOMAIN s = 1 .. Len(s) /\ DOMAIN t = 1 .. Len(t)
  OBVIOUS
<1>2. /\ \A j \in 1 .. Len(s) : u[j] = s[j]
      /\ \A j \in 1 .. Len(t) : u[Len(s) + j] = t[j]
  OBVIOUS
<1> HIDE DEF u
<1>3. ASSUME NEW x \in Members(s) PROVE x \in Members(u)
  <2>1. PICK j \in 1 .. Len(s) : x = s[j]
    BY <1>1 DEF Members
  <2>. QED  BY <1>1, <1>2, <2>1 DEF Members
<1>4. ASSUME NEW x \in Members(t) PROVE x \in Members(u)
  <2>1. PICK j \in 1 .. Len(t) : x = t[j]
    BY <1>1 DEF Members
  <2>2. Len(s) + j \in DOMAIN u
    BY <1>1
  <2>. QED  BY <1>2, <2>1, <2>2 DEF Members
<1>5. ASSUME NEW x \in Members(u) PROVE x \in Members(s) \cup Members(t)
  <2>1. PICK j \in 1 .. Len(u) : x = u[j]
    BY <1>1 DEF Members
  <2>2. CASE j <= Len(s)
    BY <1>1, <1>2, <2>1, <2>2 DEF Members
  <2>3. CASE j > Len(s)
    <3> DEFINE i == j - Len(s)
    <3>1. i \in 1 .. Len(t) /\ j = Len(s) + i
      BY <1>1, <2>1, <2>3
    <3>2. x = t[i]
      BY <1>2, <2>1, <3>1
    <3>. QED  BY <1>1, <3>1, <3>2 DEF Members
  <2>. QED  BY <1>1, <2>2, <2>3
<1>. QED  BY <1>3, <1>4, <1>5 DEF u

LEMMA MembersOne ==
  ASSUME NEW x
  PROVE  Members(<<x>>) = {x} /\ Members(<<>>) = {}
BY DEF Members

LEMMA MembersHead ==
  ASSUME NEW S, NEW s \in Seq(S), s # <<>>
  PROVE  /\ Head(s) \in S /\ Tail(s) \in Seq(S)
         /\ Members(s) = {Head(s)} \cup Members(Tail(s))
<1>1. /\ Head(s) \in S /\ Tail(s) \in Seq(S) /\ <<Head(s)>> \in Seq(S)
      /\ s = <<Head(s)>> \o Tail(s)
  OBVIOUS
<1>2. Members(<<Head(s)>> \o Tail(s)) = Members(<<Head(s)>>) \cup Members(Tail(s))
  BY <1>1, MembersJoined
<1>. QED  BY <1>1, <1>2, MembersOne

---------------------------------------------------------------------------
(* Paths.  Above: d is b or below it.                                      *)
Above(b, d) == Len(b) <= Len(d) /\ SubSeq(d, 1, Len(b)) = b

LEMMA ChildIs ==
  ASSUME NEW c \in Seq(Names), NEW n \in Names
  PROVE  LET d == Append(c, n)
         IN  /\ d \in Seq(Names) /\ d # <<>> /\ Len(d) = Len(c) + 1 /\ d[Len(d)] = n
             /\ SubSeq(d, 1, Len(c)) = c
             /\ \A k \in 1 .. Len(c) : SubSeq(d, 1, k) = SubSeq(c, 1, k) /\ d[k] = c[k]
OBVIOUS

LEMMA OwnParent ==
  ASSUME NEW c \in Seq(Names), NEW b \in Seq(Names), NEW m \in Names, NEW n \in Names,
         Append(c, m) = Append(b, n)
  PROVE  c = b /\ m = n
BY ChildIs

LEMMA PathsAre ==
  /\ Paths \subseteq Seq(Names) \ {<<>>} /\ App \in Paths /\ DOMAIN Own \subseteq Paths
  /\ Nil \notin Paths /\ Versioned \subseteq DOMAIN Own
<1>1. /\ DOMAIN Own \subseteq Seq(Names) \ {<<>>} /\ App \in DOMAIN Own
      /\ {"help", "version"} \subseteq Names
  BY AppAssumption, TreeAssumption
<1>2. \A c \in DOMAIN Own, n \in {"help", "version"} : Append(c, n) \in Seq(Names) \ {<<>>}
  BY <1>1, ChildIs
<1>3. ASSUME NEW d \in Paths PROVE d \in Seq(Names) \ {<<>>}
  <2>1. d \in DOMAIN Own \/ \E c \in DOMAIN Own, n \in {"help", "version"} : d = Append(c, n)
    BY DEF Paths
  <2>. QED  BY <1>1, <1>2, <2>1
<1>4. Nil \notin Paths /\ Versioned \subseteq DOMAIN Own
  BY AppAssumption
<1>. QED  BY <1>1, <1>3, <1>4 DEF Paths

(* App has no parent.                                                      *)
LEMMA AppOnTop ==
  ASSUME NEW c \in Paths, NEW n \in Names
  PROVE  Append(c, n) # App
<1>1. c \in Seq(Names) /\ c # <<>> /\ Len(App) = 1
  BY PathsAre, TreeAssumption
<1>2. Len(c) \in Nat /\ Len(c) # 0
  BY <1>1
<1>3. Len(Append(c, n)) = Len(c) + 1
  BY <1>1, ChildIs
<1>. QED  BY <1>1, <1>2, <1>3

---------------------------------------------------------------------------
(* The tree.  Good: set_parent has been there, and what it copies down is  *)
(* what the application has.                                               *)
Good(c) == wired[c] /\ hidden[c].version = hidden[App].version

Shape ==
  /\ KidsInv
  /\ \A c \in DOMAIN Own : Members(Own[c]) \subseteq Members(kids[c])
  /\ \A c \in Paths : \A e \in Members(kids[c]) :
       e.kind = "command" => c \in DOMAIN Own /\ Child(c, e) \in Paths
  /\ DOMAIN parent = Paths /\ DOMAIN wired = Paths /\ DOMAIN hidden = Paths
  /\ \A c \in Paths : DOMAIN hidden[c] = {"help", "version"}
  /\ wired[App]

LEMMA KidIs ==
  ASSUME KidsInv, NEW c \in Paths, NEW e \in Members(kids[c])
  PROVE  /\ e \in Entries /\ e.name \in Names
         /\ e.kind = "command" => e = Entry("command", e.name)
<1>1. kids[c] \in Seq(Entries)
  BY DEF KidsInv
<1>2. e \in Entries
  BY <1>1 DEF Members
<1>. QED  BY <1>2 DEF Entries, Entry

(* d is on the tree: a command of the definition or one of the tables.     *)
OnTree(d) ==
  d \in DOMAIN Own
  \/ \E c \in DOMAIN Own : \E e \in Members(kids[c]) : e.kind = "command" /\ d = Child(c, e)

(* On the way down to d, every command is in the table of the one above.   *)
LEMMA OwnWay ==
  ASSUME Shape, NEW d \in DOMAIN Own
  PROVE  /\ SubSeq(d, 1, 1) = App
         /\ \A k \in 1 .. Len(d) - 1 :
              /\ SubSeq(d, 1, k) \in DOMAIN Own
              /\ Entry("command", d[k + 1]) \in Members(kids[SubSeq(d, 1, k)])
<1>1. SubSeq(d, 1, 1) = App
  BY TreeAssumption
<1>2. ASSUME NEW k \in 1 .. Len(d) - 1
      PROVE  /\ SubSeq(d, 1, k) \in DOMAIN Own
             /\ Entry("command", d[k + 1]) \in Members(kids[SubSeq(d, 1, k)])
  <2> DEFINE up == SubSeq(d, 1, k)
  <2>1. up \in DOMAIN Own /\ \E i \in DOMAIN Own[up] : Own[up][i] = Entry("command", d[k + 1])
    BY TreeAssumption
  <2> HIDE DEF up
  <2>2. Entry("command", d[k + 1]) \in Members(Own[up])
    BY <2>1 DEF Members
  <2>3. Entry("command", d[k + 1]) \in Members(kids[up])
    BY <2>1, <2>2 DEF Shape
  <2>. QED  BY <2>1, <2>3 DEF up
<1>. QED  BY <1>1, <1>2

LEMMA Way ==
  ASSUME Shape, NEW d, OnTree(d)
  PROVE  /\ d \in Seq(Names) /\ d # <<>> /\ SubSeq(d, 1, 1) = App
         /\ \A k \in 1 .. Len(d) - 1 :
              /\ SubSeq(d, 1, k) \in DOMAIN Own
              /\ Entry("command", d[k + 1]) \in Members(kids[SubSeq(d, 1, k)])
<1>1. CASE d \in DOMAIN Own
  BY <1>1, OwnWay, PathsAre
<1>2. CASE \E c \in DOMAIN Own : \E e \in Members(kids[c]) :
             e.kind = "command" /\ d = Child(c, e)
  <2>0. PICK c \in DOMAIN Own : \E e \in Members(kids[c]) : e.kind = "command" /\ d = Child(c, e)
    BY <1>2
  <2>1. PICK e \in Members(kids[c]) : e.kind = "command" /\ d = Child(c, e)
    BY <2>0
  <2>2. c \in Paths /\ c \in Seq(Names) /\ c # <<>> /\ KidsInv
    BY PathsAre DEF Shape
  <2>3. e.name \in Names /\ e = Entry("command", e.name)
    BY <2>1, <2>2, KidIs
  <2>4. d = Append(c, e.name)
    BY <2>1 DEF Child
  <2>5. /\ d \in Seq(Names) /\ d # <<>> /\ Len(d) = Len(c) + 1 /\ d[Len(d)] = e.name
        /\ SubSeq(d, 1, Len(c)) = c
        /\ \A k \in 1 .. Len(c) : SubSeq(d, 1, k) = SubSeq(c, 1, k) /\ d[k] = c[k]
    BY <2>2, <2>3, <2>4, ChildIs
  <2>6. Len(c) \in Nat /\ Len(c) >= 1
    BY <2>2
  <2>7. SubSeq(d, 1, 1) = App
    BY <2>5, <2>6, OwnWay
  <2>8. ASSUME NEW k \in 1 .. Len(d) - 1
        PROVE  /\ SubSeq(d, 1, k) \in DOMAIN Own
               /\ Entry("command", d[k + 1]) \in Members(kids[SubSeq(d, 1, k)])
    <3>1. CASE k = Len(c)
      <4>1. SubSeq(d, 1, k) = c /\ d[k + 1] = e.name
        BY <2>5, <3>1
      <4>. QED  BY <2>3, <4>1
    <3>2. CASE k # Len(c)
      <4> DEFINE n == Len(c)
      <4>0. n \in Nat /\ k \in 1 .. (n + 1) - 1 /\ k # n
        BY <2>5, <2>6, <3>2
      <4> HIDE DEF n
      <4>1. k \in 1 .. n - 1 /\ k \in 1 .. n /\ k + 1 \in 1 .. n
        BY <4>0
      <4> USE DEF n
      <4>2. SubSeq(d, 1, k) = SubSeq(c, 1, k) /\ d[k + 1] = c[k + 1]
        BY <2>5, <4>1
      <4>. QED  BY <4>1, <4>2, OwnWay
    <3>. QED  BY <3>1, <3>2
  <2>. QED  BY <2>5, <2>7, <2>8
<1>. QED  BY <1>1, <1>2 DEF OnTree

(* One of the calls that the loop over b makes is above what is below b.   *)
LEMMA Descend ==
  ASSUME Shape, NEW b \in Paths, NEW d, OnTree(d), Above(b, d), b # d
  PROVE  \E f \in Members(Loop(b)) : f.call = "set_parent" /\ Above(f.cmd, d)
<1> DEFINE k == Len(b)
           x == Entry("command", d[k + 1])
<1>1. b \in Seq(Names) /\ b # <<>> /\ d \in Seq(Names)
  BY PathsAre, Way
<1>2. k \in 1 .. Len(d) - 1 /\ SubSeq(d, 1, k) = b
  <2>1. k \in Nat /\ k # 0 /\ k <= Len(d) /\ Len(d) \in Nat
    BY <1>1 DEF Above
  <2>2. k # Len(d)
    <3>1. SubSeq(d, 1, Len(d)) = d
      BY <1>1
    <3>. QED  BY <3>1 DEF Above
  <2>. QED  BY <2>1, <2>2 DEF Above
<1>3. x \in Members(kids[b])
  BY <1>2, Way
<1>4. PICK i \in DOMAIN kids[b] : kids[b][i] = x
  BY <1>3 DEF Members
<1>5. x.kind = "command" /\ x.name = d[k + 1]
  BY DEF Entry
<1> DEFINE f == Loop(b)[i]
<1>6. f = Visit(Child(b, x), b) /\ f \in Members(Loop(b))
  BY <1>4, <1>5 DEF Loop, Members
<1>7. f.call = "set_parent" /\ f.cmd = Append(b, d[k + 1])
  BY <1>5, <1>6 DEF Visit, Child
<1> HIDE DEF f, x
<1>8. Above(Append(b, d[k + 1]), d)
  <2> DEFINE t == Append(b, d[k + 1])
  <2>1. Len(t) = k + 1 /\ k + 1 <= Len(d)
    BY <1>1, <1>2
  <2>2. SubSeq(d, 1, k + 1) = t
    BY <1>1, <1>2
  <2>. QED  BY <2>1, <2>2 DEF Above
<1>. QED  BY <1>6, <1>7, <1>8

---------------------------------------------------------------------------
(* What the set-ups of flags put into the table of b.                      *)
Within(k, m) == Members(k) \subseteq Members(m)

(* An entry of k stands for e.                                             *)
Stood(k, e) == \E x \in Members(k) : StandsFor(x, e)

LEMMA CommandStood ==
  ASSUME NEW k, NEW e, e.kind = "command"
  PROVE  Stood(k, e) <=> e \in Members(k)
BY CommandStands DEF Stood

LEMMA StoodStays ==
  ASSUME NEW k, NEW m, NEW e, Within(k, m), Stood(k, e)
  PROVE  Stood(m, e)
BY DEF Stood, Within

LEMMA MissingMembers ==
  ASSUME NEW k \in Seq(Entries), NEW m \in Seq(Entries), NEW e \in Entries,
         Within(k, m)
  PROVE  LET l == m \o Missing(k, e)
         IN  /\ l \in Seq(Entries) /\ Within(m, l) /\ Stood(l, e)
             /\ Members(l) \subseteq Members(m) \cup {e}
<1>1. CASE \E i \in DOMAIN k : StandsFor(k[i], e)
  <2>1. Missing(k, e) = <<>> /\ Stood(m, e)
    BY <1>1 DEF Missing, Members, Within, Stood
  <2>2. m \o <<>> = m
    OBVIOUS
  <2>. QED  BY <2>1, <2>2 DEF Within
<1>2. CASE ~ \E i \in DOMAIN k : StandsFor(k[i], e)
  <2>1. Missing(k, e) = <<e>> /\ <<e>> \in Seq(Entries)
    BY <1>2 DEF Missing
  <2> DEFINE t == <<e>>
  <2>2. Members(t) = {e} /\ t \in Seq(Entries)
    BY <2>1, MembersOne
  <2> HIDE DEF t
  <2>3. Members(m \o t) = Members(m) \cup Members(t) /\ m \o t \in Seq(Entries)
    BY <2>2, MembersJoined
  <2>4. Stood(m \o t, e) /\ Within(m, m \o t)
    BY <2>2, <2>3 DEF Stood, StandsFor, Within
  <2>. QED  BY <2>1, <2>2, <2>3, <2>4 DEF t
<1>. QED  BY <1>1, <1>2

LEMMA VersionMembers ==
  ASSUME KidsInv, NEW b \in Paths
  PROVE  /\ WithVersion(b) \in Seq(Entries) /\ Within(kids[b], WithVersion(b))
         /\ Members(WithVersion(b)) \subseteq Members(kids[b]) \cup
              IF b \notin Versioned \/ hidden[b].version THEN {}
              ELSE {VersionOption, VersionCommand}
         /\ b \in Versioned /\ ~ hidden[b].version =>
              /\ Stood(WithVersion(b), VersionOption)
              /\ VersionCommand \in Members(WithVersion(b))
<1> DEFINE k == kids[b]
           l == k \o Missing(k, VersionOption)
           m == l \o Missing(k, VersionCommand)
<1>1. k \in Seq(Entries) /\ Within(k, k)
  BY DEF KidsInv, Within
<1>2. /\ l \in Seq(Entries) /\ Within(k, l) /\ Stood(l, VersionOption)
      /\ Members(l) \subseteq Members(k) \cup {VersionOption}
  BY <1>1, FlagEntries, MissingMembers
<1> HIDE DEF k, l
<1>3. /\ m \in Seq(Entries) /\ Within(l, m) /\ Stood(m, VersionCommand)
      /\ Members(m) \subseteq Members(l) \cup {VersionCommand}
  BY <1>1, <1>2, FlagEntries, MissingMembers
<1> HIDE DEF m
<1>4. CASE b \notin Versioned \/ hidden[b].version
  BY <1>1, <1>4 DEF WithVersion, k
<1>5. CASE ~ (b \notin Versioned \/ hidden[b].version)
  <2>1. WithVersion(b) = m
    BY <1>5 DEF WithVersion, k, l, m
  <2>2. Stood(m, VersionOption) /\ Within(k, m)
    BY <1>2, <1>3, StoodStays DEF Within
  <2>3. VersionCommand \in Members(m)
    BY <1>3, FlagKinds, CommandStood
  <2>4. Members(m) \subseteq Members(k) \cup {VersionOption, VersionCommand}
    BY <1>2, <1>3
  <2>. QED  BY <1>3, <1>5, <2>1, <2>2, <2>3, <2>4 DEF k
<1>. QED  BY <1>4, <1>5

LEMMA HelpMembers ==
  ASSUME NEW b \in Paths, NEW k \in Seq(Entries)
  PROVE  /\ WithHelp(b, k) \in Seq(Entries) /\ Within(k, WithHelp(b, k))
         /\ Members(WithHelp(b, k)) \subseteq Members(k) \cup {HelpOption, HelpCommand}
         /\ HelpCommand \in Members(WithHelp(b, k)) =>
               HelpCommand \in Members(k) \/ HelpAdded(b, k)
         /\ ~ hidden[b].help => Stood(WithHelp(b, k), HelpOption)
<1> DEFINE l == k \o Missing(k, HelpOption)
<1>0. Within(k, k)
  BY DEF Within
<1>1. /\ l \in Seq(Entries) /\ Within(k, l) /\ Stood(l, HelpOption)
      /\ Members(l) \subseteq Members(k) \cup {HelpOption}
  BY <1>0, FlagEntries, MissingMembers
<1>2. HelpOption # HelpCommand
  BY DEF HelpOption, HelpCommand, Entry
<1>3. CASE hidden[b].help
  BY <1>0, <1>3 DEF WithHelp
<1>4. CASE ~ hidden[b].help /\ ~ HelpAdded(b, k)
  <2>1. WithHelp(b, k) = l \o <<>>
    BY <1>4 DEF WithHelp
  <2>2. l \o <<>> = l
    BY <1>1
  <2>. QED  BY <1>1, <1>2, <2>1, <2>2
<1>5. CASE ~ hidden[b].help /\ HelpAdded(b, k)
  <2> DEFINE t == <<HelpCommand>>
  <2>1. WithHelp(b, k) = l \o t /\ t \in Seq(Entries) /\ Members(t) = {HelpCommand}
    BY <1>5, FlagEntries, MembersOne DEF WithHelp
  <2> HIDE DEF l, t
  <2>2. Members(l \o t) = Members(l) \cup Members(t) /\ l \o t \in Seq(Entries)
    BY <1>1, <2>1, MembersJoined
  <2>3. Within(l, l \o t) /\ Within(k, l \o t)
    BY <1>1, <2>2 DEF Within
  <2>4. Stood(l \o t, HelpOption)
    BY <1>1, <2>3, StoodStays
  <2>. QED  BY <1>1, <1>5, <2>1, <2>2, <2>3, <2>4
<1>. QED  BY <1>3, <1>4, <1>5

(* Nothing is lost; a new command is the version command of a command that *)
(* has a version and shows it, or the help command, wired at once.         *)
LEMMA FlagsMembers ==
  ASSUME Shape, NEW b \in Paths
  PROVE  LET k   == WithVersion(b)
             new == WithHelp(b, k)
         IN  /\ Members(kids[b]) \subseteq Members(new)
             /\ \A e \in Members(new) \ Members(kids[b]) : e.kind = "command" =>
                  /\ b \in DOMAIN Own
                  /\ \/ e = VersionCommand /\ b \in Versioned /\ ~ hidden[b].version
                     \/ e = HelpCommand /\ HelpAdded(b, k)
             /\ b \in Versioned /\ ~ hidden[b].version => VersionCommand \in Members(new)
             /\ HelpAdded(b, k) => b \in DOMAIN Own /\ HelpCommand \in Members(new)
<1> DEFINE k == WithVersion(b)
           new == WithHelp(b, k)
<1>1. /\ k \in Seq(Entries) /\ Members(kids[b]) \subseteq Members(k)
      /\ Members(k) \subseteq Members(kids[b]) \cup
           IF b \notin Versioned \/ hidden[b].version THEN {}
           ELSE {VersionOption, VersionCommand}
      /\ b \in Versioned /\ ~ hidden[b].version => VersionCommand \in Members(k)
  BY VersionMembers DEF Shape, Within
<1>2. /\ Members(k) \subseteq Members(new)
      /\ Members(new) \subseteq Members(k) \cup {HelpOption, HelpCommand}
      /\ HelpCommand \in Members(new) => HelpCommand \in Members(k) \/ HelpAdded(b, k)
  BY <1>1, HelpMembers DEF Within
<1>3. /\ HelpOption.kind = "option" /\ VersionOption.kind = "option"
      /\ HelpCommand # VersionCommand /\ HelpCommand # VersionOption
  BY DEF HelpOption, VersionOption, HelpCommand, VersionCommand, Entry
<1>4. HelpAdded(b, k) => b \in DOMAIN Own
  <2>1. SUFFICES ASSUME HelpAdded(b, k) PROVE b \in DOMAIN Own
    OBVIOUS
  <2>2. PICK i \in DOMAIN k : k[i].kind = "command"
    BY <2>1 DEF HelpAdded, HasCommands
  <2>3. k[i] \in Members(k)
    BY <2>2 DEF Members
  <2>4. CASE k[i] \in Members(kids[b])
    BY <2>2, <2>4 DEF Shape
  <2>5. CASE k[i] \notin Members(kids[b])
    BY <1>1, <2>3, <2>5, PathsAre
  <2>. QED  BY <2>4, <2>5
<1>5. HelpAdded(b, k) => HelpCommand \in Members(new)
  <2>1. SUFFICES ASSUME HelpAdded(b, k) PROVE HelpCommand \in Members(new)
    OBVIOUS
  <2> DEFINE l == k \o Missing(k, HelpOption)
  <2>2. new = l \o <<HelpCommand>>
    BY <2>1 DEF WithHelp, HelpAdded
  <2>3. l \in Seq(Entries) /\ <<HelpCommand>> \in Seq(Entries)
    BY <1>1, FlagEntries, MissingMembers DEF Within
  <2> HIDE DEF l
  <2>4. Members(l \o <<HelpCommand>>) = Members(l) \cup Members(<<HelpCommand>>)
    BY <2>3, MembersJoined
  <2>. QED  BY <2>2, <2>4, MembersOne
<1> HIDE DEF k, new
<1>6. ASSUME NEW e \in Members(new) \ Members(kids[b]), e.kind = "command"
      PROVE  /\ b \in DOMAIN Own
             /\ \/ e = VersionCommand /\ b \in Versioned /\ ~ hidden[b].version
                \/ e = HelpCommand /\ HelpAdded(b, k)
  <2>1. CASE e \in Members(k)
    <3>1. e = VersionCommand /\ b \in Versioned /\ ~ hidden[b].version
      BY <1>1, <1>3, <1>6, <2>1
    <3>. QED  BY <3>1, PathsAre
  <2>2. CASE e \notin Members(k)
    <3>1. e = HelpCommand
      BY <1>2, <1>3, <1>6, <2>2
    <3>. QED  BY <1>2, <1>4, <1>6, <2>2, <3>1
  <2>. QED  BY <2>1, <2>2
<1>7. Members(kids[b]) \subseteq Members(new)
  BY <1>1, <1>2
<1>8. b \in Versioned /\ ~ hidden[b].version => VersionCommand \in Members(new)
  BY <1>1, <1>2
<1>. QED  BY <1>4, <1>5, <1>6, <1>7, <1>8 DEF k, new

---------------------------------------------------------------------------
(* What set_parent has left to do when a run is between two of its calls.  *)
Frames == [call : {"none", "flags", "set_parent"}, cmd : Paths, parent : Paths \cup {Nil}]

Legal(f) ==
  /\ f.call = "flags" => Good(f.cmd)
  /\ f.call = "set_parent" =>
       \/ f.cmd = App /\ f.parent = Nil
       \/ /\ f.parent \in DOMAIN Own /\ Good(f.parent)
          /\ \E e \in Members(kids[f.parent]) : e.kind = "command" /\ f.cmd = Child(f.parent, e)

Stacked == stack \in Seq(Frames) /\ \A f \in Members(stack) : Legal(f)

(* A call that will come to d.                                             *)
Due(d) == \E f \in Members(stack) : f.call = "set_parent" /\ Above(f.cmd, d)

(* The version command that the first run adds is not given its parent.    *)
Late(c, e) == e = VersionCommand /\ runs = 0 /\ Child(c, e) \notin DOMAIN Own
Right(c, e) == parent[Child(c, e)] = c /\ Good(Child(c, e))

Wires ==
  \A c \in Paths : \A e \in Members(kids[c]) : e.kind = "command" =>
    Late(c, e) \/ Right(c, e) \/ (phase = "setup" /\ Due(Child(c, e)))

(* A version command is only added by the first run.                       *)
Looked(c) == hidden[App].version \/ VersionCommand \in Members(kids[c])
Looks ==
  \A c \in Versioned :
    \/ Looked(c)
    \/ runs = 0 /\ phase = "idle"
    \/ runs = 0 /\ phase = "setup" /\ (Due(c) \/ Flags(c) \in Members(stack))

WireInv ==
  /\ Shape /\ runs \in Nat /\ Looks
  /\ phase = "setup" => Stacked
  /\ phase \in {"setup", "parse"} => Wires

LEMMA WireInit == Init => WireInv
<1> SUFFICES ASSUME Init PROVE WireInv
  OBVIOUS
<1>1. KidsInv
  BY KidsInit
<1>2. \A c \in DOMAIN Own : kids[c] = Own[c]
  BY PathsAre DEF Init
<1>3. ASSUME NEW c \in Paths, NEW e \in Members(kids[c]), e.kind = "command"
      PROVE  c \in DOMAIN Own /\ Child(c, e) \in Paths
  <2>1. c \in DOMAIN Own
    BY <1>3, MembersOne DEF Init
  <2>2. PICK i \in DOMAIN Own[c] : e = Own[c][i]
    BY <1>2, <1>3, <2>1 DEF Members
  <2>. QED  BY <1>3, <2>1, <2>2, AppAssumption, PathsAre
<1>4. ASSUME NEW c \in Paths PROVE DOMAIN hidden[c] = {"help", "version"}
  BY AppAssumption DEF Init
<1>5. DOMAIN parent = Paths /\ DOMAIN wired = Paths /\ DOMAIN hidden = Paths /\ wired[App]
  BY PathsAre DEF Init
<1>6. Shape
  BY <1>1, <1>2, <1>3, <1>4, <1>5 DEF Shape
<1>. QED  BY <1>6 DEF Init, WireInv, Looks

(* What it means that set_parent gives c the parent p.                     *)
LEMMA WireGood ==
  ASSUME Shape, NEW c \in Paths, NEW p \in Paths, Good(p), c # App, Wire(c, p)
  PROVE  /\ DOMAIN parent' = Paths /\ DOMAIN wired' = Paths /\ DOMAIN hidden' = Paths
         /\ \A x \in Paths : DOMAIN hidden'[x] = {"help", "version"}
         /\ wired'[App] /\ hidden'[App] = hidden[App]
         /\ parent'[c] = p /\ Good(c)'
         /\ \A x \in Paths : x # c => parent'[x] = parent[x]
         /\ \A x \in Paths : Good(x) => Good(x)'
<1>1. /\ parent' = [parent EXCEPT ![c] = p]
      /\ wired' = [wired EXCEPT ![c] = wired[p]]
      /\ hidden' = [hidden EXCEPT ![c] = hidden[p]]
  BY PathsAre DEF Wire
<1>2. /\ DOMAIN parent = Paths /\ DOMAIN wired = Paths /\ DOMAIN hidden = Paths
      /\ \A x \in Paths : DOMAIN hidden[x] = {"help", "version"}
      /\ wired[App] /\ App \in Paths
  BY PathsAre DEF Shape
<1>3. /\ wired'[c] = wired[p] /\ hidden'[c] = hidden[p] /\ parent'[c] = p
      /\ \A x \in Paths : x # c =>
           wired'[x] = wired[x] /\ hidden'[x] = hidden[x] /\ parent'[x] = parent[x]
      /\ DOMAIN parent' = Paths /\ DOMAIN wired' = Paths /\ DOMAIN hidden' = Paths
  BY <1>1, <1>2
<1>4. hidden'[App] = hidden[App] /\ wired'[App]
  BY <1>2, <1>3
<1>5. Good(c)'
  BY <1>3, <1>4 DEF Good
<1>6. ASSUME NEW x \in Paths, Good(x) PROVE Good(x)'
  BY <1>3, <1>4, <1>5, <1>6 DEF Good
<1>7. ASSUME NEW x \in Paths PROVE DOMAIN hidden'[x] = {"help", "version"}
  BY <1>2, <1>3
<1>. QED  BY <1>3, <1>4, <1>5, <1>6, <1>7

(* A command in the table of c.                                            *)
LEMMA CommandIs ==
  ASSUME Shape, NEW c \in Paths, NEW e \in Members(kids[c]), e.kind = "command"
  PROVE  /\ c \in DOMAIN Own /\ e.name \in Names
         /\ Child(c, e) = Append(c, e.name) /\ Child(c, e) \in Paths /\ Child(c, e) # App
         /\ OnTree(Child(c, e))
         /\ \A b \in Paths, n \in Names : Append(b, n) = Child(c, e) => b = c /\ n = e.name
<1>1. c \in DOMAIN Own /\ Child(c, e) \in Paths /\ e.name \in Names
  BY KidIs DEF Shape
<1>2. Child(c, e) = Append(c, e.name)
  BY DEF Child
<1>3. Child(c, e) # App
  BY <1>1, <1>2, AppOnTop
<1>4. OnTree(Child(c, e))
  BY <1>1 DEF OnTree
<1>5. ASSUME NEW b \in Paths, NEW n \in Names, Append(b, n) = Append(c, e.name)
      PROVE  b = c /\ n = e.name
  BY <1>1, <1>5, OwnParent, PathsAre
<1>. QED  BY <1>1, <1>2, <1>3, <1>4, <1>5

(* The calls that the loop over c makes.                                   *)
LEMMA LoopIs ==
  ASSUME Shape, NEW c \in Paths
  PROVE  /\ Loop(c) \in Seq(Frames)
         /\ \A f \in Members(Loop(c)) : f = Pass
              \/ \E e \in Members(kids[c]) : e.kind = "command" /\ f = Visit(Child(c, e), c)
<1>1. kids[c] \in Seq(Entries)
  BY DEF Shape, KidsInv
<1> DEFINE k == kids[c]
           F(i) == IF k[i].kind = "command" THEN Visit(Child(c, k[i]), c) ELSE Pass
<1>2. ASSUME NEW i \in DOMAIN k
      PROVE  /\ F(i) = Pass
                \/ \E e \in Members(k) : e.kind = "command" /\ F(i) = Visit(Child(c, e), c)
             /\ F(i) \in Frames
  <2>1. k[i] \in Members(k)
    BY DEF Members
  <2>2. CASE k[i].kind = "command"
    <3>1. F(i) = Visit(Child(c, k[i]), c)
      BY <2>2
    <3>2. Child(c, k[i]) \in Paths
      BY <2>1, <2>2, CommandIs
    <3>3. Visit(Child(c, k[i]), c) \in Frames
      BY <3>2 DEF Visit, Frames
    <3>. QED  BY <2>1, <2>2, <3>1, <3>3
  <2>3. CASE k[i].kind # "command"
    <3>1. F(i) = Pass
      BY <2>3
    <3>2. Pass \in Frames
      BY PathsAre DEF Pass, Frames
    <3>. QED  BY <3>1, <3>2
  <2>. QED  BY <2>2, <2>3
<1>3. Loop(c) = [i \in DOMAIN k |-> F(i)]
  BY DEF Loop
<1>4. DOMAIN k = 1 .. Len(k) /\ Len(k) \in Nat
  BY <1>1
<1> HIDE DEF F, k
<1>5. Loop(c) \in Seq(Frames)
  BY <1>2, <1>3, <1>4
<1>6. ASSUME NEW f \in Members(Loop(c))
      PROVE  f = Pass \/ \E e \in Members(k) : e.kind = "command" /\ f = Visit(Child(c, e), c)
  <2>1. PICK i \in DOMAIN k : f = F(i)
    BY <1>3 DEF Members
  <2>. QED  BY <1>2, <2>1
<1>. QED  BY <1>5, <1>6 DEF k

(* The top of the stack, and what is under it.                             *)
LEMMA TopIs ==
  ASSUME Stacked, stack # <<>>
  PROVE  /\ Head(stack) \in Frames /\ Tail(stack) \in Seq(Frames)
         /\ Members(stack) = {Head(stack)} \cup Members(Tail(stack))
         /\ Head(stack).cmd \in Paths /\ Head(stack).parent \in Paths \cup {Nil}
         /\ Legal(Head(stack))
<1>1. /\ Head(stack) \in Frames /\ Tail(stack) \in Seq(Frames)
      /\ Members(stack) = {Head(stack)} \cup Members(Tail(stack))
  BY MembersHead DEF Stacked
<1>2. Legal(Head(stack))
  BY <1>1 DEF Stacked
<1>. QED  BY <1>1, <1>2 DEF Frames

(* A call stays legal as long as no table loses an entry and what          *)
(* set_parent has been to stays so.                                        *)
LEMMA LegalKept ==
  ASSUME Shape, NEW f \in Frames, Legal(f),
         \A x \in Paths : Good(x) => Good(x)',
         \A x \in Paths : Members(kids[x]) \subseteq Members(kids'[x])
  PROVE  Legal(f)'
<1>1. f.cmd \in Paths
  BY DEF Frames
<1>2. f.call = "flags" => Good(f.cmd)'
  BY <1>1 DEF Legal
<1>3. ASSUME f.call = "set_parent", f.parent \in DOMAIN Own, Good(f.parent),
             \E e \in Members(kids[f.parent]) : e.kind = "command" /\ f.cmd = Child(f.parent, e)
      PROVE  /\ Good(f.parent)'
             /\ \E e \in Members(kids'[f.parent]) :
                   e.kind = "command" /\ f.cmd = Child(f.parent, e)
  BY <1>3, PathsAre
<1>. QED  BY <1>2, <1>3 DEF Legal

(* set_parent goes down one step: what was due through its call is done or *)
(* due through one of the calls it makes.                                  *)
LEMMA SetParentWires == WireInv /\ SetParent => WireInv'
<1> SUFFICES ASSUME WireInv, SetParent PROVE WireInv'
  OBVIOUS
<1>1. Shape /\ runs \in Nat /\ Looks /\ Stacked /\ Wires /\ phase = "setup" /\ stack # <<>>
  BY DEF WireInv, SetParent
<1>2. PICK top \in Frames : top = Head(stack)
  BY <1>1, TopIs
<1>3. PICK c \in Paths : c = top.cmd
  BY <1>1, <1>2, TopIs
<1>4. /\ top.call = "set_parent" /\ Wire(c, top.parent) /\ kids' = kids /\ runs' = runs
      /\ phase' = "setup" /\ stack' = Loop(c) \o <<Flags(c)>> \o Tail(stack)
  BY <1>1, <1>2, <1>3 DEF SetParent
<1>5. \/ c = App /\ top.parent = Nil
      \/ /\ top.parent \in DOMAIN Own /\ Good(top.parent)
         /\ \E e \in Members(kids[top.parent]) : e.kind = "command" /\ c = Child(top.parent, e)
  BY <1>1, <1>2, <1>3, <1>4, TopIs DEF Legal
<1>6. /\ DOMAIN parent' = Paths /\ DOMAIN wired' = Paths /\ DOMAIN hidden' = Paths
      /\ \A x \in Paths : DOMAIN hidden'[x] = {"help", "version"}
      /\ wired'[App] /\ hidden'[App] = hidden[App] /\ Good(c)'
      /\ \A x \in Paths : x # c => parent'[x] = parent[x]
      /\ \A x \in Paths : Good(x) => Good(x)'
      /\ \A b \in Paths : \A e \in Members(kids[b]) :
           e.kind = "command" /\ Child(b, e) = c => parent'[c] = b
  <2>1. CASE c = App /\ top.parent = Nil
    <3>1. /\ wired' = wired /\ hidden' = hidden /\ parent' = [parent EXCEPT ![c] = Nil]
      BY <1>4, <2>1 DEF Wire
    <3>2. \A b \in Paths : \A e \in Members(kids[b]) : e.kind = "command" => Child(b, e) # c
      BY <1>1, <2>1, CommandIs
    <3>3. wired[App]
      BY <1>1 DEF Shape
    <3>. QED  BY <1>1, <2>1, <3>1, <3>2, <3>3 DEF Shape, Good
  <2>2. CASE /\ top.parent \in DOMAIN Own /\ Good(top.parent)
             /\ \E e \in Members(kids[top.parent]) :
                   e.kind = "command" /\ c = Child(top.parent, e)
    <3>1. PICK p \in Paths : p = top.parent
      BY <2>2, PathsAre
    <3>2. PICK e \in Members(kids[p]) : e.kind = "command" /\ c = Child(p, e)
      BY <2>2, <3>1
    <3>3. c # App /\ Good(p) /\ Wire(c, p) /\ c = Append(p, e.name) /\ e.name \in Names
      BY <1>1, <1>4, <2>2, <3>1, <3>2, CommandIs
    <3>4. \A b \in Paths : \A x \in Members(kids[b]) :
             x.kind = "command" /\ Child(b, x) = c => p = b
      BY <1>1, <3>3, CommandIs
    <3>. QED  BY <1>1, <3>3, <3>4, WireGood
  <2>. QED  BY <1>5, <2>1, <2>2
<1>7. KidsInv'
  BY <1>1, KidsStep DEF Shape, Next
<1>8. Shape'
  BY <1>1, <1>4, <1>6, <1>7 DEF Shape
<1> DEFINE u == <<Flags(c)>>
           t == Tail(stack)
           l == Loop(c)
<1>9. u \in Seq(Frames) /\ Members(u) = {Flags(c)} /\ t \in Seq(Frames) /\ l \in Seq(Frames)
  <2>1. Flags(c) \in Frames
    BY DEF Flags, Frames
  <2>2. u \in Seq(Frames)
    BY <2>1
  <2>. QED  BY <1>1, <2>2, TopIs, LoopIs, MembersOne
<1>10. /\ stack' \in Seq(Frames)
       /\ Members(stack') = Members(l) \cup {Flags(c)} \cup Members(t)
       /\ Members(stack) = {top} \cup Members(t)
  <2>1. stack' = (l \o u) \o t
    BY <1>4
  <2>2. Members(stack) = {top} \cup Members(t)
    BY <1>1, <1>2, TopIs
  <2> HIDE DEF u, t, l
  <2>3. l \o u \in Seq(Frames) /\ Members(l \o u) = Members(l) \cup Members(u)
    BY <1>9, MembersJoined
  <2> DEFINE lu == l \o u
  <2>4. lu \in Seq(Frames) /\ Members(lu) = Members(l) \cup Members(u) /\ stack' = lu \o t
    BY <2>1, <2>3
  <2> HIDE DEF lu
  <2>5. lu \o t \in Seq(Frames) /\ Members(lu \o t) = Members(lu) \cup Members(t)
    BY <1>9, <2>4, MembersJoined
  <2>. QED  BY <1>9, <2>2, <2>4, <2>5
<1>11. \A f \in Members(l) : f = Pass
         \/ \E e \in Members(kids[c]) : e.kind = "command" /\ f = Visit(Child(c, e), c)
  BY <1>1, LoopIs
<1>12. \A f \in Members(t) : f \in Frames /\ Legal(f)
  <2>1. Members(t) \subseteq Frames
    BY <1>9 DEF Members
  <2>. QED  BY <1>1, <1>10, <2>1 DEF Stacked
<1> HIDE DEF u, t
<1>13. \A f \in Members(stack') : Legal(f)'
  <2>1. ASSUME NEW f \in Members(t) PROVE Legal(f)'
    BY <1>1, <1>4, <1>6, <1>12, LegalKept
  <2>2. Legal(Flags(c))'
    BY <1>6 DEF Legal, Flags
  <2>3. ASSUME NEW f \in Members(l) PROVE Legal(f)'
    <3>1. CASE f = Pass
      BY <3>1 DEF Legal, Pass
    <3>2. CASE \E e \in Members(kids[c]) : e.kind = "command" /\ f = Visit(Child(c, e), c)
      <4>1. PICK e \in Members(kids[c]) : e.kind = "command" /\ f = Visit(Child(c, e), c)
        BY <3>2
      <4>2. c \in DOMAIN Own /\ e \in Members(kids'[c])
        BY <1>1, <1>4, <4>1, CommandIs
      <4>3. f.call = "set_parent" /\ f.parent = c /\ f.cmd = Child(c, e)
        BY <4>1 DEF Visit
      <4>. QED  BY <1>6, <4>1, <4>2, <4>3 DEF Legal
    <3>. QED  BY <1>11, <3>1, <3>2
  <2>. QED  BY <1>10, <2>1, <2>2, <2>3
<1>14. Stacked'
  BY <1>10, <1>13 DEF Stacked
<1>15. ASSUME NEW d \in Paths, OnTree(d), Due(d), d # c PROVE Due(d)'
  <2>1. PICK f \in Members(stack) : f.call = "set_parent" /\ Above(f.cmd, d)
    BY <1>15 DEF Due
  <2>2. CASE f \in Members(t)
    BY <1>10, <2>1, <2>2 DEF Due
  <2>3. CASE f = top
    <3>1. \E g \in Members(l) : g.call = "set_parent" /\ Above(g.cmd, d)
      BY <1>1, <1>3, <1>15, <2>1, <2>3, Descend
    <3>. QED  BY <1>10, <3>1 DEF Due
  <2>. QED  BY <1>10, <2>1, <2>2, <2>3
<1>16. Wires'
  <2> SUFFICES ASSUME NEW b \in Paths, NEW e \in Members(kids[b]), e.kind = "command"
               PROVE  Late(b, e)' \/ Right(b, e)' \/ Due(Child(b, e))'
    BY <1>4 DEF Wires
  <2>1. Late(b, e) \/ Right(b, e) \/ Due(Child(b, e))
    BY <1>1 DEF Wires
  <2>2. Child(b, e) \in Paths /\ OnTree(Child(b, e))
    BY <1>1, CommandIs
  <2>3. CASE Late(b, e)
    BY <1>4, <2>3 DEF Late
  <2>4. CASE Child(b, e) = c
    BY <1>6, <2>4 DEF Right
  <2>5. CASE Child(b, e) # c /\ Right(b, e)
    <3>1. parent'[Child(b, e)] = b /\ Good(Child(b, e))'
      BY <1>6, <2>2, <2>5 DEF Right
    <3>. QED  BY <3>1 DEF Right
  <2>6. CASE Child(b, e) # c /\ Due(Child(b, e))
    BY <1>15, <2>2, <2>6
  <2>. QED  BY <2>1, <2>3, <2>4, <2>5, <2>6
<1>17. Looks'
  <2> SUFFICES ASSUME NEW b \in Versioned
               PROVE  Looked(b)' \/ (runs' = 0 /\ (Due(b)' \/ Flags(b) \in Members(stack')))
    BY <1>4 DEF Looks
  <2>1. Looked(b) \/ (runs = 0 /\ (Due(b) \/ Flags(b) \in Members(stack)))
    BY <1>1 DEF Looks
  <2>2. b \in DOMAIN Own /\ b \in Paths
    BY PathsAre
  <2>3. CASE Looked(b)
    BY <1>4, <1>6, <2>3 DEF Looked
  <2>4. CASE runs = 0 /\ Due(b)
    <3>1. CASE b = c
      BY <1>4, <1>10, <2>4, <3>1
    <3>2. CASE b # c
      BY <1>4, <1>15, <2>2, <2>4, <3>2 DEF OnTree
    <3>. QED  BY <3>1, <3>2
  <2>5. CASE runs = 0 /\ Flags(b) \in Members(stack)
    <3>1. Flags(b) # top
      BY <1>4 DEF Flags
    <3>. QED  BY <1>4, <1>10, <2>5, <3>1
  <2>. QED  BY <2>1, <2>3, <2>4, <2>5
<1>. QED  BY <1>1, <1>4, <1>8, <1>14, <1>16, <1>17 DEF WireInv

(* The flags of c: only the first run finds a version command missing, and *)
(* that command is the one left to the next run; the help command is given *)
(* its parent at once.                                                     *)
LEMMA SetupFlagsWires == WireInv /\ SetupFlags => WireInv'
<1> SUFFICES ASSUME WireInv, SetupFlags PROVE WireInv'
  OBVIOUS
<1>1. Shape /\ runs \in Nat /\ Looks /\ Stacked /\ Wires /\ phase = "setup" /\ stack # <<>>
  BY DEF WireInv, SetupFlags
<1>2. PICK top \in Frames : top = Head(stack)
  BY <1>1, TopIs
<1>3. PICK c \in Paths : c = top.cmd
  BY <1>1, <1>2, TopIs
<1> DEFINE k == WithVersion(c)
           new == WithHelp(c, k)
           t == Tail(stack)
           h == Child(c, HelpCommand)
<1>4. /\ top.call = "flags" /\ kids' = [kids EXCEPT ![c] = new] /\ stack' = t
      /\ runs' = runs /\ phase' = "setup"
      /\ IF HelpAdded(c, k) THEN Wire(h, c) ELSE UNCHANGED <<parent, wired, hidden>>
  BY <1>1, <1>2, <1>3 DEF SetupFlags
<1>5. Good(c)
  BY <1>1, <1>2, <1>3, <1>4, TopIs DEF Legal
<1>6. /\ Members(kids[c]) \subseteq Members(new)
      /\ \A e \in Members(new) \ Members(kids[c]) : e.kind = "command" =>
           /\ c \in DOMAIN Own
           /\ \/ e = VersionCommand /\ c \in Versioned /\ ~ hidden[c].version
              \/ e = HelpCommand /\ HelpAdded(c, k)
      /\ c \in Versioned /\ ~ hidden[c].version => VersionCommand \in Members(new)
      /\ HelpAdded(c, k) => c \in DOMAIN Own /\ HelpCommand \in Members(new)
  BY <1>1, FlagsMembers
<1>7. /\ h = Append(c, "help") /\ "help" \in Names /\ h # App
      /\ HelpAdded(c, k) => h \in Paths
  <2>1. h = Append(c, "help") /\ "help" \in Names
    BY AppAssumption DEF Child, HelpCommand, Entry
  <2>2. HelpAdded(c, k) => h \in Paths
    BY <1>6, <2>1 DEF Paths
  <2>. QED  BY <2>1, <2>2, AppOnTop
<1> HIDE DEF k, new, h
<1>8. /\ DOMAIN parent' = Paths /\ DOMAIN wired' = Paths /\ DOMAIN hidden' = Paths
      /\ \A x \in Paths : DOMAIN hidden'[x] = {"help", "version"}
      /\ wired'[App] /\ hidden'[App] = hidden[App]
      /\ \A x \in Paths : x # h => parent'[x] = parent[x]
      /\ \A x \in Paths : Good(x) => Good(x)'
      /\ HelpAdded(c, k) => parent'[h] = c /\ Good(h)'
  <2>1. CASE HelpAdded(c, k)
    <3>1. PICK x \in Paths : x = h
      BY <1>7, <2>1
    <3>2. x # App /\ Wire(x, c)
      BY <1>4, <1>7, <2>1, <3>1
    <3>3. /\ parent'[x] = c /\ Good(x)'
          /\ \A y \in Paths : y # x => parent'[y] = parent[y]
          /\ \A y \in Paths : Good(y) => Good(y)'
      BY <1>1, <1>5, <3>2, WireGood
    <3>4. /\ DOMAIN parent' = Paths /\ DOMAIN wired' = Paths /\ DOMAIN hidden' = Paths
          /\ \A y \in Paths : DOMAIN hidden'[y] = {"help", "version"}
          /\ wired'[App] /\ hidden'[App] = hidden[App]
      BY <1>1, <1>5, <3>2, WireGood
    <3>5. parent'[h] = c /\ Good(h)'
      BY <3>1, <3>3 DEF Good
    <3>. QED  BY <3>1, <3>3, <3>4, <3>5
  <2>2. CASE ~ HelpAdded(c, k)
    <3>1. parent' = parent /\ wired' = wired /\ hidden' = hidden
      BY <1>4, <2>2
    <3>. QED  BY <1>1, <2>2, <3>1 DEF Shape, Good
  <2>. QED  BY <2>1, <2>2
<1>9. KidsInv'
  BY <1>1, KidsStep DEF Shape, Next
<1>10. /\ kids'[c] = new
       /\ \A x \in Paths : x # c => kids'[x] = kids[x]
       /\ \A x \in Paths : Members(kids[x]) \subseteq Members(kids'[x])
  BY <1>1, <1>4, <1>6 DEF Shape, KidsInv
<1>11. ASSUME NEW x \in Paths, NEW e \in Members(kids'[x]), e.kind = "command"
       PROVE  x \in DOMAIN Own /\ Child(x, e) \in Paths
  <2>1. CASE e \in Members(kids[x])
    BY <1>1, <1>11, <2>1, CommandIs
  <2>2. CASE e \notin Members(kids[x])
    <3>1. x = c /\ e \in Members(new) \ Members(kids[c])
      BY <1>10, <1>11, <2>2
    <3>2. c \in DOMAIN Own /\ (e = VersionCommand \/ e = HelpCommand)
      BY <1>6, <1>11, <3>1
    <3>3. e.name \in {"help", "version"}
      BY <3>2 DEF VersionCommand, HelpCommand, Entry
    <3>. QED  BY <3>1, <3>2, <3>3 DEF Child, Paths
  <2>. QED  BY <2>1, <2>2
<1>12. Shape'
  <2>1. \A x \in DOMAIN Own : Members(Own[x]) \subseteq Members(kids'[x])
    BY <1>1, <1>10, PathsAre DEF Shape
  <2>. QED  BY <1>8, <1>9, <1>11, <2>1 DEF Shape
<1>13. /\ t \in Seq(Frames) /\ Members(stack) = {top} \cup Members(t)
  BY <1>1, <1>2, TopIs
<1>14. Stacked'
  <2>1. ASSUME NEW f \in Members(t) PROVE Legal(f)'
    <3>1. f \in Frames
      BY <1>13 DEF Members
    <3>2. Legal(f)
      BY <1>1, <1>13 DEF Stacked
    <3>. QED  BY <1>1, <1>8, <1>10, <3>1, <3>2, LegalKept
  <2>. QED  BY <1>4, <1>13, <2>1 DEF Stacked
<1>15. ASSUME NEW d \in Paths, Due(d) PROVE Due(d)'
  BY <1>4, <1>13, <1>15 DEF Due
<1>16. ASSUME c \in Versioned, ~ hidden[c].version, VersionCommand \notin Members(kids[c])
       PROVE  runs = 0 /\ Child(c, VersionCommand) \notin DOMAIN Own
  <2>1. ~ hidden[App].version
    BY <1>5, <1>16 DEF Good
  <2>2. ~ Looked(c)
    BY <1>16, <2>1 DEF Looked
  <2>3. runs = 0
    BY <1>1, <1>16, <2>2 DEF Looks
  <2>4. ASSUME Child(c, VersionCommand) \in DOMAIN Own PROVE FALSE
    <3> DEFINE d == Child(c, VersionCommand)
    <3>1. d = Append(c, "version") /\ c \in Seq(Names) /\ c # <<>> /\ "version" \in Names
      BY AppAssumption, PathsAre DEF Child, VersionCommand, Entry
    <3>2. d \in DOMAIN Own
      BY <2>4
    <3> HIDE DEF d
    <3>3. Len(d) = Len(c) + 1 /\ d[Len(d)] = "version" /\ SubSeq(d, 1, Len(c)) = c
      BY <3>1, ChildIs
    <3> DEFINE n == Len(c)
    <3>4. n \in Nat /\ n # 0
      BY <3>1
    <3>5. Len(d) = n + 1 /\ d[n + 1] = "version" /\ SubSeq(d, 1, n) = c
      BY <3>3
    <3> HIDE DEF n
    <3>6. n \in 1 .. Len(d) - 1
      BY <3>4, <3>5
    <3>7. Entry("command", "version") \in Members(kids[c])
      BY <1>1, <3>2, <3>5, <3>6, OwnWay
    <3>. QED  BY <1>16, <3>7 DEF VersionCommand
  <2>. QED  BY <2>3, <2>4
<1>17. Wires'
  <2> SUFFICES ASSUME NEW b \in Paths, NEW e \in Members(kids'[b]), e.kind = "command"
               PROVE  Late(b, e)' \/ Right(b, e)' \/ Due(Child(b, e))'
    BY <1>4 DEF Wires
  <2>1. CASE e \in Members(kids[b])
    <3>1. Late(b, e) \/ Right(b, e) \/ Due(Child(b, e))
      BY <1>1, <2>1 DEF Wires
    <3>2. Child(b, e) \in Paths
      BY <1>1, <2>1, CommandIs
    <3>3. CASE Late(b, e)
      BY <1>4, <3>3 DEF Late
    <3>4. CASE Due(Child(b, e))
      BY <1>15, <3>2, <3>4
    <3>5. CASE Right(b, e)
      <4>1. Good(Child(b, e))'
        BY <1>8, <3>2, <3>5 DEF Right
      <4>2. parent'[Child(b, e)] = b
        <5>1. CASE Child(b, e) # h
          BY <1>8, <3>2, <3>5, <5>1 DEF Right
        <5>2. CASE Child(b, e) = h
          <6>1. c = b
            BY <1>1, <1>7, <2>1, <5>2, CommandIs
          <6>2. CASE HelpAdded(c, k)
            BY <1>8, <5>2, <6>1, <6>2
          <6>3. CASE ~ HelpAdded(c, k)
            BY <1>4, <3>5, <6>3 DEF Right
          <6>. QED  BY <6>2, <6>3
        <5>. QED  BY <5>1, <5>2
      <4>. QED  BY <4>1, <4>2 DEF Right
    <3>. QED  BY <3>1, <3>3, <3>4, <3>5
  <2>2. CASE e \notin Members(kids[b])
    <3>1. b = c /\ e \in Members(new) \ Members(kids[c])
      BY <1>10, <2>2
    <3>2. CASE e = VersionCommand /\ c \in Versioned /\ ~ hidden[c].version
      BY <1>4, <1>16, <3>1, <3>2 DEF Late
    <3>3. CASE e = HelpCommand /\ HelpAdded(c, k)
      <4>1. Child(b, e) = h
        BY <3>1, <3>3 DEF h
      <4>. QED  BY <1>8, <3>1, <3>3, <4>1 DEF Right
    <3>. QED  BY <1>6, <3>1, <3>2, <3>3
  <2>. QED  BY <2>1, <2>2
<1>18. Looks'
  <2> SUFFICES ASSUME NEW b \in Versioned
               PROVE  Looked(b)' \/ (runs' = 0 /\ (Due(b)' \/ Flags(b) \in Members(stack')))
    BY <1>4 DEF Looks
  <2>1. Looked(b) \/ (runs = 0 /\ (Due(b) \/ Flags(b) \in Members(stack)))
    BY <1>1 DEF Looks
  <2>2. b \in Paths
    BY PathsAre
  <2>3. CASE Looked(b)
    BY <1>8, <1>10, <2>2, <2>3 DEF Looked
  <2>4. CASE runs = 0 /\ Due(b)
    BY <1>4, <1>15, <2>2, <2>4
  <2>5. CASE runs = 0 /\ Flags(b) \in Members(stack)
    <3>1. CASE b = c
      BY <1>5, <1>6, <1>8, <1>10, <3>1 DEF Looked, Good
    <3>2. CASE b # c
      <4>1. Flags(b) # top
        BY <1>3, <3>2 DEF Flags
      <4>. QED  BY <1>4, <1>13, <2>5, <4>1
    <3>. QED  BY <3>1, <3>2
  <2>. QED  BY <2>1, <2>3, <2>4, <2>5
<1>. QED  BY <1>1, <1>4, <1>12, <1>14, <1>17, <1>18 DEF WireInv

(* Everything is below the application, where a run starts.                *)
LEMMA RunWires == WireInv /\ (\E l \in Lines : Run(l)) => WireInv'
<1> SUFFICES ASSUME WireInv, \E l \in Lines : Run(l) PROVE WireInv'
  OBVIOUS
<1> DEFINE v == Visit(App, Nil)
<1>1. Shape /\ runs \in Nat /\ Looks
  BY DEF WireInv
<1>2. /\ phase = "idle" /\ phase' = "setup" /\ stack' = <<v>> /\ runs' = runs
      /\ kids' = kids /\ parent' = parent /\ wired' = wired /\ hidden' = hidden
  BY DEF Run, tree
<1>3. v \in Frames /\ Legal(v)' /\ v.call = "set_parent" /\ v.cmd = App
  BY PathsAre DEF Visit, Frames, Legal
<1> HIDE DEF v
<1>4. stack' \in Seq(Frames) /\ Members(stack') = {v}
  <2>1. <<v>> \in Seq(Frames) /\ Members(<<v>>) = {v}
    BY <1>3, MembersOne
  <2>. QED  BY <1>2, <2>1
<1>5. ASSUME NEW d, OnTree(d) PROVE Due(d)'
  <2>1. d \in Seq(Names) /\ d # <<>> /\ SubSeq(d, 1, 1) = App
    BY <1>1, <1>5, Way
  <2>2. Len(App) = 1 /\ Len(d) >= 1
    BY <2>1, TreeAssumption
  <2>3. Above(App, d)
    BY <2>1, <2>2 DEF Above
  <2>. QED  BY <1>3, <1>4, <2>3 DEF Due
<1>6. Stacked'
  BY <1>3, <1>4 DEF Stacked
<1>7. Wires'
  <2>1. \A b \in Paths : \A e \in Members(kids[b]) :
           e.kind = "command" => OnTree(Child(b, e))
    BY <1>1, CommandIs
  <2>. QED  BY <1>2, <1>5, <2>1 DEF Wires
<1>8. Looks'
  <2>1. \A b \in Versioned : Due(b)'
    BY <1>5, PathsAre DEF OnTree
  <2>2. \A b \in Versioned : Looked(b) => Looked(b)'
    BY <1>2 DEF Looked
  <2>3. \A b \in Versioned : Looked(b) \/ runs = 0
    BY <1>1 DEF Looks
  <2>. QED  BY <1>2, <2>1, <2>2, <2>3 DEF Looks
<1>9. Shape'
  BY <1>1, <1>2 DEF Shape, KidsInv, NoDuplicates
<1>. QED  BY <1>1, <1>2, <1>6, <1>7, <1>8, <1>9 DEF WireInv

(* An option has nothing to be wired.                                      *)
LEMMA PassWires == WireInv /\ PassOption => WireInv'
<1> SUFFICES ASSUME WireInv, PassOption PROVE WireInv'
  OBVIOUS
<1>1. Shape /\ runs \in Nat /\ Looks /\ Stacked /\ Wires /\ phase = "setup" /\ stack # <<>>
  BY DEF WireInv, PassOption
<1>2. /\ Head(stack).call = "none" /\ stack' = Tail(stack) /\ runs' = runs /\ phase' = "setup"
      /\ kids' = kids /\ parent' = parent /\ wired' = wired /\ hidden' = hidden
  BY <1>1 DEF PassOption, tree
<1>3. /\ stack' \in Seq(Frames) /\ Members(stack) = {Head(stack)} \cup Members(stack')
  BY <1>1, <1>2, TopIs
<1>4. Stacked'
  BY <1>1, <1>2, <1>3 DEF Stacked, Legal, Good
<1>5. \A d : Due(d) => Due(d)'
  BY <1>2, <1>3 DEF Due
<1>6. Wires'
  BY <1>1, <1>2, <1>5 DEF Wires, Late, Right, Good
<1>7. Looks'
  <2>1. \A b : Flags(b) \in Members(stack) => Flags(b) \in Members(stack')
    BY <1>2, <1>3 DEF Flags
  <2>. QED  BY <1>1, <1>2, <1>5, <2>1 DEF Looks, Looked
<1>8. Shape'
  BY <1>1, <1>2 DEF Shape, KidsInv, NoDuplicates
<1>. QED  BY <1>1, <1>2, <1>4, <1>6, <1>7, <1>8 DEF WireInv

(* Outside of the set-up nothing is done to the tree.                      *)
LEMMA OtherWires ==
  ASSUME WireInv, UNCHANGED tree, runs' \in Nat, phase' # "setup",
         phase' = "idle" \/ runs' = runs, phase' = "parse" => runs' = runs,
         phase' = "idle" => phase \notin {"setup", "idle"},
         phase' # "idle" => phase # "idle",
         phase = "setup" => stack = <<>>,
         phase' = "parse" => phase \in {"setup", "parse"}
  PROVE  WireInv'
<1>1. /\ Shape /\ Looks /\ runs \in Nat
      /\ kids' = kids /\ parent' = parent /\ wired' = wired /\ hidden' = hidden
  BY DEF WireInv, tree
<1>2. Shape'
  BY <1>1 DEF Shape, KidsInv, NoDuplicates
<1>3. phase = "setup" => Members(stack) = {}
  BY MembersOne
<1>4. phase = "setup" => \A d : ~ Due(d)
  BY <1>3 DEF Due
<1>5. phase' = "parse" => Wires'
  <2> SUFFICES ASSUME phase' = "parse", NEW b \in Paths, NEW e \in Members(kids[b]),
                      e.kind = "command"
               PROVE  Late(b, e)' \/ Right(b, e)'
    BY <1>1 DEF Wires
  <2>1. Late(b, e) \/ Right(b, e)
    BY <1>4 DEF WireInv, Wires
  <2>. QED  BY <1>1, <2>1 DEF Late, Right, Good
<1>6. Looks'
  <2> SUFFICES ASSUME NEW b \in Versioned PROVE Looked(b)' \/ (runs' = 0 /\ phase' = "idle")
    BY DEF Looks
  <2>1. \/ Looked(b)
        \/ runs = 0 /\ phase = "idle"
    BY <1>1, <1>3, <1>4 DEF Looks
  <2>2. Looked(b) => Looked(b)'
    BY <1>1 DEF Looked
  <2>. QED  BY <2>1, <2>2
<1>. QED  BY <1>2, <1>5, <1>6 DEF WireInv

LEMMA WireStep == WireInv /\ [Next]_vars => WireInv'
<1> SUFFICES ASSUME WireInv, [Next]_vars PROVE WireInv'
  OBVIOUS
<1>1. CASE \E l \in Lines : Run(l)
  BY <1>1, RunWires
<1>2. CASE SetParent
  BY <1>2, SetParentWires
<1>3. CASE PassOption
  BY <1>3, PassWires
<1>4. CASE SetupFlags
  BY <1>4, SetupFlagsWires
<1>5. CASE Parse
  <2>1. UNCHANGED tree /\ runs' = runs /\ phase = "setup" /\ stack = <<>> /\ phase' = "parse"
    BY <1>5 DEF Parse
  <2>. QED  BY <2>1, OtherWires DEF WireInv
<1>6. CASE ReadCommand \/ ReadOption \/ ReadArguments \/ ParseFails
           \/ OwnAction \/ VersionAction \/ HelpAction
  <2>1. UNCHANGED tree /\ runs' = runs /\ phase = "parse"
    BY <1>6 DEF ReadCommand, ReadOption, ReadArguments, ParseFails, OwnAction,
                VersionAction, HelpAction, Reading, Ready, parsed
  <2>2. phase' \in {"parse", "exit", "over", "raised"}
    BY <1>6, <2>1 DEF ReadCommand, ReadOption, ReadArguments, ParseFails, OwnAction,
                      VersionAction, HelpAction, Exit
  <2>. QED  BY <2>1, <2>2, OtherWires DEF WireInv
<1>7. CASE ExitRun
  <2>1. UNCHANGED tree /\ runs' = runs /\ phase = "exit" /\ phase' \in {"done", "over"}
    BY <1>7 DEF ExitRun, Exit, parsed
  <2>. QED  BY <2>1, OtherWires DEF WireInv
<1>8. CASE Return
  <2>1. UNCHANGED tree /\ runs' \in Nat /\ phase \in {"done", "raised"} /\ phase' = "idle"
    BY <1>8 DEF Return, WireInv
  <2>. QED  BY <2>1, OtherWires
<1>9. CASE UNCHANGED vars
  <2>1. /\ kids' = kids /\ parent' = parent /\ wired' = wired /\ hidden' = hidden
        /\ stack' = stack /\ phase' = phase /\ runs' = runs
    BY <1>9 DEF vars, tree
  <2>2. Shape' /\ Looks'
    BY <2>1 DEF WireInv, Shape, KidsInv, NoDuplicates, Looks, Looked, Due
  <2>3. phase = "setup" => Stacked'
    BY <2>1 DEF WireInv, Stacked, Legal, Good
  <2>4. phase \in {"setup", "parse"} => Wires'
    BY <2>1 DEF WireInv, Wires, Late, Right, Good, Due
  <2>. QED  BY <2>1, <2>2, <2>3, <2>4 DEF WireInv
<1>. QED  BY <1>1, <1>2, <1>3, <1>4, <1>5, <1>6, <1>7, <1>8, <1>9 DEF Next

---------------------------------------------------------------------------
(* Whatever the tree of commands, when a line is parsed set_parent has     *)
(* been to every command in it, but for a version command this run added.  *)
THEOREM TreeIsWired == Spec => []TreeWired
<1>1. WireInv => TreeWired
  <2> SUFFICES ASSUME WireInv, phase = "parse", NEW c \in Paths, NEW i \in DOMAIN kids[c],
                      kids[c][i].kind = "command",
                      kids[c][i] = VersionCommand =>
                        runs > 0 \/ Child(c, kids[c][i]) \in DOMAIN Own
               PROVE  parent[Child(c, kids[c][i])] = c /\ wired[Child(c, kids[c][i])]
    BY DEF TreeWired
  <2> DEFINE e == kids[c][i]
  <2>1. e \in Members(kids[c])
    BY DEF Members
  <2>2. ~ Late(c, e)
    BY DEF Late, WireInv
  <2>3. Right(c, e)
    BY <2>1, <2>2 DEF WireInv, Wires
  <2>. QED  BY <2>3 DEF Right, Good
<1>. QED  BY WireInit, WireStep, <1>1, PTL DEF Spec

---------------------------------------------------------------------------
(* The flags in the tables.  Full: the set-ups find nothing to add to c.   *)
Holds(c, e) == Stood(kids[c], e)

FullOf(c, h) ==
  /\ c \in Versioned /\ ~ h.version => Holds(c, VersionOption) /\ Holds(c, VersionCommand)
  /\ ~ h.help => Holds(c, HelpOption) /\ (HasCommands(kids[c]) => Holds(c, HelpCommand))
Full(c) == FullOf(c, hidden[App])

(* A call that is to come will set up the flags of d.                      *)
Coming(d) == Due(d) \/ Flags(d) \in Members(stack)

(* The first run that visits d: the commands it adds are left to the next. *)
Since(d) == IF d \in DOMAIN Own THEN 0 ELSE 1

Waiting(d) ==
  \/ runs < Since(d)
  \/ runs = Since(d) /\ (phase = "idle" \/ (phase = "setup" /\ Coming(d)))

Fills == \A d : OnTree(d) => Waiting(d) \/ Full(d)

(* What set_parent copies down is what the application has.                *)
Same(c) == hidden[c] = hidden[App]
ShownIn(f) ==
  /\ f.call = "flags" => OnTree(f.cmd) /\ Same(f.cmd)
  /\ f.call = "set_parent" /\ f.parent # Nil => Same(f.parent)

Shown == phase = "setup" => \A f \in Members(stack) : ShownIn(f)

FillInv == WireInv /\ Fills /\ Shown

LEMMA CommandsAre ==
  \A k : HasCommands(k) <=> \E e \in Members(k) : e.kind = "command"
BY DEF HasCommands, Members

LEMMA NoneMissing ==
  ASSUME NEW k \in Seq(Entries), NEW e, Stood(k, e)
  PROVE  Missing(k, e) = <<>> /\ k \o Missing(k, e) = k
<1>1. Missing(k, e) = <<>>
  BY DEF Missing, Members, Stood
<1>2. k \o <<>> = k
  OBVIOUS
<1>. QED  BY <1>1, <1>2

(* Where nothing is to be added nothing is.                                *)
LEMMA FullStays ==
  ASSUME Shape, NEW c \in Paths, Full(c), Same(c)
  PROVE  WithHelp(c, WithVersion(c)) = kids[c]
<1> DEFINE k == kids[c]
<1>1. k \in Seq(Entries)
  BY DEF Shape, KidsInv
<1>2. /\ c \in Versioned /\ ~ hidden[c].version =>
             Stood(k, VersionOption) /\ Stood(k, VersionCommand)
      /\ ~ hidden[c].help =>
             /\ Stood(k, HelpOption)
             /\ HasCommands(k) => Stood(k, HelpCommand)
  BY DEF Full, FullOf, Same, Holds
<1>3. WithVersion(c) = k
  <2>1. CASE c \notin Versioned \/ hidden[c].version
    BY <2>1 DEF WithVersion
  <2>2. CASE c \in Versioned /\ ~ hidden[c].version
    <3>1. WithVersion(c) = (k \o Missing(k, VersionOption)) \o Missing(k, VersionCommand)
      BY <2>2 DEF WithVersion
    <3> HIDE DEF k
    <3>2. /\ k \o Missing(k, VersionOption) = k
          /\ k \o Missing(k, VersionCommand) = k
      BY <1>1, <1>2, <2>2, NoneMissing
    <3>. QED  BY <3>1, <3>2
  <2>. QED  BY <2>1, <2>2
<1> HIDE DEF k
<1>4. WithHelp(c, k) = k
  <2>1. CASE hidden[c].help
    BY <2>1 DEF WithHelp
  <2>2. CASE ~ hidden[c].help
    <3>1. ~ HelpAdded(c, k)
      BY <1>1, <1>2, <2>2, NoneMissing DEF HelpAdded
    <3>2. WithHelp(c, k) = (k \o Missing(k, HelpOption)) \o <<>>
      BY <2>2, <3>1 DEF WithHelp
    <3>3. k \o Missing(k, HelpOption) = k /\ k \o <<>> = k
      BY <1>1, <1>2, <2>2, NoneMissing
    <3>. QED  BY <3>2, <3>3
  <2>. QED  BY <2>1, <2>2
<1>. QED  BY <1>3, <1>4 DEF k

(* What the set-up of the help flags puts there.                           *)
LEMMA HelpHeld ==
  ASSUME NEW b \in Paths, NEW k \in Seq(Entries), ~ hidden[b].help,
         HasCommands(WithHelp(b, k))
  PROVE  HelpCommand \in Members(WithHelp(b, k))
<1> DEFINE l == k \o Missing(k, HelpOption)
           new == WithHelp(b, k)
<1>1. /\ l \in Seq(Entries) /\ Members(k) \subseteq Members(l)
      /\ Members(l) \subseteq Members(k) \cup {HelpOption}
  BY FlagEntries, MissingMembers DEF Within
<1>3. CASE ~ HelpAdded(b, k)
  <2>1. new = l \o <<>>
    BY <1>3 DEF WithHelp
  <2>2. l \o <<>> = l
    BY <1>1
  <2> HIDE DEF new, l
  <2>4. HasCommands(k)
    BY <1>1, <2>1, <2>2, FlagKinds, CommandsAre DEF new
  <2>5. HelpCommand \in Members(k)
    BY <1>3, <2>4, FlagKinds, CommandStands DEF HelpAdded, Missing, Members
  <2>. QED  BY <1>1, <2>1, <2>2, <2>5 DEF new
<1>4. CASE HelpAdded(b, k)
  <2> DEFINE t == <<HelpCommand>>
  <2>1. new = l \o t /\ t \in Seq(Entries) /\ Members(t) = {HelpCommand}
    BY <1>4, FlagEntries, MembersOne DEF WithHelp
  <2> HIDE DEF l, t, new
  <2>2. Members(l \o t) = Members(l) \cup Members(t)
    BY <1>1, <2>1, MembersJoined
  <2>. QED  BY <2>1, <2>2 DEF new
<1>. QED  BY <1>3, <1>4

(* The set-ups fill the table of c.                                        *)
LEMMA FlagsFill ==
  ASSUME Shape, NEW c \in Paths, Same(c), hidden'[App] = hidden[App],
         kids' = [kids EXCEPT ![c] = WithHelp(c, WithVersion(c))]
  PROVE  Full(c)'
<1> DEFINE k == WithVersion(c)
           new == WithHelp(c, k)
           h == hidden[App]
<1>1. kids'[c] = new
  BY DEF Shape, KidsInv
<1>2. /\ k \in Seq(Entries)
      /\ c \in Versioned /\ ~ h.version =>
             Stood(k, VersionOption) /\ VersionCommand \in Members(k)
  BY VersionMembers DEF Shape, Same
<1>3. Within(k, new)
  BY <1>2, HelpMembers
<1>4. ~ h.help => /\ Stood(new, HelpOption)
                  /\ HasCommands(new) => HelpCommand \in Members(new)
  BY <1>2, HelpHeld, HelpMembers DEF Same
<1> HIDE DEF k, new, h
<1>5. /\ c \in Versioned /\ ~ h.version =>
             Stood(new, VersionOption) /\ Stood(new, VersionCommand)
  <2>1. c \in Versioned /\ ~ h.version => VersionCommand \in Members(new)
    BY <1>2, <1>3 DEF Within
  <2>. QED  BY <1>2, <1>3, <2>1, StoodStays, FlagKinds, CommandStood
<1>6. /\ \A e : Holds(c, e)' <=> Stood(new, e)
      /\ HasCommands(kids'[c]) <=> HasCommands(new)
      /\ Stood(new, HelpCommand) <=> HelpCommand \in Members(new)
  BY <1>1, FlagKinds, CommandStood DEF Holds
<1>7. hidden'[App] = h
  BY DEF h
<1>. QED  BY <1>4, <1>5, <1>6, <1>7 DEF Full, FullOf


(* A command that set_parent gives a parent shows what its parent shows.   *)
LEMMA SameWire ==
  ASSUME Shape, NEW c \in Paths, NEW p \in Paths, c # App, Same(p), Wire(c, p)
  PROVE  /\ hidden'[App] = hidden[App] /\ Same(c)'
         /\ \A x \in Paths : Same(x) => Same(x)'
<1>1. hidden' = [hidden EXCEPT ![c] = hidden[p]] /\ App \in Paths
  BY PathsAre DEF Wire
<1>2. DOMAIN hidden = Paths
  BY DEF Shape
<1>3. hidden'[c] = hidden[p] /\ \A x \in Paths : x # c => hidden'[x] = hidden[x]
  BY <1>1, <1>2
<1>. QED  BY <1>1, <1>3 DEF Same

LEMMA FillInit == Init => FillInv
<1>1. Init => WireInv
  BY WireInit
<1>2. ASSUME Init, NEW d PROVE Waiting(d)
  BY <1>2 DEF Init, Waiting, Since
<1>. QED  BY <1>1, <1>2 DEF FillInv, Fills, Shown, Init

(* What set_parent does to the stack and to what is hidden.                *)
LEMMA SetParentIs ==
  ASSUME FillInv, SetParent
  PROVE  \E c \in Paths :
           /\ Head(stack).call = "set_parent" /\ Head(stack).cmd = c
           /\ Members(stack) = {Head(stack)} \cup Members(Tail(stack))
           /\ Members(stack') =
                Members(Loop(c)) \cup {Flags(c)} \cup Members(Tail(stack))
           /\ OnTree(c) /\ Same(c)' /\ hidden'[App] = hidden[App]
           /\ \A x \in Paths : Same(x) => Same(x)'
<1>1. Shape /\ Stacked /\ stack # <<>> /\ phase = "setup" /\ Shown
  BY DEF FillInv, WireInv, SetParent
<1> DEFINE top == Head(stack)
           t == Tail(stack)
<1>2. /\ top \in Frames /\ t \in Seq(Frames) /\ Members(stack) = {top} \cup Members(t)
      /\ Legal(top)
  BY <1>1, TopIs
<1>3. PICK c \in Paths : c = top.cmd
  BY <1>1, TopIs
<1>4. /\ top.call = "set_parent" /\ Wire(c, top.parent)
      /\ stack' = Loop(c) \o <<Flags(c)>> \o t
  BY <1>1, <1>3 DEF SetParent
<1> DEFINE u == <<Flags(c)>>
           l == Loop(c)
<1>5. u \in Seq(Frames) /\ Members(u) = {Flags(c)} /\ l \in Seq(Frames)
  <2>1. Flags(c) \in Frames
    BY DEF Flags, Frames
  <2>2. u \in Seq(Frames)
    BY <2>1
  <2>. QED  BY <1>1, <2>2, LoopIs, MembersOne
<1>6. stack' = (l \o u) \o t
  BY <1>4
<1>7. ShownIn(top)
  BY <1>1, <1>2 DEF Shown
<1> HIDE DEF u, t, l, top
<1>8. l \o u \in Seq(Frames) /\ Members(l \o u) = Members(l) \cup Members(u)
  BY <1>5, MembersJoined
<1> DEFINE lu == l \o u
<1>9. lu \in Seq(Frames) /\ Members(lu) = Members(l) \cup Members(u) /\ stack' = lu \o t
  BY <1>6, <1>8
<1> HIDE DEF lu
<1>10. Members(lu \o t) = Members(lu) \cup Members(t)
  BY <1>2, <1>9, MembersJoined
<1>11. Members(stack') = Members(l) \cup {Flags(c)} \cup Members(t)
  BY <1>5, <1>9, <1>10
<1>12. /\ OnTree(c) /\ Same(c)' /\ hidden'[App] = hidden[App]
       /\ \A x \in Paths : Same(x) => Same(x)'
  <2>1. CASE c = App /\ top.parent = Nil
    <3>1. hidden' = hidden
      BY <1>4, <2>1 DEF Wire
    <3>2. OnTree(c)
      BY <2>1, AppAssumption DEF OnTree
    <3>. QED  BY <2>1, <3>1, <3>2 DEF Same
  <2>2. CASE /\ top.parent \in DOMAIN Own
             /\ \E e \in Members(kids[top.parent]) :
                   e.kind = "command" /\ c = Child(top.parent, e)
    <3>1. PICK p \in Paths : p = top.parent
      BY <2>2, PathsAre
    <3>2. PICK e \in Members(kids[p]) : e.kind = "command" /\ c = Child(p, e)
      BY <2>2, <3>1
    <3>3. c # App /\ OnTree(c)
      BY <1>1, <3>2, CommandIs
    <3>4. Wire(c, p) /\ Same(p)
      BY <1>4, <1>7, <3>1, PathsAre DEF ShownIn
    <3>. QED  BY <1>1, <3>3, <3>4, SameWire
  <2>. QED  BY <1>2, <1>3, <1>4, <2>1, <2>2 DEF Legal
<1>. QED  BY <1>2, <1>3, <1>4, <1>11, <1>12 DEF l, t, top

LEMMA SetParentFills ==
  ASSUME FillInv, SetParent
  PROVE  Fills' /\ Shown'
<1>1. /\ Shape /\ Stacked /\ phase = "setup" /\ phase' = "setup" /\ Fills /\ Shown
      /\ runs \in Nat /\ runs' = runs /\ kids' = kids /\ stack # <<>>
  BY DEF FillInv, WireInv, SetParent
<1>2. PICK c \in Paths :
           /\ Head(stack).call = "set_parent" /\ Head(stack).cmd = c
           /\ Members(stack) = {Head(stack)} \cup Members(Tail(stack))
           /\ Members(stack') =
                Members(Loop(c)) \cup {Flags(c)} \cup Members(Tail(stack))
           /\ OnTree(c) /\ Same(c)' /\ hidden'[App] = hidden[App]
           /\ \A x \in Paths : Same(x) => Same(x)'
  BY SetParentIs
<1>3. \A d : OnTree(d)' <=> OnTree(d)
  BY <1>1 DEF OnTree
<1>4. \A d : Full(d)' <=> Full(d)
  BY <1>1, <1>2 DEF Full, FullOf, Holds
<1>5. ASSUME NEW d, OnTree(d), Coming(d) PROVE Coming(d)'
  <2>1. CASE d = c
    BY <1>2, <2>1 DEF Coming
  <2>2. CASE Flags(d) \in Members(stack)
    <3>1. Flags(d) # Head(stack)
      BY <1>2 DEF Flags
    <3>. QED  BY <1>2, <2>2, <3>1 DEF Coming
  <2>3. CASE d # c /\ Due(d)
    <3>1. PICK f \in Members(stack) : f.call = "set_parent" /\ Above(f.cmd, d)
      BY <2>3 DEF Due
    <3>2. CASE f \in Members(Tail(stack))
      BY <1>2, <3>1, <3>2 DEF Coming, Due
    <3>3. CASE f = Head(stack)
      <4>1. \E g \in Members(Loop(c)) : g.call = "set_parent" /\ Above(g.cmd, d)
        BY <1>1, <1>2, <1>5, <2>3, <3>1, <3>3, Descend
      <4>. QED  BY <1>2, <4>1 DEF Coming, Due
    <3>. QED  BY <1>2, <3>1, <3>2, <3>3
  <2>. QED  BY <1>5, <2>1, <2>2, <2>3 DEF Coming
<1>6. Fills'
  <2>1. ASSUME NEW d, OnTree(d), Waiting(d) PROVE Waiting(d)'
    BY <1>1, <1>5, <2>1 DEF Waiting
  <2>. QED  BY <1>1, <1>3, <1>4, <2>1 DEF Fills
<1>7. ASSUME NEW f \in Members(stack') PROVE ShownIn(f)'
  <2>1. CASE f \in Members(Tail(stack))
    <3>1. f \in Members(stack) /\ ShownIn(f) /\ f \in Frames
      <4>1. f \in Members(stack) /\ stack \in Seq(Frames)
        BY <1>1, <1>2, <2>1 DEF Stacked
      <4>. QED  BY <1>1, <4>1 DEF Shown, Members
    <3>2. f.cmd \in Paths /\ f.parent \in Paths \cup {Nil}
      BY <3>1 DEF Frames
    <3>. QED  BY <1>2, <1>3, <3>1, <3>2 DEF ShownIn
  <2>2. CASE f = Flags(c)
    BY <1>2, <1>3, <2>2 DEF ShownIn, Flags
  <2>3. CASE f \in Members(Loop(c))
    <3>1. f = Pass \/ \E e \in Members(kids[c]) : e.kind = "command" /\ f = Visit(Child(c, e), c)
      BY <1>1, <2>3, LoopIs
    <3>. QED  BY <1>2, <3>1 DEF ShownIn, Pass, Visit
  <2>. QED  BY <1>2, <2>1, <2>2, <2>3
<1>. QED  BY <1>6, <1>7 DEF Shown


LEMMA RunFills ==
  ASSUME FillInv, NEW l \in Lines, Run(l)
  PROVE  Fills' /\ Shown'
<1>1. /\ Shape /\ phase = "idle" /\ phase' = "setup" /\ Fills /\ runs' = runs /\ kids' = kids
      /\ hidden' = hidden /\ stack' = <<Visit(App, Nil)>>
  BY DEF FillInv, WireInv, Run, tree
<1>2. Members(stack') = {Visit(App, Nil)}
  BY <1>1, MembersOne
<1>3. ASSUME NEW d, OnTree(d) PROVE Coming(d)'
  <2>1. d \in Seq(Names) /\ d # <<>> /\ SubSeq(d, 1, 1) = App
    BY <1>1, <1>3, Way
  <2>2. Len(App) = 1 /\ Len(d) >= 1
    BY <2>1, TreeAssumption
  <2>3. Above(App, d)
    BY <2>1, <2>2 DEF Above
  <2>. QED  BY <1>2, <2>3 DEF Coming, Due, Visit
<1>4. /\ \A d : OnTree(d)' <=> OnTree(d)
      /\ \A d : Full(d)' <=> Full(d)
  BY <1>1 DEF OnTree, Full, FullOf, Holds
<1>5. Fills'
  <2>1. ASSUME NEW d, OnTree(d), Waiting(d) PROVE Waiting(d)'
    BY <1>1, <1>3, <2>1 DEF Waiting
  <2>. QED  BY <1>1, <1>4, <2>1 DEF Fills
<1>6. Shown'
  BY <1>2 DEF Shown, ShownIn, Visit
<1>. QED  BY <1>5, <1>6

LEMMA PassFills ==
  ASSUME FillInv, PassOption
  PROVE  Fills' /\ Shown'
<1>1. /\ Shape /\ Stacked /\ stack # <<>> /\ phase = "setup" /\ phase' = "setup"
      /\ Fills /\ Shown /\ runs' = runs /\ kids' = kids /\ hidden' = hidden
      /\ stack' = Tail(stack) /\ Head(stack).call = "none"
  BY DEF FillInv, WireInv, PassOption, tree
<1>2. Members(stack) = {Head(stack)} \cup Members(stack')
  BY <1>1, TopIs
<1>3. /\ \A d : OnTree(d)' <=> OnTree(d)
      /\ \A d : Full(d)' <=> Full(d)
      /\ \A f : ShownIn(f)' <=> ShownIn(f)
  BY <1>1 DEF OnTree, Full, FullOf, Holds, ShownIn, Same
<1>4. ASSUME NEW d, Coming(d) PROVE Coming(d)'
  <2>1. Flags(d).call = "flags"
    BY DEF Flags
  <2>. QED  BY <1>1, <1>2, <1>4, <2>1 DEF Coming, Due
<1>5. \A d : Waiting(d) => Waiting(d)'
  BY <1>1, <1>4 DEF Waiting
<1>6. Fills'
  BY <1>1, <1>3, <1>5 DEF Fills
<1>7. Shown'
  BY <1>1, <1>2, <1>3 DEF Shown
<1>. QED  BY <1>6, <1>7

(* The tables are full: after the second run's set-up they stay.           *)
Settled == runs >= 2 \/ (runs = 1 /\ phase \notin {"idle", "setup"})

LEMMA SettledFull ==
  ASSUME FillInv, Settled, NEW d, OnTree(d)
  PROVE  Full(d)
<1>1. runs \in Nat /\ Since(d) \in {0, 1}
  BY DEF FillInv, WireInv, Since
<1>2. ~ Waiting(d)
  BY <1>1 DEF Waiting, Settled
<1>. QED  BY <1>2 DEF FillInv, Fills

LEMMA SetupFlagsFills ==
  ASSUME FillInv, SetupFlags
  PROVE  Fills' /\ Shown' /\ hidden'[App] = hidden[App] /\ (Settled => kids' = kids)
<1>1. /\ Shape /\ Stacked /\ stack # <<>> /\ phase = "setup" /\ phase' = "setup"
      /\ Fills /\ Shown /\ runs \in Nat /\ runs' = runs /\ stack' = Tail(stack)
  BY DEF FillInv, WireInv, SetupFlags
<1> DEFINE top == Head(stack)
<1>2. PICK c \in Paths : c = top.cmd
  BY <1>1, TopIs
<1> DEFINE k == WithVersion(c)
           new == WithHelp(c, k)
           h == Child(c, HelpCommand)
<1>3. /\ top.call = "flags" /\ kids' = [kids EXCEPT ![c] = new]
      /\ IF HelpAdded(c, k) THEN Wire(h, c) ELSE UNCHANGED <<parent, wired, hidden>>
  BY <1>1, <1>2 DEF SetupFlags
<1>4. Members(stack) = {top} \cup Members(stack')
  BY <1>1, TopIs
<1>5. OnTree(c) /\ Same(c)
  <2>1. ShownIn(top)
    BY <1>1, <1>4 DEF Shown
  <2>. QED  BY <1>2, <1>3, <2>1 DEF ShownIn
<1>6. /\ \A e \in Members(new) \ Members(kids[c]) : e.kind = "command" => c \in DOMAIN Own
      /\ Members(kids[c]) \subseteq Members(new)
      /\ HelpAdded(c, k) => c \in DOMAIN Own
  BY <1>1, FlagsMembers
<1>7. hidden'[App] = hidden[App] /\ \A x \in Paths : Same(x) => Same(x)'
  <2>1. CASE HelpAdded(c, k)
    <3>1. h = Append(c, "help") /\ "help" \in Names
      BY AppAssumption DEF Child, HelpCommand, Entry
    <3>2. PICK x \in Paths : x = h
      BY <1>6, <2>1, <3>1 DEF Paths
    <3>3. x # App /\ Wire(x, c)
      BY <1>3, <2>1, <3>1, <3>2, AppOnTop
    <3>. QED  BY <1>1, <1>5, <3>3, SameWire
  <2>2. CASE ~ HelpAdded(c, k)
    BY <1>3, <2>2 DEF Same
  <2>. QED  BY <2>1, <2>2
<1>8. Full(c)'
  BY <1>1, <1>3, <1>5, <1>7, FlagsFill
<1>9. Full(c) => new = kids[c]
  BY <1>1, <1>5, FullStays
<1> HIDE DEF k, new, h, top
<1>10. kids \in [Paths -> Seq(Entries)] /\ DOMAIN kids = Paths
  BY <1>1 DEF Shape, KidsInv
<1>11. kids'[c] = new /\ \A x \in Paths : x # c => kids'[x] = kids[x]
  BY <1>3, <1>10
<1>12. Full(c) => kids' = kids
  <2>1. [kids EXCEPT ![c] = kids[c]] = kids
    BY <1>10
  <2>. QED  BY <1>3, <1>9, <2>1
<1>13. ASSUME NEW d \in Paths, d # c, Full(d) PROVE Full(d)'
  BY <1>7, <1>11, <1>13 DEF Full, FullOf, Holds
<1>14. ASSUME NEW d, OnTree(d)', ~ OnTree(d) PROVE Waiting(d)'
  <2>1. PICK b \in DOMAIN Own : \E e \in Members(kids'[b]) : e.kind = "command" /\ d = Child(b, e)
    BY <1>14 DEF OnTree
  <2>2. PICK e \in Members(kids'[b]) : e.kind = "command" /\ d = Child(b, e)
    BY <2>1
  <2>3. e \notin Members(kids[b]) /\ d \notin DOMAIN Own
    BY <1>14, <2>2 DEF OnTree
  <2>4. b = c /\ e \in Members(new) \ Members(kids[c])
    BY <1>11, <2>2, <2>3, PathsAre
  <2>5. ~ Full(c) /\ Since(c) = 0
    BY <1>6, <1>9, <2>2, <2>4 DEF Since
  <2>6. runs = 0
    BY <1>1, <1>5, <2>5 DEF Fills, Waiting
  <2>7. Since(d) = 1 /\ runs' = 0
    BY <1>1, <2>3, <2>6 DEF Since
  <2>. QED  BY <2>7 DEF Waiting
<1>15. ASSUME NEW d, d # c, Waiting(d) PROVE Waiting(d)'
  <2>1. Flags(d) # top
    BY <1>2, <1>15 DEF Flags
  <2>2. Coming(d) => Coming(d)'
    BY <1>3, <1>4, <2>1 DEF Coming, Due
  <2>. QED  BY <1>1, <1>15, <2>2 DEF Waiting
<1>16. Fills'
  <2>1. ASSUME NEW d, OnTree(d)', OnTree(d) PROVE Waiting(d)' \/ Full(d)'
    <3>1. d \in Paths
      BY <1>1, <2>1, CommandIs, PathsAre DEF OnTree
    <3>2. Waiting(d) \/ Full(d)
      BY <1>1, <2>1 DEF Fills
    <3>. QED  BY <1>8, <1>13, <1>15, <3>1, <3>2
  <2>. QED  BY <1>14, <2>1 DEF Fills
<1>17. \A d : OnTree(d) => OnTree(d)'
  BY <1>6, <1>11, PathsAre DEF OnTree
<1>18. ASSUME NEW f \in Members(stack') PROVE ShownIn(f)'
  <2>1. f \in Members(stack) /\ stack \in Seq(Frames)
    BY <1>1, <1>4 DEF Stacked
  <2>2. f \in Frames /\ ShownIn(f)
    BY <1>1, <2>1 DEF Shown, Members
  <2>3. f.cmd \in Paths /\ f.parent \in Paths \cup {Nil}
    BY <2>2 DEF Frames
  <2>. QED  BY <1>7, <1>17, <2>2, <2>3 DEF ShownIn
<1>19. Settled => kids' = kids
  BY <1>5, <1>12, SettledFull
<1>. QED  BY <1>7, <1>16, <1>18, <1>19 DEF Shown


(* Outside of the set-up the tree stays; a run that ends has filled it.    *)
LEMMA OtherFills ==
  ASSUME FillInv, UNCHANGED tree, phase # "idle", phase' # "setup",
         phase = "setup" => stack = <<>> /\ phase' # "idle",
         runs' = IF phase' = "idle" THEN runs + 1 ELSE runs
  PROVE  Fills' /\ Shown'
<1>1. /\ Fills /\ runs \in Nat /\ kids' = kids /\ hidden' = hidden
  BY DEF FillInv, WireInv, tree
<1>2. /\ \A d : OnTree(d)' <=> OnTree(d)
      /\ \A d : Full(d)' <=> Full(d)
  BY <1>1 DEF OnTree, Full, FullOf, Holds
<1>3. phase = "setup" => \A d : ~ Coming(d)
  BY MembersOne DEF Coming, Due
<1>4. ASSUME NEW d, Waiting(d) PROVE Waiting(d)'
  <2>1. Since(d) \in {0, 1} /\ runs < Since(d)
    BY <1>1, <1>3, <1>4 DEF Waiting, Since
  <2>. QED  BY <1>1, <2>1 DEF Waiting, Since
<1>. QED  BY <1>1, <1>2, <1>4 DEF Fills, Shown

LEMMA FillStep ==
  ASSUME FillInv, [Next]_vars
  PROVE  FillInv' /\ (Settled => Settled' /\ kids' = kids)
<1>1. WireInv'
  BY WireStep DEF FillInv
<1>2. SUFFICES Fills' /\ Shown' /\ (Settled => Settled' /\ kids' = kids)
  BY <1>1 DEF FillInv
<1>3. runs \in Nat
  BY DEF FillInv, WireInv
<1>4. CASE \E l \in Lines : Run(l)
  BY <1>3, <1>4, RunFills DEF Run, tree, Settled
<1>5. CASE SetParent
  BY <1>3, <1>5, SetParentFills DEF SetParent, Settled
<1>6. CASE PassOption
  BY <1>3, <1>6, PassFills DEF PassOption, tree, Settled
<1>7. CASE SetupFlags
  BY <1>3, <1>7, SetupFlagsFills DEF SetupFlags, Settled
<1>8. CASE Parse \/ ReadCommand \/ ReadOption \/ ReadArguments \/ ParseFails
           \/ OwnAction \/ VersionAction \/ HelpAction \/ ExitRun
  <2>1. /\ UNCHANGED tree /\ runs' = runs /\ phase \in {"setup", "parse", "exit"}
        /\ phase' \in {"parse", "exit", "over", "raised", "done"}
        /\ phase = "setup" => stack = <<>>
    BY <1>8 DEF Parse, ReadCommand, ReadOption, ReadArguments, ParseFails, OwnAction,
                VersionAction, HelpAction, ExitRun, Exit, Reading, Ready, parsed
  <2>2. Fills' /\ Shown'
    BY <2>1, OtherFills
  <2>. QED  BY <1>3, <2>1, <2>2 DEF Settled, tree
<1>9. CASE Return
  <2>1. /\ UNCHANGED tree /\ runs' = runs + 1 /\ phase \in {"done", "raised"} /\ phase' = "idle"
    BY <1>9 DEF Return
  <2>2. Fills' /\ Shown'
    BY <2>1, OtherFills
  <2>. QED  BY <1>3, <2>1, <2>2 DEF Settled, tree
<1>10. CASE UNCHANGED vars
  <2>1. kids' = kids /\ hidden' = hidden /\ stack' = stack /\ phase' = phase /\ runs' = runs
    BY <1>10 DEF vars, tree
  <2>2. Fills'
    BY <2>1 DEF FillInv, Fills, OnTree, Waiting, Coming, Due, Full, FullOf, Holds
  <2>3. Shown'
    BY <2>1 DEF FillInv, Shown, ShownIn, OnTree, Same
  <2>. QED  BY <2>1, <2>2, <2>3 DEF Settled
<1>. QED  BY <1>4, <1>5, <1>6, <1>7, <1>8, <1>9, <1>10 DEF Next

---------------------------------------------------------------------------
(* A run as a sequence: Now, and what comes of it when kids are settled    *)
(* and every command on the way is wired.                                  *)
State(p, t, r, c, e, w, x) ==
  [phase |-> p, target |-> t, rest |-> r, topic |-> c, err |-> e, printed |-> w, exits |-> x]

Begin(l) == State("parse", App, l, Nil, FALSE, <<>>, <<>>)
Now == State(phase, target, rest, topic, err, printed, exits)

Prints(s, x) == [s EXCEPT !.printed = Append(s.printed, x)]
Exits(s, code) == [s EXCEPT !.exits = Append(s.exits, code)]
Acted(s) == [s EXCEPT !.phase = "exit"]
Done(s) == [s EXCEPT !.phase = "done"]
Failed == TRUE
Well == FALSE
Ended(s, how) == [s EXCEPT !.err = how]

Refused(s) == Acted(Ended(Prints(s, <<"error", s.target>>), Failed))

(* A word that names no command of the target.                             *)
Spare(s, t) ==
  IF HasCommands(kids[s.target]) THEN Refused(s)
  ELSE [s EXCEPT !.rest = <<>>,
                 !.topic = IF s.target \notin DOMAIN Own /\ s.target[Len(s.target)] = "help"
                           THEN t ELSE s.topic]

ReadWord(s, t) ==
  IF Has(s.target, Entry("command", t))
    THEN [s EXCEPT !.target = Child(s.target, Entry("command", t)), !.rest = Tail(s.rest)]
  ELSE Spare(s, t)

Met(s, o) == \E i \in DOMAIN s.printed : s.printed[i] = <<o.name, s.target>>

ReadFlag(s, o) ==
  IF ~ Has(s.target, o) THEN Refused(s)
  ELSE LET r == [s EXCEPT !.rest = Tail(s.rest)]
       IN  IF o.name = "other" THEN r ELSE Exits(Prints(r, <<o.name, s.target>>), 0)

Reads(s) ==
  LET t == Head(s.rest) IN
  IF IsWord(t) THEN ReadWord(s, t)
  ELSE IF Met(s, OptionOf(t)) THEN Spare(s, t)
  ELSE ReadFlag(s, OptionOf(t))

Helps(s, up) ==
  IF s.topic = Nil THEN Exits(Prints(s, <<"help", up>>), 0)
  ELSE IF Has(up, Entry("command", s.topic))
         THEN Exits(Prints(s, <<"help", Child(up, Entry("command", s.topic))>>), 0)
  ELSE Exits(Prints(s, <<"usage", up>>), 1)

Acts(s) ==
  LET c == s.target  up == SubSeq(c, 1, Len(c) - 1) IN
  IF c \in Failing /\ c \in DOMAIN Own THEN Refused(s)
  ELSE IF c \in DOMAIN Own THEN Acted(Ended(s, Well))
  ELSE IF c[Len(c)] = "version" THEN Acted(Prints(s, <<"version", up>>))
  ELSE IF c \in Failing /\ s.topic = Nil THEN Refused(Helps(s, up))
  ELSE Acted(Ended(Helps(s, up), Well))

Onward(s) ==
  IF s.phase = "parse" THEN IF s.rest = <<>> THEN Acts(s) ELSE Reads(s)
  ELSE IF s.phase = "exit" THEN Done(Exits(s, IF s.err THEN 1 ELSE 0))
  ELSE s

LEMMA StateIs ==
  ASSUME NEW p, NEW t, NEW r, NEW c, NEW e, NEW w, NEW x
  PROVE  LET s == State(p, t, r, c, e, w, x)
         IN  /\ s.phase = p /\ s.target = t /\ s.rest = r /\ s.topic = c /\ s.err = e
             /\ s.printed = w /\ s.exits = x
             /\ Acted(s) = State("exit", t, r, c, e, w, x)
             /\ Done(s) = State("done", t, r, c, e, w, x)
             /\ \A f : Ended(s, f) = State(p, t, r, c, f, w, x)
             /\ \A y : Prints(s, y) = State(p, t, r, c, e, Append(w, y), x)
             /\ \A y : Exits(s, y) = State(p, t, r, c, e, w, Append(x, y))
<1> DEFINE s == State(p, t, r, c, e, w, x)
<1>1. /\ s.phase = p /\ s.target = t /\ s.rest = r /\ s.topic = c /\ s.err = e
      /\ s.printed = w /\ s.exits = x
  BY DEF State
<1>2. Acted(s) = State("exit", t, r, c, e, w, x) /\ Done(s) = State("done", t, r, c, e, w, x)
  BY DEF State, Acted, Done
<1>3. \A f : Ended(s, f) = State(p, t, r, c, f, w, x)
  BY DEF State, Ended
<1>4. ASSUME NEW y PROVE Prints(s, y) = State(p, t, r, c, e, Append(w, y), x)
  <2> DEFINE m == Append(w, y)
  <2>1. Prints(s, y) = [s EXCEPT !.printed = m]
    <3> HIDE DEF s
    <3>. QED  BY <1>1 DEF Prints
  <2> HIDE DEF m
  <2>2. [s EXCEPT !.printed = m] = State(p, t, r, c, e, m, x)
    BY DEF State
  <2>. QED  BY <2>1, <2>2 DEF m
<1>5. ASSUME NEW y PROVE Exits(s, y) = State(p, t, r, c, e, w, Append(x, y))
  <2> DEFINE m == Append(x, y)
  <2>1. Exits(s, y) = [s EXCEPT !.exits = m]
    <3> HIDE DEF s
    <3>. QED  BY <1>1 DEF Exits
  <2> HIDE DEF m
  <2>2. [s EXCEPT !.exits = m] = State(p, t, r, c, e, w, m)
    BY DEF State
  <2>. QED  BY <2>1, <2>2 DEF m
<1>. QED  BY <1>1, <1>2, <1>3, <1>4, <1>5

LEMMA RefusedIs ==
  ASSUME NEW p, NEW t, NEW r, NEW c, NEW e, NEW w, NEW x
  PROVE  Refused(State(p, t, r, c, e, w, x))
           = State("exit", t, r, c, Failed, Append(w, <<"error", t>>), x)
<1> DEFINE s == State(p, t, r, c, e, w, x)
           m == Append(w, <<"error", t>>)
<1>1. s.target = t /\ Prints(s, <<"error", t>>) = State(p, t, r, c, e, m, x)
  BY StateIs
<1>2. Ended(State(p, t, r, c, e, m, x), Failed) = State(p, t, r, c, Failed, m, x)
  BY StateIs
<1>3. Acted(State(p, t, r, c, Failed, m, x)) = State("exit", t, r, c, Failed, m, x)
  BY StateIs
<1> HIDE DEF m, s
<1>4. Refused(s) = State("exit", t, r, c, Failed, m, x)
  BY <1>1, <1>2, <1>3 DEF Refused
<1>. QED  BY <1>4 DEF s, m

(* The steps of a run are those, unless its process ends.                  *)
LEMMA ReadsOn ==
  ASSUME ReadCommand \/ ReadOption \/ ReadArguments \/ ParseFails, wired[target],
         phase' # "over"
  PROVE  Now' = Onward(Now)
<1>1. /\ Now.phase = "parse" /\ Now.rest # <<>> /\ Now.rest = rest /\ Now.target = target
      /\ Now.topic = topic /\ phase = "parse" /\ Now.printed = printed
  BY StateIs DEF Now, ReadCommand, ReadOption, ReadArguments, ParseFails, Reading
<1> DEFINE t == Head(rest)
           e == Entry("command", t)
           o == OptionOf(t)
<1>0. ~ IsWord(t) => (Met(Now, o) <=> MetTwice(t))
  BY <1>1 DEF Met, MetTwice
<1>2. Onward(Now) = IF IsWord(t) THEN ReadWord(Now, t)
                    ELSE IF MetTwice(t) THEN Spare(Now, t) ELSE ReadFlag(Now, o)
  BY <1>0, <1>1 DEF Onward, Reads
<1>3. Has(target, e) => HasCommands(kids[target])
  BY DEF Has, HasCommands, Entry
<1>4. CASE ReadCommand
  <2>1. /\ IsWord(t) /\ Has(target, e) /\ target' = Child(target, e) /\ rest' = Tail(rest)
        /\ UNCHANGED <<phase, topic, err, printed, exits>>
    BY <1>4 DEF ReadCommand, out
  <2>2. Onward(Now) = [Now EXCEPT !.target = Child(target, e), !.rest = Tail(rest)]
    BY <1>1, <1>2, <2>1 DEF ReadWord
  <2> HIDE DEF e, t
  <2>. QED  BY <2>1, <2>2 DEF Now, State
<1>5. CASE ReadOption
  <2> DEFINE r == [Now EXCEPT !.rest = Tail(rest)]
  <2>1. /\ ~ IsWord(t) /\ ~ MetTwice(t) /\ Has(target, o) /\ rest' = Tail(rest)
        /\ UNCHANGED <<target, topic, err>>
        /\ IF o.name = "other" THEN UNCHANGED <<out, phase>>
           ELSE /\ printed' = Append(printed, <<o.name, target>>) /\ exits' = Append(exits, 0)
                /\ phase' = phase
    BY <1>5 DEF ReadOption, Exit
  <2>2. Onward(Now) =
          IF o.name = "other" THEN r ELSE Exits(Prints(r, <<o.name, target>>), 0)
    BY <1>1, <1>2, <2>1 DEF ReadFlag
  <2>3. r = State(phase, target, rest', topic, err, printed, exits)
    <3> DEFINE v == Tail(rest)
    <3> HIDE DEF v
    <3>1. [Now EXCEPT !.rest = v] = State(phase, target, v, topic, err, printed, exits)
      BY DEF Now, State
    <3> HIDE DEF Now
    <3>. QED  BY <2>1, <3>1 DEF v
  <2> HIDE DEF o, t, r
  <2>4. CASE o.name = "other"
    BY <2>1, <2>2, <2>3, <2>4 DEF Now, out
  <2>5. CASE o.name # "other"
    <3> DEFINE y == <<o.name, target>>
    <3> HIDE DEF y
    <3>1. Prints(r, y) = State(phase, target, rest', topic, err, Append(printed, y), exits)
      BY <2>3, StateIs
    <3>2. Exits(Prints(r, y), 0) =
            State(phase, target, rest', topic, err, Append(printed, y), Append(exits, 0))
      BY <3>1, StateIs
    <3>. QED  BY <2>1, <2>2, <2>5, <3>2 DEF Now, y
  <2>. QED  BY <2>4, <2>5
<1>6. CASE ReadArguments
  <2> DEFINE topical == IF target \notin DOMAIN Own /\ target[Len(target)] = "help"
                        THEN t ELSE topic
  <2>1. /\ IsWord(t) \/ MetTwice(t)
        /\ ~ HasCommands(kids[target]) /\ rest' = <<>> /\ topic' = topical
        /\ UNCHANGED <<phase, target, err, printed, exits>>
    BY <1>6 DEF ReadArguments, out
  <2>2. Onward(Now) = [Now EXCEPT !.rest = <<>>, !.topic = topical]
    <3>1. Onward(Now) = Spare(Now, t)
      BY <1>1, <1>2, <1>3, <2>1 DEF ReadWord, MetTwice
    <3>. QED  BY <1>1, <2>1, <3>1 DEF Spare
  <2> HIDE DEF topical
  <2>. QED  BY <2>1, <2>2 DEF Now, State
<1>7. CASE ParseFails
  <2>1. /\ err' = Failed /\ phase' = "exit" /\ printed' = Append(printed, <<"error", target>>)
        /\ UNCHANGED <<rest, target, topic, exits>> /\ Unknown
    BY <1>7, Zenon DEF ParseFails, Failed
  <2>2. Onward(Now) = Refused(Now)
    BY <1>1, <1>2, <2>1 DEF ReadWord, ReadFlag, Spare, Unknown
  <2>3. Refused(Now) =
          State("exit", target, rest, topic, Failed, Append(printed, <<"error", target>>), exits)
    BY RefusedIs DEF Now
  <2>. QED  BY <2>1, <2>2, <2>3 DEF Now
<1>. QED  BY <1>4, <1>5, <1>6, <1>7

LEMMA ActsOn ==
  ASSUME OwnAction \/ VersionAction \/ HelpAction, phase' # "over"
  PROVE  Now' = Onward(Now)
<1>1. /\ Now.phase = "parse" /\ Now.rest = <<>> /\ Now.target = target /\ Now.topic = topic
      /\ phase = "parse" /\ rest = <<>>
  BY StateIs DEF Now, OwnAction, VersionAction, HelpAction, Ready
<1> DEFINE up == SubSeq(target, 1, Len(target) - 1)
           last == target[Len(target)]
<1>2. Onward(Now) =
        IF target \in Failing /\ target \in DOMAIN Own THEN Refused(Now)
        ELSE IF target \in DOMAIN Own THEN Acted(Ended(Now, Well))
        ELSE IF last = "version" THEN Acted(Prints(Now, <<"version", up>>))
        ELSE IF target \in Failing /\ topic = Nil THEN Refused(Helps(Now, up))
        ELSE Acted(Ended(Helps(Now, up), Well))
  BY <1>1 DEF Onward, Acts
<1>3. CASE OwnAction /\ target \in Failing
  <2>1. /\ target \in DOMAIN Own /\ phase' = "exit"
        /\ printed' = Append(printed, <<"error", target>>)
        /\ UNCHANGED <<rest, target, topic, exits>>
    BY <1>3 DEF OwnAction
  <2>2. err' = Failed
    <3>1. err' = (target \in Failing)
      BY <1>3 DEF OwnAction
    <3>2. (target \in Failing) = TRUE
      BY <1>3
    <3>. QED  BY <3>1, <3>2, Zenon DEF Failed
  <2>3. Refused(Now) =
          State("exit", target, rest, topic, Failed, Append(printed, <<"error", target>>), exits)
    BY RefusedIs DEF Now
  <2>. QED  BY <1>2, <1>3, <2>1, <2>2, <2>3 DEF Now
<1>4. CASE OwnAction /\ target \notin Failing
  <2>1. target \in DOMAIN Own /\ phase' = "exit"
        /\ UNCHANGED <<rest, target, topic, printed, exits>>
    BY <1>4 DEF OwnAction
  <2>2. err' = Well
    <3>1. err' = (target \in Failing)
      BY <1>4 DEF OwnAction
    <3>2. (target \in Failing) = FALSE
      BY <1>4
    <3>. QED  BY <3>1, <3>2, Zenon DEF Well
  <2>3. Ended(Now, Well) = State(phase, target, rest, topic, Well, printed, exits)
    BY StateIs DEF Now
  <2>4. Acted(Ended(Now, Well)) = State("exit", target, rest, topic, Well, printed, exits)
    BY <2>3, StateIs
  <2>. QED  BY <1>2, <1>4, <2>1, <2>2, <2>4 DEF Now
<1>6. CASE VersionAction
  <2> DEFINE y == <<"version", up>>
  <2>1. /\ target \notin DOMAIN Own /\ last = "version" /\ phase' = "exit"
        /\ printed' = Append(printed, y)
        /\ UNCHANGED <<rest, target, topic, err, exits>>
    BY <1>6 DEF VersionAction
  <2>2. Onward(Now) = Acted(Prints(Now, y))
    BY <1>2, <2>1
  <2> HIDE DEF y
  <2>3. Prints(Now, y) = State(phase, target, rest, topic, err, Append(printed, y), exits)
    BY StateIs DEF Now
  <2>4. Acted(Prints(Now, y)) = State("exit", target, rest, topic, err, Append(printed, y), exits)
    BY <2>3, StateIs
  <2>. QED  BY <2>1, <2>2, <2>4 DEF Now
<1>8. CASE HelpAction
  <2> DEFINE e == Entry("command", topic)
             said == IF topic = Nil THEN <<"help", up>>
                     ELSE IF Has(up, e) THEN <<"help", Child(up, e)>> ELSE <<"usage", up>>
             code == IF topic = Nil \/ Has(up, e) THEN 0 ELSE 1
             fails == topic = Nil /\ target \in Failing
             shown == Append(printed, said)
  <2>1. /\ target \notin DOMAIN Own /\ last = "help" /\ last # "version"
        /\ UNCHANGED <<rest, target, topic>>
    BY <1>8 DEF HelpAction
  <2>2. /\ exits' = Append(exits, code) /\ phase' = "exit"
        /\ printed' = IF fails THEN Append(shown, <<"error", target>>) ELSE shown
    BY <1>8 DEF HelpAction, Exit
  <2>3. Helps(Now, up) = Exits(Prints(Now, said), code)
    BY <1>1 DEF Helps
  <2>4. Onward(Now) = IF fails THEN Refused(Exits(Prints(Now, said), code))
                      ELSE Acted(Ended(Exits(Prints(Now, said), code), Well))
    BY <1>2, <2>1, <2>3
  <2>5. /\ fails => err' = Failed
        /\ ~ fails => err' = Well
    <3>1. err' = fails
      BY <1>8 DEF HelpAction
    <3>. QED  BY <3>1, Zenon DEF Failed, Well
  <2> HIDE DEF said, code
  <2>6. Prints(Now, said) = State(phase, target, rest, topic, err, shown, exits)
    BY StateIs DEF Now
  <2> HIDE DEF shown, fails
  <2>7. Exits(Prints(Now, said), code) =
          State(phase, target, rest, topic, err, shown, Append(exits, code))
    BY <2>6, StateIs
  <2>8. CASE fails
    <3>1. Refused(Exits(Prints(Now, said), code)) =
            State("exit", target, rest, topic, Failed, Append(shown, <<"error", target>>),
                  Append(exits, code))
      BY <2>7, RefusedIs
    <3>. QED  BY <2>1, <2>2, <2>4, <2>5, <2>8, <3>1 DEF Now
  <2>9. CASE ~ fails
    <3>1. Ended(Exits(Prints(Now, said), code), Well) =
            State(phase, target, rest, topic, Well, shown, Append(exits, code))
      BY <2>7, StateIs
    <3>2. Acted(Ended(Exits(Prints(Now, said), code), Well)) =
            State("exit", target, rest, topic, Well, shown, Append(exits, code))
      BY <3>1, StateIs
    <3>. QED  BY <2>1, <2>2, <2>4, <2>5, <2>9, <3>2 DEF Now
  <2>. QED  BY <2>8, <2>9
<1>. QED  BY <1>3, <1>4, <1>6, <1>8

LEMMA ExitOn ==
  ASSUME ExitRun, wired[target], phase' # "over"
  PROVE  Now' = Onward(Now)
<1> DEFINE code == IF err THEN 1 ELSE 0
<1>1. /\ phase = "exit" /\ phase' = "done" /\ exits' = Append(exits, code)
      /\ UNCHANGED <<rest, target, topic, err, printed>>
  BY DEF ExitRun, Exit
<1>2. Now.phase = "exit" /\ (IF Now.err THEN 1 ELSE 0) = code
  BY <1>1, StateIs DEF Now
<1> HIDE DEF code
<1>3. Onward(Now) = Done(Exits(Now, code))
  BY <1>2 DEF Onward
<1>4. Exits(Now, code) = State(phase, target, rest, topic, err, printed, Append(exits, code))
  BY StateIs DEF Now
<1>5. Done(Exits(Now, code)) = State("done", target, rest, topic, err, printed, Append(exits, code))
  BY <1>4, StateIs
<1>. QED  BY <1>1, <1>3, <1>5 DEF Now


---------------------------------------------------------------------------
(* Numbers.  Some number of a set that is bounded is the last: of the      *)
(* segments from its members to the bound one contains no smaller one.     *)
LEMMA HasLast ==
  ASSUME NEW b \in Int, NEW S, S # {}, S \subseteq Int, \A x \in S : x <= b
  PROVE  \E x \in S : \A y \in S : x >= y
<1> DEFINE R == StrictSubsetOrdering(Int)
           T == {x .. b : x \in S}
<1>1. IsWellFoundedOn(R, FiniteSubsetsOf(Int))
  BY FS_StrictSubsetOrderingWellFounded
<1>2. T \subseteq FiniteSubsetsOf(Int) /\ T # {}
  <2>1. ASSUME NEW x \in S PROVE x .. b \in FiniteSubsetsOf(Int)
    BY FS_Interval DEF FiniteSubsetsOf
  <2>. QED  BY <2>1
<1> HIDE DEF R
<1>3. \E t \in T : \A u \in T : ~ (<<u, t>> \in R)
  BY <1>1, <1>2, WFMin
<1>4. PICK x \in S : \A y \in S : ~ (<<y .. b, x .. b>> \in R)
  BY <1>3
<1>5. ASSUME NEW y \in S, y > x PROVE FALSE
  <2>1. y .. b \subseteq x .. b
    BY <1>5
  <2>2. x \in x .. b /\ x \notin y .. b
    BY <1>5
  <2>3. y .. b \in SUBSET Int /\ x .. b \in SUBSET Int
    OBVIOUS
  <2>4. <<y .. b, x .. b>> \in R
    BY <2>1, <2>2, <2>3 DEF R, StrictSubsetOrdering
  <2>. QED  BY <2>4, <1>4
<1>. QED  BY <1>5

(* Induction up to n.                                                      *)
LEMMA Climb ==
  ASSUME NEW n \in Nat, NEW S, 0 \in S, \A i \in 0 .. n - 1 : i \in S => i + 1 \in S
  PROVE  0 .. n \subseteq S
<1> DEFINE T == {k \in 0 .. n : 0 .. k \subseteq S}
<1>1. 0 \in T /\ T \subseteq Int /\ \A k \in T : k <= n
  OBVIOUS
<1>2. PICK k \in T : \A j \in T : k >= j
  <2>1. T # {} /\ n \in Int
    BY <1>1
  <2> HIDE DEF T
  <2>. QED  BY <1>1, <2>1, HasLast
<1>3. k = n
  <2>1. SUFFICES ASSUME k # n PROVE FALSE
    OBVIOUS
  <2>2. k \in 0 .. n - 1 /\ k \in 0 .. k
    BY <1>2, <2>1
  <2>3. k + 1 \in S
    BY <1>2, <2>2
  <2>4. 0 .. k + 1 \subseteq S
    BY <1>2, <2>2, <2>3
  <2>5. k + 1 \in T
    BY <2>2, <2>4
  <2>. QED  BY <1>2, <2>2, <2>5
<1>. QED  BY <1>2, <1>3

---------------------------------------------------------------------------
(* What comes of a line: x after some steps.                               *)
Leads(l, n, s, x) ==
  /\ n \in Nat /\ s[0] = Begin(l) /\ s[n] = x
  /\ \A i \in 0 .. n - 1 : s[i + 1] = Onward(s[i])

Comes(l, x) == \E n, s : Leads(l, n, s, x)

LEMMA ComesFirst ==
  ASSUME NEW l
  PROVE  Comes(l, Begin(l))
<1> DEFINE s == [i \in {0} |-> Begin(l)]
<1>1. s[0] = Begin(l)
  OBVIOUS
<1> HIDE DEF s
<1>2. Leads(l, 0, s, Begin(l))
  BY <1>1 DEF Leads
<1>. QED  BY <1>2 DEF Comes

LEMMA ComesNext ==
  ASSUME NEW l, NEW x, Comes(l, x)
  PROVE  Comes(l, Onward(x))
<1>1. PICK n, s : Leads(l, n, s, x)
  BY DEF Comes
<1>2. /\ n \in Nat /\ s[0] = Begin(l) /\ s[n] = x
      /\ \A i \in 0 .. n - 1 : s[i + 1] = Onward(s[i])
  BY <1>1 DEF Leads
<1> DEFINE m == n + 1
           t == [i \in 0 .. m |-> IF i = m THEN Onward(x) ELSE s[i]]
<1>3. m \in Nat /\ m # n /\ m # 0 /\ n \in 0 .. m /\ 0 \in 0 .. m /\ m - 1 = n /\ m = n + 1
      /\ m \in 0 .. m
  BY <1>2
<1>4. \A i \in 0 .. n - 1 : i \in 0 .. m /\ i + 1 \in 0 .. m /\ i # m /\ i + 1 # m
  BY <1>2
<1>5. /\ t[m] = Onward(x) /\ t[n] = x /\ t[0] = Begin(l)
      /\ \A i \in 0 .. n - 1 : t[i] = s[i] /\ t[i + 1] = s[i + 1]
  <2> HIDE DEF m
  <2>. QED  BY <1>2, <1>3, <1>4
<1> HIDE DEF m, t
<1>6. ASSUME NEW i \in 0 .. m - 1 PROVE t[i + 1] = Onward(t[i])
  <2>1. i = n \/ i \in 0 .. n - 1
    BY <1>2, <1>3
  <2>2. CASE i = n
    BY <1>3, <1>5, <2>2
  <2>3. CASE i \in 0 .. n - 1
    BY <1>2, <1>5, <2>3
  <2>. QED  BY <2>1, <2>2, <2>3
<1>7. Leads(l, m, t, Onward(x))
  BY <1>3, <1>5, <1>6 DEF Leads
<1>. QED  BY <1>7 DEF Comes

(* Where nothing more comes, the longer sequence stays.                    *)
LEMMA LeadsOn ==
  ASSUME NEW l, NEW n, NEW s, NEW x, Leads(l, n, s, x), Onward(x) = x,
         NEW m, NEW t, NEW y, Leads(l, m, t, y), n <= m
  PROVE  y = x
<1>1. /\ n \in Nat /\ s[0] = Begin(l) /\ s[n] = x
      /\ \A i \in 0 .. n - 1 : s[i + 1] = Onward(s[i])
      /\ m \in Nat /\ t[0] = Begin(l) /\ t[m] = y
      /\ \A i \in 0 .. m - 1 : t[i + 1] = Onward(t[i])
  BY DEF Leads
<1> DEFINE S == {i \in 0 .. m : t[i] = IF i <= n THEN s[i] ELSE x}
<1>2. 0 \in S
  BY <1>1
<1>3. ASSUME NEW i \in 0 .. m - 1, i \in S PROVE i + 1 \in S
  <2>1. i \in Int /\ i + 1 \in 0 .. m /\ t[i + 1] = Onward(t[i])
    BY <1>1, <1>3
  <2>2. CASE i + 1 <= n
    <3>1. i <= n /\ i \in 0 .. n - 1
      BY <1>1, <1>3, <2>2
    <3>2. t[i] = s[i] /\ s[i + 1] = Onward(s[i])
      BY <1>1, <1>3, <3>1
    <3>. QED  BY <2>1, <2>2, <3>2
  <2>3. CASE ~ i + 1 <= n
    <3>1. i = n \/ ~ i <= n
      BY <1>1, <2>1, <2>3
    <3>2. t[i] = x
      <4>1. CASE i = n
        <5>1. i <= n
          BY <1>1, <4>1
        <5>. QED  BY <1>1, <1>3, <4>1, <5>1
      <4>2. CASE ~ i <= n
        BY <1>3, <4>2
      <4>. QED  BY <3>1, <4>1, <4>2
    <3>. QED  BY <2>1, <2>3, <3>2
  <2>. QED  BY <2>2, <2>3
<1>4. m \in S
  <2> HIDE DEF S
  <2>1. 0 .. m \subseteq S
    BY <1>1, <1>2, <1>3, Climb
  <2>. QED  BY <1>1, <2>1
<1>5. t[m] = IF m <= n THEN s[m] ELSE x
  BY <1>4
<1>6. CASE m = n
  BY <1>1, <1>5, <1>6
<1>7. CASE m # n
  <2>1. ~ m <= n
    BY <1>1, <1>7
  <2>. QED  BY <1>1, <1>5, <2>1
<1>. QED  BY <1>6, <1>7

(* A line comes to one end.                                                *)
LEMMA ComesOnce ==
  ASSUME NEW l, NEW x, NEW y, Comes(l, x), Comes(l, y), Onward(x) = x, Onward(y) = y
  PROVE  x = y
<1>1. PICK n, s : Leads(l, n, s, x)
  BY DEF Comes
<1>2. PICK m, t : Leads(l, m, t, y)
  BY DEF Comes
<1>3. n <= m \/ m <= n
  <2>1. n \in Nat /\ m \in Nat
    BY <1>1, <1>2 DEF Leads
  <2>. QED  BY <2>1
<1>4. CASE n <= m
  BY <1>1, <1>2, <1>4, LeadsOn
<1>5. CASE m <= n
  BY <1>1, <1>2, <1>5, LeadsOn
<1>. QED  BY <1>3, <1>4, <1>5


---------------------------------------------------------------------------
(* From the second run on, everything a run does and everything that was   *)
(* recorded comes of its line.                                             *)
Given(l, o) ==
  \E x : /\ Comes(l, x) /\ x.phase \in {"done", "raised"}
         /\ o = [how |-> x.phase, printed |-> x.printed, exits |-> x.exits]

Underway == phase \in {"parse", "exit", "done", "raised"} /\ runs > 0

Opened == State("parse", target, rest, topic, err, printed, exits)

AgreeInv ==
  /\ FillInv
  /\ phase = "setup" => target = App /\ Opened = Begin(line)
  /\ phase # "idle" => line \in Lines
  /\ Underway => target \in Paths /\ wired[target] /\ Comes(line, Now)
  /\ DOMAIN outcomes = Lines
  /\ runs <= 1 => \A l \in Lines : outcomes[l] = {}
  /\ \A l \in Lines : \A o \in outcomes[l] : Given(l, o)

LEMMA AgreeInit == Init => AgreeInv
BY FillInit DEF Init, AgreeInv, Underway

(* What comes of a line depends on the tables only.                        *)
LEMMA SameComes ==
  ASSUME kids' = kids
  PROVE  /\ \A l, x : Comes(l, x)' <=> Comes(l, x)
         /\ \A l, o : Given(l, o)' <=> Given(l, o)
<1>1. \A c, e : Has(c, e)' <=> Has(c, e)
  BY DEF Has
<1>0. \A s, t : Spare(s, t)' = Spare(s, t)
  BY DEF Spare, Refused, Acted, Ended, Prints
<1>2. \A s, t : ReadWord(s, t)' = ReadWord(s, t)
  BY <1>0, <1>1 DEF ReadWord
<1>3. \A s, o : ReadFlag(s, o)' = ReadFlag(s, o)
  BY <1>1 DEF ReadFlag, Refused, Acted, Ended, Prints, Exits
<1>4. \A s, up : Helps(s, up)' = Helps(s, up)
  BY <1>1 DEF Helps, Exits, Prints
<1>5. \A s : Reads(s)' = Reads(s)
  BY <1>0, <1>2, <1>3 DEF Reads
<1>6. \A s : Acts(s)' = Acts(s)
  BY <1>4 DEF Acts, Refused, Acted, Ended, Prints
<1>7. \A s : Onward(s)' = Onward(s)
  BY <1>5, <1>6 DEF Onward, Done, Exits
<1>8. \A l, n, s, x : Leads(l, n, s, x)' <=> Leads(l, n, s, x)
  BY <1>7 DEF Leads, Begin, State
<1>9. \A l, x : Comes(l, x)' <=> Comes(l, x)
  BY <1>8 DEF Comes
<1>. QED  BY <1>9 DEF Given


(* A command that a line can name, from the second run on, is wired.       *)
LEMMA NamedIsWired ==
  ASSUME WireInv, phase = "parse", runs > 0, NEW c \in Paths, NEW n,
         Has(c, Entry("command", n))
  PROVE  Child(c, Entry("command", n)) \in Paths /\ wired[Child(c, Entry("command", n))]
<1> DEFINE e == Entry("command", n)
<1>1. e \in Members(kids[c]) /\ e.kind = "command"
  BY DEF Has, Members, Entry
<1>2. Shape /\ Wires
  BY DEF WireInv
<1> HIDE DEF e
<1>3. Child(c, e) \in Paths
  BY <1>1, <1>2, CommandIs
<1>4. ~ Late(c, e)
  BY DEF Late
<1>5. Right(c, e)
  BY <1>1, <1>2, <1>4 DEF Wires
<1>. QED  BY <1>3, <1>5 DEF Right, Good, e

(* The steps of the parse, of the action and of exit.                      *)
LEMMA OnAgrees ==
  ASSUME AgreeInv, ReadCommand \/ ReadOption \/ ReadArguments \/ ParseFails
                   \/ OwnAction \/ VersionAction \/ HelpAction \/ ExitRun
  PROVE  /\ Underway' => target' \in Paths /\ wired'[target'] /\ Comes(line', Now')
         /\ kids' = kids /\ runs' = runs /\ line' = line /\ outcomes' = outcomes
         /\ phase \in {"parse", "exit"} /\ phase' \notin {"setup", "idle"}
<1>1. /\ kids' = kids /\ wired' = wired /\ runs' = runs /\ line' = line /\ outcomes' = outcomes
      /\ phase \in {"parse", "exit"} /\ phase' \notin {"setup", "idle"}
  BY DEF ReadCommand, ReadOption, ReadArguments, ParseFails, OwnAction, VersionAction,
         HelpAction, ExitRun, Exit, Reading, Ready, parsed, tree
<1>2. SUFFICES ASSUME Underway'
               PROVE  target' \in Paths /\ wired'[target'] /\ Comes(line', Now')
  BY <1>1
<1>3. /\ runs > 0 /\ phase' # "over" /\ target \in Paths /\ wired[target]
      /\ Comes(line, Now)
  BY <1>1, <1>2 DEF AgreeInv, Underway
<1>4. Now' = Onward(Now)
  BY <1>3, ReadsOn, ActsOn, ExitOn
<1>5. Comes(line', Now')
  BY <1>1, <1>3, <1>4, ComesNext
<1>6. CASE ReadCommand
  <2> DEFINE n == Head(rest)
  <2>1. phase = "parse" /\ Has(target, Entry("command", n))
        /\ target' = Child(target, Entry("command", n))
    BY <1>6 DEF ReadCommand, Reading
  <2>2. WireInv
    BY DEF AgreeInv, FillInv
  <2> HIDE DEF n
  <2>. QED  BY <1>1, <1>3, <1>5, <2>1, <2>2, NamedIsWired
<1>7. CASE ~ ReadCommand
  <2>1. target' = target
    BY <1>7 DEF ReadOption, ReadArguments, ParseFails, OwnAction, VersionAction, HelpAction,
                ExitRun
  <2>. QED  BY <1>1, <1>3, <1>5, <2>1
<1>. QED  BY <1>6, <1>7

LEMMA AgreeStep ==
  ASSUME AgreeInv, [Next]_vars
  PROVE  AgreeInv'
<1>1. FillInv' /\ (Settled => Settled' /\ kids' = kids)
  BY FillStep DEF AgreeInv
<1>2. runs \in Nat
  BY DEF AgreeInv, FillInv, WireInv
<1>3. Underway => Settled
  BY <1>2 DEF Underway, Settled
<1>4. runs > 1 => Settled
  BY <1>2 DEF Settled
<1>5. ASSUME outcomes' = outcomes, runs' = runs
      PROVE  /\ DOMAIN outcomes' = Lines
             /\ runs' <= 1 => \A l \in Lines : outcomes'[l] = {}
             /\ \A l \in Lines : \A o \in outcomes'[l] : Given(l, o)'
  <2>1. CASE runs <= 1
    BY <1>5, <2>1 DEF AgreeInv
  <2>2. CASE ~ runs <= 1
    <3>1. kids' = kids
      BY <1>1, <1>2, <1>4, <2>2
    <3>. QED  BY <1>5, <2>2, <3>1, SameComes DEF AgreeInv
  <2>. QED  BY <2>1, <2>2
<1>6. CASE \E l \in Lines : Run(l)
  <2>1. PICK l \in Lines : Run(l)
    BY <1>6
  <2>2. /\ phase' = "setup" /\ line' = l /\ target' = App /\ rest' = l /\ topic' = Nil
        /\ err' = FALSE /\ printed' = <<>> /\ exits' = <<>> /\ runs' = runs
        /\ outcomes' = outcomes
    BY <2>1, Zenon DEF Run
  <2>3. Opened' = Begin(line')
    BY <2>2, Zenon DEF Opened, Begin
  <2>4. Opened' = Begin(line)'
    BY <2>3 DEF Begin, State
  <2>5. ~ Underway'
    BY <2>2 DEF Underway
  <2>. QED  BY <1>1, <1>5, <2>2, <2>4, <2>5 DEF AgreeInv
<1>7. CASE SetParent \/ PassOption \/ SetupFlags
  <2>1. /\ phase = "setup" /\ phase' = "setup" /\ runs' = runs /\ outcomes' = outcomes
        /\ line' = line /\ target' = target /\ rest' = rest /\ topic' = topic
        /\ err' = err /\ printed' = printed /\ exits' = exits
    BY <1>7 DEF SetParent, PassOption, SetupFlags, out
  <2>2. Opened' = Opened /\ Begin(line)' = Begin(line)
    BY <2>1 DEF Opened, Begin, State
  <2>3. ~ Underway'
    BY <2>1 DEF Underway
  <2>. QED  BY <1>1, <1>5, <2>1, <2>2, <2>3 DEF AgreeInv
<1>8. CASE Parse
  <2>1. /\ phase = "setup" /\ phase' = "parse" /\ runs' = runs /\ outcomes' = outcomes
        /\ line' = line /\ target' = target /\ rest' = rest /\ topic' = topic
        /\ err' = err /\ printed' = printed /\ exits' = exits
        /\ kids' = kids /\ wired' = wired
    BY <1>8 DEF Parse, out, tree
  <2>2. target' = App /\ App \in Paths /\ wired'[App]
    BY <2>1, PathsAre DEF AgreeInv, FillInv, WireInv, Shape
  <2>3. Now' = Begin(line)
    <3>1. Now' = Opened
      BY <2>1, Zenon DEF Now, Opened
    <3>. QED  BY <2>1, <3>1 DEF AgreeInv
  <2>4. Comes(line, Begin(line))
    BY ComesFirst
  <2>5. Comes(line', Now')
    BY <2>1, <2>3, <2>4
  <2>6. Comes(line, Now)'
    BY <2>1, <2>5, SameComes
  <2>7. line' \in Lines
    BY <2>1 DEF AgreeInv
  <2>. QED  BY <1>1, <1>5, <2>1, <2>2, <2>6, <2>7 DEF AgreeInv
<1>9. CASE ReadCommand \/ ReadOption \/ ReadArguments \/ ParseFails
           \/ OwnAction \/ VersionAction \/ HelpAction \/ ExitRun
  <2>1. /\ Underway' => target' \in Paths /\ wired'[target'] /\ Comes(line', Now')
        /\ kids' = kids /\ runs' = runs /\ line' = line /\ outcomes' = outcomes
        /\ phase \in {"parse", "exit"} /\ phase' \notin {"setup", "idle"}
    BY <1>9, OnAgrees
  <2>2. Underway' => Comes(line, Now)'
    BY <2>1, SameComes
  <2>3. line' \in Lines
    BY <2>1 DEF AgreeInv
  <2>. QED  BY <1>1, <1>5, <2>1, <2>2, <2>3 DEF AgreeInv
<1>10. CASE Return
  <2>1. /\ phase \in {"done", "raised"} /\ phase' = "idle" /\ runs' = runs + 1 /\ kids' = kids
        /\ outcomes' = IF runs = 0 THEN outcomes
                       ELSE [outcomes EXCEPT ![line] = @ \cup {Outcome}]
    BY <1>10 DEF Return, tree
  <2>2. ~ Underway'
    BY <2>1 DEF Underway
  <2>3. line \in Lines /\ DOMAIN outcomes = Lines
    BY <2>1 DEF AgreeInv
  <2>4. CASE runs = 0
    <3>1. outcomes' = outcomes /\ \A l \in Lines : outcomes[l] = {}
      BY <2>1, <2>4 DEF AgreeInv
    <3>. QED  BY <1>1, <2>1, <2>2, <2>3, <3>1 DEF AgreeInv
  <2>5. CASE runs # 0
    <3>1. Underway
      BY <1>2, <2>1, <2>5 DEF Underway
    <3>2. Given(line, Outcome)
      <4>1. Comes(line, Now)
        BY <3>1 DEF AgreeInv
      <4>2. Now.phase = phase /\ Now.printed = printed /\ Now.exits = exits
        BY StateIs DEF Now
      <4> HIDE DEF Now
      <4>. QED  BY <2>1, <4>1, <4>2 DEF Given, Outcome
    <3>3. \A l \in Lines : outcomes'[l] \subseteq
            IF l = line THEN outcomes[l] \cup {Outcome} ELSE outcomes[l]
      BY <2>1, <2>3, <2>5
    <3>4. \A l \in Lines : \A o \in outcomes'[l] : Given(l, o)
      BY <3>2, <3>3 DEF AgreeInv
    <3>5. \A l \in Lines : \A o \in outcomes'[l] : Given(l, o)'
      BY <2>1, <3>4, SameComes
    <3>6. DOMAIN outcomes' = Lines /\ ~ runs' <= 1
      BY <1>2, <2>1, <2>3, <2>5
    <3>. QED  BY <1>1, <2>1, <2>2, <3>5, <3>6 DEF AgreeInv
  <2>. QED  BY <2>4, <2>5
<1>11. CASE UNCHANGED vars
  <2>1. /\ phase' = phase /\ runs' = runs /\ outcomes' = outcomes
        /\ line' = line /\ target' = target /\ rest' = rest /\ topic' = topic
        /\ err' = err /\ printed' = printed /\ exits' = exits
        /\ kids' = kids /\ wired' = wired
    BY <1>11 DEF vars, tree, out
  <2>2. /\ Opened' = Opened /\ Begin(line)' = Begin(line) /\ Now' = Now
        /\ (Underway' <=> Underway)
    BY <2>1 DEF Opened, Begin, State, Now, Underway
  <2>3. Comes(line, Now) => Comes(line, Now)'
    BY <2>1, <2>2, SameComes
  <2>. QED  BY <1>1, <1>5, <2>1, <2>2, <2>3 DEF AgreeInv
<1>. QED  BY <1>6, <1>7, <1>8, <1>9, <1>10, <1>11 DEF Next

LEMMA EndIsEnd ==
  ASSUME NEW x, x.phase \in {"done", "raised"}
  PROVE  Onward(x) = x
BY DEF Onward

(* However often an application is run, with whatever lines and tree: from *)
(* the second run on, a line that is given again prints the same, passes   *)
(* the same to exit and ends the same way (run, set_parent).               *)
THEOREM LinesAgree == Spec => []RunsAgree
<1>1. AgreeInv => RunsAgree
  <2> SUFFICES ASSUME AgreeInv, NEW l \in Lines PROVE Cardinality(outcomes[l]) <= 1
    BY DEF RunsAgree
  <2>1. ASSUME NEW o \in outcomes[l], NEW p \in outcomes[l] PROVE o = p
    <3>1. Given(l, o) /\ Given(l, p)
      BY DEF AgreeInv
    <3>2. PICK x : /\ Comes(l, x) /\ x.phase \in {"done", "raised"}
                   /\ o = [how |-> x.phase, printed |-> x.printed, exits |-> x.exits]
      BY <3>1 DEF Given
    <3>3. PICK y : /\ Comes(l, y) /\ y.phase \in {"done", "raised"}
                   /\ p = [how |-> y.phase, printed |-> y.printed, exits |-> y.exits]
      BY <3>1 DEF Given
    <3>4. x = y
      BY <3>2, <3>3, EndIsEnd, ComesOnce
    <3>. QED  BY <3>2, <3>3, <3>4
  <2>2. CASE outcomes[l] = {}
    BY <2>2, FS_EmptySet
  <2>3. CASE outcomes[l] # {}
    <3>1. PICK o \in outcomes[l] : TRUE
      BY <2>3
    <3>2. outcomes[l] = {o}
      BY <2>1, <3>1
    <3>. QED  BY <3>2, FS_Singleton
  <2>. QED  BY <2>2, <2>3
<1>2. Init => AgreeInv
  BY AgreeInit
<1>3. AgreeInv /\ [Next]_vars => AgreeInv'
  BY AgreeStep
<1>. QED  BY <1>1, <1>2, <1>3, PTL DEF Spec
=============================================================================
