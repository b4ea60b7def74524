----------------------------- MODULE I18nProofs -----------------------------
(***************************************************************************)
(* Proofs about I18n, for any bundles, packages, locales, classifiers and  *)
(* files: what the program wrote in its files of strings stays, a bundle   *)
(* answers from its own file, and its answers do not change.               *)
(***************************************************************************)
EXTENDS I18n, TLAPS

(* The entries only grow, whatever the action.                             *)
TextsInv == DOMAIN entry = Tables /\ TextsKept

(* Every entry that was there is there, with the same text.                *)
OnlyGrows ==
  /\ DOMAIN entry' = DOMAIN entry
  /\ \A t \in Tables : \A k \in DOMAIN entry[t] :
       /\ k \in DOMAIN entry'[t] /\ DOMAIN entry[t][k] \subseteq DOMAIN entry'[t][k]
       /\ \A f \in DOMAIN entry[t][k] : entry'[t][k][f] = entry[t][k][f]

LEMMA GrowingKeeps == TextsInv /\ OnlyGrows => TextsInv'
<1> SUFFICES ASSUME TextsInv, OnlyGrows PROVE TextsInv'
  OBVIOUS
<1>1. (DOMAIN entry = Tables)'
  BY DEF TextsInv, OnlyGrows
<1>2. ASSUME NEW t \in Tables, NEW k \in DOMAIN Loaded(t)
      PROVE  /\ k \in DOMAIN entry'[t] /\ DOMAIN Loaded(t)[k] \subseteq DOMAIN entry'[t][k]
             /\ \A f \in DOMAIN Loaded(t)[k] : entry'[t][k][f] = Text(t, k, f)
  BY <1>2 DEF TextsInv, TextsKept, OnlyGrows
<1>3. TextsKept'
  BY <1>2 DEF TextsKept, Loaded
<1> QED
  BY <1>1, <1>3 DEF TextsInv

LEMMA UnchangedGrows == DOMAIN entry = Tables /\ UNCHANGED entry => OnlyGrows
BY DEF OnlyGrows

(* A key that is missed is written where there was none.                   *)
LEMMA RememberGrows ==
  ASSUME NEW n, NEW k, DOMAIN entry = Tables, Remember(n, k)
  PROVE  OnlyGrows
<1>1. CASE entry' = entry
  BY <1>1, UnchangedGrows
<1>2. CASE entry' # entry
  <2> DEFINE T == strings[n]  new == [f \in {Plain} |-> Itself(k)]
  <2>1. ~ Has(n, k) /\ entry' = [entry EXCEPT ![T] = Put(@, k, new)]
    BY <1>2 DEF Remember
  <2>2. k \notin DOMAIN entry[T]
    BY <2>1 DEF Has
  <2>3. DOMAIN entry' = DOMAIN entry
    BY <2>1
  <2>4. ASSUME NEW t \in Tables, NEW j \in DOMAIN entry[t]
        PROVE  j \in DOMAIN entry'[t] /\ entry'[t][j] = entry[t][j]
    <3>1. CASE t = T
      BY <2>1, <2>2, <3>1 DEF Put
    <3>2. CASE t # T
      BY <2>1, <3>2
    <3> QED
      BY <3>1, <3>2
  <2> QED
    BY <2>3, <2>4 DEF OnlyGrows
<1> QED
  BY <1>1, <1>2

(* A plural that is missed is written under a form the key did not have.   *)
LEMMA LnPluralGrows ==
  ASSUME NEW n, NEW k, NEW q, DOMAIN entry = Tables, LnPlural(n, k, q)
  PROVE  OnlyGrows
<1>1. CASE entry' = entry
  BY <1>1, UnchangedGrows
<1>2. CASE entry' # entry
  <2> DEFINE T == strings[n]  r == Rule(n, q)
  <2>1. /\ r \notin DOMAIN entry[T][k]
        /\ entry' = [entry EXCEPT ![T][k] = Put(@, r, Itself(k))]
    BY <1>2 DEF LnPlural, Plural
  <2> HIDE DEF r
  <2>2. DOMAIN entry' = DOMAIN entry
    BY <2>1
  <2>3. ASSUME NEW t \in Tables, NEW j \in DOMAIN entry[t]
        PROVE  /\ j \in DOMAIN entry'[t] /\ DOMAIN entry[t][j] \subseteq DOMAIN entry'[t][j]
               /\ \A f \in DOMAIN entry[t][j] : entry'[t][j][f] = entry[t][j][f]
    <3>1. CASE t = T /\ j = k
      BY <2>1, <3>1 DEF Put
    <3>2. CASE ~ (t = T /\ j = k)
      BY <2>1, <3>2
    <3> QED
      BY <3>1, <3>2
  <2> QED
    BY <2>2, <2>3 DEF OnlyGrows
<1> QED
  BY <1>1, <1>2

LEMMA NextGrows == TextsInv /\ [Next]_vars => OnlyGrows
<1> SUFFICES ASSUME TextsInv, [Next]_vars PROVE OnlyGrows
  OBVIOUS
<1>0. DOMAIN entry = Tables
  BY DEF TextsInv
<1>1. ASSUME NEW l, SetLocale(l) PROVE OnlyGrows
  BY <1>0, <1>1, UnchangedGrows DEF SetLocale
<1>2. ASSUME NEW l, SetClassifier(l) PROVE OnlyGrows
  BY <1>0, <1>2, UnchangedGrows DEF SetClassifier
<1>3. ASSUME NEW n, NEW m, NEW p, AddBundle(n, m, p) \/ Call(n, m, p) PROVE OnlyGrows
  BY <1>0, <1>3, UnchangedGrows DEF AddBundle, Call
<1>4. ASSUME NEW n, GetBundle(n) PROVE OnlyGrows
  BY <1>0, <1>4, UnchangedGrows DEF GetBundle
<1>5. ASSUME NEW n, NEW k, L(n, k) \/ LnSingular(n, k) PROVE OnlyGrows
  BY <1>0, <1>5, RememberGrows DEF L, LnSingular
<1>6. ASSUME NEW n, NEW k, NEW q, LnPlural(n, k, q) PROVE OnlyGrows
  BY <1>0, <1>6, LnPluralGrows
<1>7. CASE UNCHANGED vars
  BY <1>0, <1>7, UnchangedGrows DEF vars
<1> QED
  BY <1>1, <1>2, <1>3, <1>4, <1>5, <1>6, <1>7 DEF Next

(* What the program wrote in its files of strings is what every table      *)
(* holds, whatever L and Ln add to it (i18n.lua:90, :170).                 *)
THEOREM TextsStay == Spec => []TextsKept
<1>1. Init => TextsInv
  <2> SUFFICES ASSUME Init PROVE TextsInv
    OBVIOUS
  <2>1. entry = [t \in Tables |-> Loaded(t)]
    BY DEF Init
  <2>2. ASSUME NEW t \in Tables, NEW k \in DOMAIN Loaded(t), NEW f \in DOMAIN Loaded(t)[k]
        PROVE  Loaded(t)[k][f] = Text(t, k, f)
    <3>1. CASE Module[t] = None
      <4>1. DOMAIN Loaded(t) = {}
        BY <3>1 DEF Loaded
      <4> QED
        BY <4>1
    <3>2. CASE Module[t] # None
      BY <3>2 DEF Loaded
    <3> QED
      BY <3>1, <3>2
  <2> QED
    BY <2>1, <2>2 DEF TextsInv, TextsKept
<1>2. TextsInv /\ [Next]_vars => TextsInv'
  BY NextGrows, GrowingKeeps
<1>3. TextsInv => TextsKept
  BY DEF TextsInv
<1> QED
  BY <1>1, <1>2, <1>3, PTL DEF Spec

---------------------------------------------------------------------------
(* The inductive invariant of TypeOK and AnswersOwn.  Wired: a bundle with *)
(* strings is registered.  Added: what a table has beyond its file are     *)
(* keys that stand for themselves.  Bounded: a table that nobody uses, or  *)
(* a single bundle that is not silent, has the keys of its file alone.     *)
Wired ==
  /\ classifiers \subseteq Classified
  /\ \A n \in Names : mode[n] # None => package[n] # None
  /\ \A n \in Names : strings[n] # None => mode[n] # None

Added ==
  \A t \in Tables : \A k \in DOMAIN entry[t] :
    IF k \in DOMAIN Loaded(t)
      THEN \A f \in DOMAIN entry[t][k] \ DOMAIN Loaded(t)[k] :
             f # Plain /\ Plain \notin DOMAIN Loaded(t)[k] /\ entry[t][k][f] = Itself(k)
      ELSE DOMAIN entry[t][k] = {Plain} /\ entry[t][k][Plain] = Itself(k)

OnlyFile(t) == \A k \in DOMAIN entry[t] : k \in DOMAIN Loaded(t)

Bounded ==
  /\ \A t \in Tables : (\A n \in Names : strings[n] # t) => OnlyFile(t)
  /\ \A n \in Names : Alone(n) =>
       /\ metatable[strings[n]] = mode[n]
       /\ mode[n] # "silent" => OnlyFile(strings[n])

Typed ==
  /\ current_locale \in Locales \cup {None} /\ classifiers \subseteq Locales
  /\ mode \in [Names -> Modes \cup {None}] /\ package \in [Names -> Packages \cup {None}]
  /\ strings \in [Names -> Tables \cup {None}] /\ classify \in [Names -> classifiers \cup {None}]
  /\ required \subseteq Tables /\ metatable \in [Tables -> Modes \cup {None}]
  /\ \A n \in Names : strings[n] # None =>
       /\ strings[n] \in required /\ strings[n][1] = package[n]
       /\ metatable[strings[n]] \in Modes

EntriesTyped ==
  \A t \in Tables : \A k \in DOMAIN entry[t] :
    k \in Keys /\ entry[t][k] \in [DOMAIN entry[t][k] -> Texts]

BundlesInv == Typed /\ EntriesTyped /\ TextsInv /\ Wired /\ Added /\ Bounded

LEMMA BundlesType == BundlesInv => TypeOK
BY DEF BundlesInv, Typed, EntriesTyped, TypeOK

LEMMA BundlesInit == Init => BundlesInv
<1> SUFFICES ASSUME Init PROVE BundlesInv
  OBVIOUS
<1>1. Typed /\ Wired
  BY DEF Init, Typed, Wired
<1>2. DOMAIN entry = Tables /\ \A t \in Tables : entry[t] = Loaded(t)
  BY DEF Init
<1>3. ASSUME NEW t \in Tables, NEW k \in DOMAIN Loaded(t)
      PROVE  /\ k \in Keys /\ Loaded(t)[k] \in [DOMAIN Loaded(t)[k] -> Texts]
             /\ \A f \in DOMAIN Loaded(t)[k] : Loaded(t)[k][f] = Text(t, k, f)
  <2>1. CASE Module[t] = None
    <3>1. DOMAIN Loaded(t) = {}
      BY <2>1 DEF Loaded
    <3>. QED  BY <3>1
  <2>2. CASE Module[t] # None
    <3>1. /\ k \in DOMAIN Module[t] /\ DOMAIN Module[t] \subseteq Keys
          /\ Module[t][k] = {Plain} \/ Module[t][k] \subseteq Rules
      BY <2>2, I18nAssumption DEF Loaded
    <3>2. Loaded(t)[k] = [r \in Module[t][k] |-> Text(t, k, r)]
      BY <2>2, <3>1 DEF Loaded
    <3>3. \A r \in Module[t][k] : Text(t, k, r) \in Texts
      BY <3>1 DEF Text, Texts, Forms
    <3>. QED  BY <3>1, <3>2, <3>3
  <2>. QED  BY <2>1, <2>2
<1>4. EntriesTyped
  BY <1>2, <1>3 DEF EntriesTyped
<1>5. TextsInv
  BY <1>2, <1>3 DEF TextsInv, TextsKept
<1>6. Added
  BY <1>2 DEF Added
<1>7. Bounded
  BY <1>2 DEF Init, Bounded, OnlyFile, Alone
<1>. QED  BY <1>1, <1>4, <1>5, <1>6, <1>7 DEF BundlesInv

(* The entries do not change.                                              *)
LEMMA EntriesAlone ==
  ASSUME BundlesInv, UNCHANGED entry
  PROVE  /\ EntriesTyped' /\ TextsInv' /\ Added'
         /\ \A t : OnlyFile(t)' <=> OnlyFile(t)
<1>1. EntriesTyped'
  BY DEF BundlesInv, EntriesTyped
<1>2. TextsInv'
  BY DEF BundlesInv, TextsInv, TextsKept, Loaded
<1>3. Added'
  BY DEF BundlesInv, Added, Loaded
<1>4. \A t : OnlyFile(t)' <=> OnlyFile(t)
  BY DEF OnlyFile, Loaded
<1>. QED  BY <1>1, <1>2, <1>3, <1>4

LEMMA BundlesSet ==
  ASSUME BundlesInv,
         (\E l \in Locales : SetLocale(l)) \/ (\E l \in Classified : SetClassifier(l))
  PROVE  BundlesInv'
<1>1. UNCHANGED <<mode, package, loading, entry>>
  BY DEF SetLocale, SetClassifier
<1>2. /\ current_locale' \in Locales \cup {None}
      /\ classifiers \subseteq classifiers' /\ classifiers' \subseteq Classified
  BY DEF SetLocale, SetClassifier, BundlesInv, Typed, Wired
<1>3. Typed'
  BY <1>1, <1>2, I18nAssumption DEF BundlesInv, Typed, loading
<1>4. Wired'
  BY <1>1, <1>2 DEF BundlesInv, Wired, loading
<1>5. Bounded'
  BY <1>1, EntriesAlone DEF BundlesInv, Bounded, Alone, loading
<1>. QED  BY <1>1, <1>3, <1>4, <1>5, EntriesAlone DEF BundlesInv

(* A bundle is added; it has no strings yet.                               *)
LEMMA BundlesRegister ==
  ASSUME BundlesInv, NEW n \in Names, NEW m \in Modes, NEW p \in Packages,
         Register(n, m, p), UNCHANGED <<loading, entry>>
  PROVE  BundlesInv'
<1>1. /\ mode[n] = None /\ mode' = [mode EXCEPT ![n] = m]
      /\ package' = [package EXCEPT ![n] = p]
      /\ UNCHANGED <<current_locale, classifiers, loading, entry>>
  BY DEF Register, Registered
<1>2. strings[n] = None
  BY <1>1 DEF BundlesInv, Wired
<1>3. m # None /\ p # None
  BY I18nAssumption
<1>4. /\ \A o \in Names : o # n => mode'[o] = mode[o] /\ package'[o] = package[o]
      /\ mode'[n] = m /\ package'[n] = p
  BY <1>1 DEF BundlesInv, Typed
<1>5. mode' \in [Names -> Modes \cup {None}] /\ package' \in [Names -> Packages \cup {None}]
  BY <1>1 DEF BundlesInv, Typed
<1>6. Typed'
  BY <1>1, <1>2, <1>4, <1>5 DEF BundlesInv, Typed, loading
<1>7. Wired'
  BY <1>1, <1>3, <1>4 DEF BundlesInv, Wired, loading
<1>8. Bounded'
  BY <1>1, <1>2, <1>4, EntriesAlone DEF BundlesInv, Bounded, Alone, loading
<1>. QED  BY <1>1, <1>6, <1>7, <1>8, EntriesAlone DEF BundlesInv

LEMMA Located ==
  ASSUME BundlesInv
  PROVE  /\ Locale \in Locales /\ Classifier(Locale) \in classifiers \cup {None}
         /\ \A p \in Packages : Candidates(p) \subseteq Tables /\ \A t \in Candidates(p) : t[1] = p
<1>1. Locale \in Locales /\ Language[Locale] \in Locales
  BY I18nAssumption DEF Locale, BundlesInv, Typed
<1>2. Classifier(Locale) \in classifiers \cup {None}
  BY DEF Classifier
<1>3. ASSUME NEW p \in Packages, NEW t \in Candidates(p)
      PROVE  t \in Tables /\ t[1] = p
  BY <1>1 DEF Candidates, Tables
<1>. QED  BY <1>1, <1>2, <1>3

(* The strings of a bundle are loaded, when it is added or later.          *)
LEMMA BundlesLoad ==
  ASSUME BundlesInv, NEW n \in Names, strings[n] = None,
         NEW m \in Modes, NEW p \in Packages,
         NEW t \in Candidates(p), Load(n, m, t),
         UNCHANGED <<current_locale, classifiers, entry>>,
         mode' \in [Names -> Modes \cup {None}], package' \in [Names -> Packages \cup {None}],
         mode'[n] = m, package'[n] = p,
         \A o \in Names : o # n => mode'[o] = mode[o] /\ package'[o] = package[o]
  PROVE  BundlesInv'
<1>1. m # None /\ p # None
  BY I18nAssumption
<1>2. t \in Tables /\ t[1] = p /\ t # None
  BY Located, I18nAssumption
<1>3. /\ strings' = [strings EXCEPT ![n] = t] /\ required' = required \cup {t}
      /\ metatable' = [metatable EXCEPT ![t] = m]
      /\ classify' = [classify EXCEPT ![n] = Classifier(Locale)]
  BY DEF Load
<1>4. /\ strings'[n] = t /\ \A o \in Names : o # n => strings'[o] = strings[o]
      /\ metatable'[t] = m /\ \A s \in Tables : s # t => metatable'[s] = metatable[s]
  BY <1>2, <1>3 DEF BundlesInv, Typed
<1>5. Typed'
  <2>1. /\ strings' \in [Names -> Tables \cup {None}]
        /\ metatable' \in [Tables -> Modes \cup {None}] /\ required' \subseteq Tables
    BY <1>1, <1>2, <1>3 DEF BundlesInv, Typed
  <2>2. classify' \in [Names -> classifiers' \cup {None}]
    BY <1>3, Located DEF BundlesInv, Typed
  <2>3. ASSUME NEW o \in Names, strings'[o] # None
        PROVE  /\ strings'[o] \in required' /\ strings'[o][1] = package'[o]
               /\ metatable'[strings'[o]] \in Modes
    <3>1. CASE o = n
      BY <1>1, <1>2, <1>3, <1>4, <3>1
    <3>2. CASE o # n
      <4>1. strings[o] \in required /\ strings[o][1] = package[o]
            /\ metatable[strings[o]] \in Modes /\ strings[o] \in Tables
        BY <1>4, <2>3, <3>2 DEF BundlesInv, Typed
      <4>. QED  BY <1>1, <1>3, <1>4, <3>2, <4>1
    <3>. QED  BY <3>1, <3>2
  <2>. QED  BY <1>3, <2>1, <2>2, <2>3 DEF BundlesInv, Typed
<1>6. Wired'
  BY <1>1, <1>4 DEF BundlesInv, Wired
<1>7. Bounded'
  <2>1. ASSUME NEW s \in Tables, \A o \in Names : strings'[o] # s
        PROVE  OnlyFile(s)'
    <3>1. \A o \in Names : strings[o] # s
      BY <1>4, <2>1, I18nAssumption
    <3>. QED  BY <1>3, <3>1, EntriesAlone DEF BundlesInv, Bounded
  <2>2. ASSUME NEW o \in Names, Alone(o)'
        PROVE  /\ metatable'[strings'[o]] = mode'[o]
               /\ mode'[o] # "silent" => OnlyFile(strings[o])'
    <3>1. CASE o = n
      <4>1. \A s \in Names : strings[s] # t
        BY <1>2, <1>4, <2>2, <3>1 DEF Alone
      <4>2. OnlyFile(t)'
        BY <1>2, <1>3, <4>1, EntriesAlone DEF BundlesInv, Bounded
      <4>3. OnlyFile(strings[n])'
        BY <1>4, <4>2 DEF OnlyFile
      <4>. QED  BY <1>4, <3>1, <4>3
    <3>2. CASE o # n
      <4>1. strings[o] # None /\ strings[o] # t /\ strings'[o] = strings[o]
        BY <1>4, <2>2, <3>2 DEF Alone
      <4>2. Alone(o)
        BY <1>4, <2>2, <3>2, <4>1 DEF Alone
      <4>3. strings[o] \in Tables
        BY <4>1 DEF BundlesInv, Typed
      <4>4. /\ metatable'[strings'[o]] = mode'[o]
            /\ mode'[o] # "silent" => OnlyFile(strings[o])
        BY <1>3, <1>4, <4>1, <4>2, <4>3 DEF BundlesInv, Bounded
      <4>5. OnlyFile(strings[o]) => OnlyFile(strings[o])'
        BY <1>3, <4>1 DEF OnlyFile, Loaded
      <4>. QED  BY <4>4, <4>5
    <3>. QED  BY <3>1, <3>2
  <2>. QED  BY <2>1, <2>2 DEF Bounded
<1>. QED  BY <1>3, <1>5, <1>6, <1>7, EntriesAlone DEF BundlesInv

(* One entry is written, of a table that some bundle uses: it is typed, it *)
(* is the key itself, and the other entries stay.                          *)
LEMMA BundlesWrite ==
  ASSUME BundlesInv, UNCHANGED <<registry, loading>>, OnlyGrows,
         NEW T \in Tables, NEW n \in Names, strings[n] = T,
         NEW k \in Keys, NEW row, entry' = [entry EXCEPT ![T] = row],
         \A j : j # k => (j \in DOMAIN row <=> j \in DOMAIN entry[T]),
         \A j \in DOMAIN row : j # k => row[j] = entry[T][j],
         k \in DOMAIN row, row[k] \in [DOMAIN row[k] -> Texts],
         IF k \in DOMAIN Loaded(T)
           THEN \A f \in DOMAIN row[k] \ DOMAIN Loaded(T)[k] :
                  f # Plain /\ Plain \notin DOMAIN Loaded(T)[k] /\ row[k][f] = Itself(k)
           ELSE DOMAIN row[k] = {Plain} /\ row[k][Plain] = Itself(k),
         k \in DOMAIN entry[T] \/ metatable[T] = "silent"
  PROVE  BundlesInv'
<1>1. TextsInv'
  BY GrowingKeeps DEF BundlesInv
<1>2. DOMAIN entry = Tables
  BY DEF BundlesInv, TextsInv
<1>3. entry'[T] = row /\ \A t \in Tables : t # T => entry'[t] = entry[t]
  BY <1>2
<1>4. UNCHANGED <<current_locale, classifiers, mode, package, strings, classify, required,
                  metatable>>
  BY DEF registry, loading
<1>5. Typed' /\ Wired'
  BY <1>4 DEF BundlesInv, Typed, Wired
<1>6. EntriesTyped'
  <2>1. ASSUME NEW t \in Tables, NEW j \in DOMAIN entry'[t]
        PROVE  j \in Keys /\ entry'[t][j] \in [DOMAIN entry'[t][j] -> Texts]
    <3>1. CASE t = T /\ j = k
      BY <1>3, <3>1
    <3>2. CASE ~ (t = T /\ j = k)
      <4>1. j \in DOMAIN entry[t] /\ entry'[t][j] = entry[t][j]
        BY <1>3, <2>1, <3>2
      <4>. QED  BY <4>1 DEF BundlesInv, EntriesTyped
    <3>. QED  BY <3>1, <3>2
  <2>. QED  BY <2>1 DEF EntriesTyped
<1>7. Added'
  <2>1. ASSUME NEW t \in Tables, NEW j \in DOMAIN entry'[t]
        PROVE  IF j \in DOMAIN Loaded(t)
                 THEN \A f \in DOMAIN entry'[t][j] \ DOMAIN Loaded(t)[j] :
                        f # Plain /\ Plain \notin DOMAIN Loaded(t)[j]
                        /\ entry'[t][j][f] = Itself(j)
                 ELSE DOMAIN entry'[t][j] = {Plain} /\ entry'[t][j][Plain] = Itself(j)
    <3>1. CASE t = T /\ j = k
      BY <1>3, <3>1
    <3>2. CASE ~ (t = T /\ j = k)
      <4>1. j \in DOMAIN entry[t] /\ entry'[t][j] = entry[t][j]
        BY <1>3, <2>1, <3>2
      <4>. QED  BY <4>1 DEF BundlesInv, Added
    <3>. QED  BY <3>1, <3>2
  <2>. QED  BY <2>1 DEF Added, Loaded
<1>8. Bounded'
  <2>1. \A t \in Tables : t # T => (OnlyFile(t)' <=> OnlyFile(t))
    BY <1>3 DEF OnlyFile, Loaded
  <2>2. ASSUME NEW o \in Names, Alone(o)'
        PROVE  /\ metatable'[strings'[o]] = mode'[o]
               /\ mode'[o] # "silent" => OnlyFile(strings[o])'
    <3>1. Alone(o) /\ strings[o] \in Tables
      BY <1>4, <2>2 DEF Alone, BundlesInv, Typed
    <3>2. /\ metatable[strings[o]] = mode[o]
          /\ mode[o] # "silent" => OnlyFile(strings[o])
      BY <3>1 DEF BundlesInv, Bounded
    <3>3. CASE strings[o] = T
      <4>1. mode[o] # "silent" => k \in DOMAIN entry[T]
        BY <3>2, <3>3
      <4>2. ASSUME mode[o] # "silent"
            PROVE  \A j \in DOMAIN row : j \in DOMAIN Loaded(T)
        BY <3>2, <3>3, <4>1, <4>2 DEF OnlyFile
      <4>3. mode[o] # "silent" => OnlyFile(strings[o])'
        BY <1>3, <1>4, <3>3, <4>2 DEF OnlyFile, Loaded
      <4>. QED  BY <1>4, <3>2, <4>3
    <3>4. CASE strings[o] # T
      <4>1. OnlyFile(strings[o]) => OnlyFile(strings[o])'
        BY <1>3, <1>4, <3>1, <3>4 DEF OnlyFile, Loaded
      <4>. QED  BY <1>4, <3>2, <4>1
    <3>. QED  BY <3>3, <3>4
  <2>3. ASSUME NEW t \in Tables, \A o \in Names : strings'[o] # t
        PROVE  OnlyFile(t)'
    <3>1. t # T /\ \A o \in Names : strings[o] # t
      BY <1>4, <2>3
    <3>. QED  BY <2>1, <3>1 DEF BundlesInv, Bounded
  <2>. QED  BY <2>2, <2>3 DEF Bounded
<1>. QED  BY <1>1, <1>5, <1>6, <1>7, <1>8 DEF BundlesInv

LEMMA BundlesRemember ==
  ASSUME BundlesInv, NEW n \in Names, NEW k \in Keys, strings[n] # None, Remember(n, k)
  PROVE  BundlesInv'
<1> DEFINE T == strings[n]
           new == [f \in {Plain} |-> Itself(k)]
           row == Put(entry[T], k, new)
<1>1. DOMAIN entry = Tables /\ T \in Tables
  BY DEF BundlesInv, TextsInv, Typed
<1>2. UNCHANGED <<registry, loading>> /\ OnlyGrows
  BY <1>1, RememberGrows DEF Remember
<1>3. CASE entry' = entry
  BY <1>2, <1>3, EntriesAlone DEF BundlesInv, Typed, Wired, Bounded, Alone, registry, loading
<1>4. CASE entry' # entry
  <2>1. k \notin DOMAIN entry[T] /\ metatable[T] = "silent" /\ entry' = [entry EXCEPT ![T] = row]
    BY <1>4 DEF Remember, Has
  <2>2. k \notin DOMAIN Loaded(T)
    BY <1>1, <2>1 DEF BundlesInv, TextsInv, TextsKept
  <2>3. /\ \A j : j # k => (j \in DOMAIN row <=> j \in DOMAIN entry[T])
        /\ k \in DOMAIN row /\ row[k] = new
    BY DEF Put
  <2>4. \A j \in DOMAIN row : j # k => row[j] = entry[T][j]
    BY DEF Put
  <2>5. Itself(k) \in Texts
    BY DEF Itself, Text, Texts, Forms
  <2>6. new \in [{Plain} -> Texts] /\ DOMAIN new = {Plain} /\ new[Plain] = Itself(k)
    BY <2>5
  <2> HIDE DEF new, row
  <2>. QED  BY <1>1, <1>2, <2>1, <2>2, <2>3, <2>4, <2>6, BundlesWrite
<1>. QED  BY <1>3, <1>4

LEMMA RuleType ==
  ASSUME BundlesInv, NEW n \in Names, NEW q \in Quantities
  PROVE  Rule(n, q) \in Rules \cup {None}
<1>1. classify[n] = None \/ classify[n] \in Classified
  BY DEF BundlesInv, Typed, Wired
<1>. QED  BY <1>1, I18nAssumption DEF Rule

LEMMA BundlesPlural ==
  ASSUME BundlesInv, NEW n \in Names, NEW k \in Keys, NEW q \in Quantities, LnPlural(n, k, q)
  PROVE  BundlesInv'
<1> DEFINE T == strings[n]
           r == Rule(n, q)
           forms == Put(entry[T][k], r, Itself(k))
           row == [entry[T] EXCEPT ![k] = forms]
<1>1. DOMAIN entry = Tables /\ T \in Tables /\ r \in Rules
  BY RuleType DEF BundlesInv, TextsInv, Typed, LnPlural
<1>2. UNCHANGED <<registry, loading>> /\ OnlyGrows
  BY <1>1, LnPluralGrows DEF LnPlural
<1>3. CASE entry' = entry
  BY <1>2, <1>3, EntriesAlone DEF BundlesInv, Typed, Wired, Bounded, Alone, registry, loading
<1>4. CASE entry' # entry
  <2>1. /\ r \notin DOMAIN entry[T][k] /\ k \in DOMAIN entry[T] /\ Plain \notin DOMAIN entry[T][k]
        /\ entry' = [entry EXCEPT ![T][k] = forms]
    BY <1>4 DEF LnPlural, Plural, IsPlural, Has
  <2>2. entry' = [entry EXCEPT ![T] = row]
    BY <2>1
  <2>3. r # Plain
    BY <1>1, I18nAssumption
  <2>4. k \in DOMAIN Loaded(T)
    BY <1>1, <2>1 DEF BundlesInv, Added
  <2>5. Plain \notin DOMAIN Loaded(T)[k]
    BY <1>1, <2>1, <2>4 DEF BundlesInv, TextsInv, TextsKept
  <2>6. Itself(k) \in Texts
    BY DEF Itself, Text, Texts, Forms
  <2>7. entry[T][k] \in [DOMAIN entry[T][k] -> Texts]
    BY <1>1, <2>1 DEF BundlesInv, EntriesTyped
  <2>8. /\ DOMAIN forms = DOMAIN entry[T][k] \cup {r} /\ forms[r] = Itself(k)
        /\ \A f \in DOMAIN entry[T][k] : f # r => forms[f] = entry[T][k][f]
    BY DEF Put
  <2>9. forms \in [DOMAIN forms -> Texts]
    BY <2>6, <2>7 DEF Put
  <2>10. \A f \in DOMAIN entry[T][k] \ DOMAIN Loaded(T)[k] :
           f # Plain /\ entry[T][k][f] = Itself(k)
    BY <1>1, <2>1, <2>4 DEF BundlesInv, Added
  <2> HIDE DEF r, forms
  <2>11. \A f \in DOMAIN forms \ DOMAIN Loaded(T)[k] : f # Plain /\ forms[f] = Itself(k)
    BY <2>3, <2>8, <2>10
  <2>12. /\ \A j : j # k => (j \in DOMAIN row <=> j \in DOMAIN entry[T]) /\ row[j] = entry[T][j]
         /\ k \in DOMAIN row /\ row[k] = forms
    BY <2>1
  <2> HIDE DEF row
  <2>. QED  BY <1>1, <1>2, <2>1, <2>2, <2>4, <2>5, <2>9, <2>11, <2>12, BundlesWrite
<1>. QED  BY <1>3, <1>4

LEMMA BundlesStep ==
  ASSUME BundlesInv, [Next]_vars
  PROVE  BundlesInv'
<1>1. CASE UNCHANGED vars
  BY <1>1, EntriesAlone DEF vars, BundlesInv, Typed, Wired, Bounded, Alone, registry, loading
<1>2. ASSUME NEW n \in Names, NEW m \in Modes, NEW p \in Packages,
             AddBundle(n, m, p)
      PROVE  BundlesInv'
  BY <1>2, BundlesRegister DEF AddBundle
<1>3. ASSUME NEW n \in Names, GetBundle(n)
      PROVE  BundlesInv'
  <2>1. mode[n] \in Modes /\ package[n] \in Packages /\ strings[n] = None
    BY <1>3 DEF GetBundle, Registered, BundlesInv, Typed, Wired
  <2>2. PICK t \in Candidates(package[n]) : Load(n, mode[n], t)
    BY <1>3 DEF GetBundle
  <2>3. UNCHANGED <<current_locale, classifiers, mode, package, entry>>
    BY <1>3 DEF GetBundle, registry
  <2>. QED  BY <2>1, <2>2, <2>3, BundlesLoad DEF BundlesInv, Typed
<1>4. ASSUME NEW n \in Names, NEW m \in Modes, NEW p \in Packages, Call(n, m, p)
      PROVE  BundlesInv'
  <2>1. CASE UNCHANGED loading
    BY <1>4, <2>1, BundlesRegister DEF Call
  <2>2. CASE \E t \in Candidates(p) : Load(n, m, t)
    <3>1. /\ mode[n] = None /\ mode' = [mode EXCEPT ![n] = m]
          /\ package' = [package EXCEPT ![n] = p]
          /\ UNCHANGED <<current_locale, classifiers, entry>>
      BY <1>4 DEF Call, Register, Registered
    <3>2. strings[n] = None
      BY <3>1 DEF BundlesInv, Wired
    <3>3. /\ mode' \in [Names -> Modes \cup {None}]
          /\ package' \in [Names -> Packages \cup {None}]
          /\ mode'[n] = m /\ package'[n] = p
          /\ \A o \in Names : o # n => mode'[o] = mode[o] /\ package'[o] = package[o]
      BY <3>1 DEF BundlesInv, Typed
    <3>. QED  BY <2>2, <3>1, <3>2, <3>3, BundlesLoad
  <2>. QED  BY <1>4, <2>1, <2>2 DEF Call
<1>5. ASSUME NEW n \in Names, NEW k \in Keys, L(n, k) \/ LnSingular(n, k)
      PROVE  BundlesInv'
  BY <1>5, BundlesRemember DEF L, LnSingular
<1>. QED  BY <1>1, <1>2, <1>3, <1>4, <1>5, BundlesSet, BundlesPlural DEF Next

LEMMA BundlesInvariant == Spec => []BundlesInv
BY BundlesInit, BundlesStep, PTL DEF Spec

(* A bundle with strings has a loaded table of its package, and its        *)
(* classifier is registered.                                               *)
THEOREM BundlesTypeCorrect == Spec => []TypeOK
BY BundlesInvariant, BundlesType, PTL

(* What a bundle that is alone finds in its table: the key as in the file, *)
(* with the forms of the file and the key itself for others, or, when it   *)
(* is not in the file, the key for itself, in silent mode.                 *)
LEMMA OwnAnswers ==
  ASSUME BundlesInv, NEW n \in Names, Alone(n), NEW k \in Keys
  PROVE  /\ Singular(n, k) = Promised(n, k, None)
         /\ \A q \in Quantities : Counted(n, k, q) = Promised(n, k, q)
<1> DEFINE T == strings[n]
           here == entry[T]
           file == Loaded(T)
<1>1. T \in Tables /\ metatable[T] = mode[n]
  BY DEF BundlesInv, Typed, Bounded, Alone
<1>2. /\ k \in DOMAIN file =>
           /\ k \in DOMAIN here /\ DOMAIN file[k] \subseteq DOMAIN here[k]
           /\ \A f \in DOMAIN file[k] : here[k][f] = file[k][f]
           /\ \A f \in DOMAIN here[k] \ DOMAIN file[k] :
                f # Plain /\ Plain \notin DOMAIN file[k] /\ here[k][f] = Itself(k)
  <2>1. ASSUME k \in DOMAIN file
        PROVE  /\ k \in DOMAIN here /\ DOMAIN file[k] \subseteq DOMAIN here[k]
               /\ \A f \in DOMAIN file[k] : here[k][f] = Text(T, k, f)
    BY <1>1, <2>1 DEF BundlesInv, TextsInv, TextsKept
  <2>2. ASSUME k \in DOMAIN file
        PROVE  \A f \in DOMAIN file[k] : file[k][f] = Text(T, k, f)
    <3>1. Module[T] # None
      <4>1. Module[T] = None => DOMAIN file = {}
        BY DEF Loaded
      <4>. QED  BY <2>2, <4>1
    <3>. QED  BY <2>2, <3>1 DEF Loaded
  <2>3. ASSUME k \in DOMAIN file
        PROVE  \A f \in DOMAIN here[k] \ DOMAIN file[k] :
                 f # Plain /\ Plain \notin DOMAIN file[k] /\ here[k][f] = Itself(k)
    BY <1>1, <2>1, <2>3 DEF BundlesInv, Added
  <2>. QED  BY <2>1, <2>2, <2>3
<1>3. k \notin DOMAIN file /\ k \in DOMAIN here =>
        DOMAIN here[k] = {Plain} /\ here[k][Plain] = Itself(k) /\ mode[n] = "silent"
  BY <1>1 DEF BundlesInv, Added, Bounded, OnlyFile
<1>4. Missing("silent", k) = Itself(k)
  BY DEF Missing
<1>5. Has(n, k) <=> k \in DOMAIN here
  BY DEF Has
<1>6. IsPlural(n, k) <=> k \in DOMAIN here /\ Plain \notin DOMAIN here[k]
  BY <1>5 DEF IsPlural
<1>7. Plural(n, k) = here[k]
  BY DEF Plural
<1>8. Singular(n, k) = IF k \notin DOMAIN here THEN Missing(mode[n], k)
                       ELSE IF Plain \notin DOMAIN here[k] THEN Raises
                       ELSE here[k][Plain]
  BY <1>1, <1>5, <1>6 DEF Singular
<1>9. Promised(n, k, None) = IF k \notin DOMAIN file THEN Missing(mode[n], k)
                             ELSE IF Plain \in DOMAIN file[k] THEN file[k][Plain] ELSE Raises
  BY DEF Promised
<1>10. ASSUME NEW q \in Quantities
       PROVE  Counted(n, k, q) = Promised(n, k, q)
  <2> DEFINE r == Rule(n, q)
  <2>1. q # None
    BY I18nAssumption
  <2>2. Promised(n, k, q) = IF k \notin DOMAIN file THEN Missing(mode[n], k)
                            ELSE IF Plain \in DOMAIN file[k] THEN file[k][Plain]
                            ELSE IF r = None THEN Raises
                            ELSE IF r \in DOMAIN file[k] THEN file[k][r] ELSE Itself(k)
    BY <2>1 DEF Promised
  <2>3. Counted(n, k, q) = IF ~ (k \in DOMAIN here /\ Plain \notin DOMAIN here[k])
                             THEN Singular(n, k)
                           ELSE IF r = None THEN Raises
                           ELSE IF r \in DOMAIN here[k] THEN here[k][r] ELSE Itself(k)
    BY <1>6, <1>7 DEF Counted
  <2> HIDE DEF r, here, file
  <2>. QED  BY <1>2, <1>3, <1>4, <1>8, <2>2, <2>3
<1> HIDE DEF here, file
<1>11. Singular(n, k) = Promised(n, k, None)
  BY <1>2, <1>3, <1>4, <1>8, <1>9
<1>. QED  BY <1>10, <1>11

(* A bundle alone with its strings answers from its file and by its mode,  *)
(* however often it was asked before.                                      *)
THEOREM AnswersFromFile == Spec => []AnswersOwn
<1>1. BundlesInv => AnswersOwn
  BY OwnAnswers DEF AnswersOwn
<1>. QED  BY <1>1, BundlesInvariant, PTL

---------------------------------------------------------------------------
(* What is left to show of a step: the row of the key is the same, or has  *)
(* become what the answer was.                                             *)
Answers(n, k) ==
  /\ Singular(n, k)' = Singular(n, k)
  /\ \A q \in Quantities : Counted(n, k, q)' = Counted(n, k, q)

LEMMA StableRow ==
  ASSUME NEW n \in Names, NEW k \in Keys, BundlesInv, strings[n] # None,
         strings'[n] = strings[n], classify'[n] = classify[n], SameMiss(n, k),
         k \in DOMAIN entry'[strings[n]] <=> k \in DOMAIN entry[strings[n]],
         k \in DOMAIN entry[strings[n]] => entry'[strings[n]][k] = entry[strings[n]][k]
  PROVE  Answers(n, k)
<1>1. Has(n, k)' <=> Has(n, k)
  BY DEF Has
<1>2. IsPlural(n, k)' <=> IsPlural(n, k)
  BY DEF IsPlural, Has
<1>3. Singular(n, k)' = Singular(n, k)
  <2>1. CASE ~ Has(n, k)
    <3>1. Singular(n, k) = Missing(metatable[strings[n]], k)
      BY <2>1 DEF Singular
    <3>2. Singular(n, k)' = Missing(metatable[strings[n]], k)
      BY <1>1, <2>1 DEF Singular, SameMiss
    <3>. QED  BY <3>1, <3>2
  <2>2. CASE IsPlural(n, k)
    BY <1>1, <1>2, <2>2 DEF Singular, IsPlural
  <2>3. CASE Has(n, k) /\ ~ IsPlural(n, k)
    BY <1>1, <1>2, <2>3 DEF Singular, Has
  <2>. QED  BY <2>1, <2>2, <2>3
<1>4. ASSUME NEW q \in Quantities
      PROVE  Counted(n, k, q)' = Counted(n, k, q)
  <2>1. Rule(n, q)' = Rule(n, q)
    BY DEF Rule
  <2>2. CASE IsPlural(n, k)
    <3>1. Plural(n, k)' = Plural(n, k)
      BY <2>2 DEF Plural, IsPlural, Has
    <3>. QED  BY <1>2, <2>1, <2>2, <3>1 DEF Counted
  <2>3. CASE ~ IsPlural(n, k)
    BY <1>2, <1>3, <2>3 DEF Counted
  <2>. QED  BY <2>2, <2>3
<1>. QED  BY <1>3, <1>4 DEF Answers

(* A key that was missed now stands for itself.                            *)
LEMMA StableRemembered ==
  ASSUME NEW n \in Names, NEW k \in Keys, BundlesInv, strings[n] # None,
         strings'[n] = strings[n], metatable[strings[n]] = "silent",
         k \notin DOMAIN entry[strings[n]], k \in DOMAIN entry'[strings[n]],
         entry'[strings[n]][k] = [f \in {Plain} |-> Itself(k)]
  PROVE  Answers(n, k)
<1>1. ~ Has(n, k) /\ Has(n, k)'
  BY DEF Has
<1>2. ~ IsPlural(n, k) /\ ~ IsPlural(n, k)'
  BY <1>1 DEF IsPlural, Has
<1>3. Singular(n, k) = Itself(k)
  BY <1>1 DEF Singular, Missing
<1>4. Singular(n, k)' = Itself(k)
  BY <1>1, <1>2 DEF Singular
<1>5. \A q \in Quantities : Counted(n, k, q) = Singular(n, k) /\ Counted(n, k, q)' = Singular(n, k)'
  BY <1>2 DEF Counted
<1>. QED  BY <1>3, <1>4, <1>5 DEF Answers

(* A plural that was missed now has the key.                               *)
LEMMA StablePlural ==
  ASSUME NEW n \in Names, NEW k \in Keys, BundlesInv, strings[n] # None,
         strings'[n] = strings[n], classify'[n] = classify[n],
         k \in DOMAIN entry[strings[n]], k \in DOMAIN entry'[strings[n]],
         Plain \notin DOMAIN entry[strings[n]][k],
         NEW r, r # Plain, r \notin DOMAIN entry[strings[n]][k],
         entry'[strings[n]][k] = Put(entry[strings[n]][k], r, Itself(k))
  PROVE  Answers(n, k)
<1> DEFINE old == entry[strings[n]][k]
           new == entry'[strings[n]][k]
<1>1. /\ DOMAIN new = DOMAIN old \cup {r} /\ new[r] = Itself(k)
      /\ \A f \in DOMAIN old : new[f] = old[f]
  BY DEF Put
<1>2. IsPlural(n, k) /\ IsPlural(n, k)'
  BY <1>1 DEF IsPlural, Has
<1>3. Singular(n, k) = Raises /\ Singular(n, k)' = Raises
  BY <1>2 DEF Singular, IsPlural
<1>4. ASSUME NEW q \in Quantities
      PROVE  Counted(n, k, q)' = Counted(n, k, q)
  <2>1. Rule(n, q)' = Rule(n, q)
    BY DEF Rule
  <2>2. Plural(n, k) = old /\ Plural(n, k)' = new
    BY DEF Plural
  <2>3. Counted(n, k, q) = IF Rule(n, q) = None THEN Raises
                           ELSE IF Rule(n, q) \in DOMAIN old THEN old[Rule(n, q)] ELSE Itself(k)
    BY <1>2, <2>2 DEF Counted
  <2>4. Counted(n, k, q)' = IF Rule(n, q) = None THEN Raises
                            ELSE IF Rule(n, q) \in DOMAIN new THEN new[Rule(n, q)] ELSE Itself(k)
    BY <1>2, <2>1, <2>2 DEF Counted
  <2>. QED  BY <1>1, <2>3, <2>4
<1>. QED  BY <1>3, <1>4 DEF Answers

LEMMA AnswersStay ==
  ASSUME BundlesInv, [Next]_vars, NEW n \in Names, strings[n] # None,
         NEW k \in Keys, SameMiss(n, k)
  PROVE  Answers(n, k)
<1>1. CASE UNCHANGED entry /\ strings'[n] = strings[n] /\ classify'[n] = classify[n]
  BY <1>1, StableRow
<1>2. ASSUME NEW o \in Names, NEW j \in Keys, Remember(o, j), strings[o] # None
      PROVE  Answers(n, k)
  <2>1. UNCHANGED <<strings, classify>> /\ DOMAIN entry = Tables
        /\ strings[n] \in Tables /\ strings[o] \in Tables
    BY <1>2 DEF Remember, loading, BundlesInv, TextsInv, Typed
  <2>2. CASE entry' = entry
    BY <1>1, <2>1, <2>2
  <2>3. CASE entry' # entry
    <3>1. /\ j \notin DOMAIN entry[strings[o]] /\ metatable[strings[o]] = "silent"
          /\ entry' = [entry EXCEPT ![strings[o]] = Put(@, j, [f \in {Plain} |-> Itself(j)])]
      BY <1>2, <2>3 DEF Remember, Has
    <3>2. CASE strings[n] = strings[o] /\ k = j
      <4>1. k \in DOMAIN entry'[strings[n]]
            /\ entry'[strings[n]][k] = [f \in {Plain} |-> Itself(k)]
        BY <2>1, <3>1, <3>2 DEF Put
      <4>. QED  BY <2>1, <3>1, <3>2, <4>1, StableRemembered
    <3>3. CASE ~ (strings[n] = strings[o] /\ k = j)
      <4>1. /\ k \in DOMAIN entry'[strings[n]] <=> k \in DOMAIN entry[strings[n]]
            /\ k \in DOMAIN entry[strings[n]] =>
                 entry'[strings[n]][k] = entry[strings[n]][k]
        BY <2>1, <3>1, <3>3 DEF Put
      <4>. QED  BY <2>1, <4>1, StableRow
    <3>. QED  BY <3>2, <3>3
  <2>. QED  BY <2>2, <2>3
<1>3. ASSUME NEW o \in Names, NEW j \in Keys, NEW q \in Quantities, LnPlural(o, j, q)
      PROVE  Answers(n, k)
  <2> DEFINE r == Rule(o, q)
  <2>1. UNCHANGED <<strings, classify>> /\ DOMAIN entry = Tables
        /\ strings[n] \in Tables /\ strings[o] \in Tables
    BY <1>3 DEF LnPlural, loading, BundlesInv, TextsInv, Typed
  <2>2. CASE entry' = entry
    BY <1>1, <2>1, <2>2
  <2>3. CASE entry' # entry
    <3>1. /\ r \notin DOMAIN entry[strings[o]][j] /\ r # None
          /\ j \in DOMAIN entry[strings[o]] /\ Plain \notin DOMAIN entry[strings[o]][j]
          /\ entry' = [entry EXCEPT ![strings[o]][j] = Put(@, r, Itself(j))]
      BY <1>3, <2>3 DEF LnPlural, Plural, IsPlural, Has
    <3>2. r # Plain
      BY <3>1, RuleType, I18nAssumption
    <3> HIDE DEF r
    <3>3. CASE strings[n] = strings[o] /\ k = j
      <4>1. k \in DOMAIN entry'[strings[n]]
            /\ entry'[strings[n]][k] = Put(entry[strings[n]][k], r, Itself(k))
        BY <2>1, <3>1, <3>3
      <4>. QED  BY <2>1, <3>1, <3>2, <3>3, <4>1, StablePlural
    <3>4. CASE ~ (strings[n] = strings[o] /\ k = j)
      <4>1. /\ k \in DOMAIN entry'[strings[n]] <=> k \in DOMAIN entry[strings[n]]
            /\ k \in DOMAIN entry[strings[n]] =>
                 entry'[strings[n]][k] = entry[strings[n]][k]
        BY <2>1, <3>1, <3>4
      <4>. QED  BY <2>1, <4>1, StableRow
    <3>. QED  BY <3>3, <3>4
  <2>. QED  BY <2>2, <2>3
<1>4. ASSUME NEW o \in Names, NEW m \in Modes, NEW p \in Packages,
             AddBundle(o, m, p) \/ Call(o, m, p)
      PROVE  Answers(n, k)
  <2>1. CASE UNCHANGED <<loading, entry>>
    BY <1>1, <2>1 DEF loading
  <2>2. CASE \E t \in Candidates(p) : Load(o, m, t)
    <3>1. mode[o] = None /\ UNCHANGED entry
      BY <1>4, <2>2 DEF AddBundle, Call, Register, Registered
    <3>2. o # n
      BY <3>1 DEF BundlesInv, Wired
    <3>3. strings'[n] = strings[n] /\ classify'[n] = classify[n]
      BY <2>2, <3>2 DEF Load, BundlesInv, Typed
    <3>. QED  BY <1>1, <3>1, <3>3
  <2>. QED  BY <1>4, <2>1, <2>2 DEF AddBundle, Call
<1>5. ASSUME NEW o \in Names, GetBundle(o)
      PROVE  Answers(n, k)
  <2>1. o # n /\ UNCHANGED entry /\ \E t \in Candidates(package[o]) : Load(o, mode[o], t)
    BY <1>5 DEF GetBundle
  <2>2. strings'[n] = strings[n] /\ classify'[n] = classify[n]
    BY <2>1 DEF Load, BundlesInv, Typed
  <2>. QED  BY <1>1, <2>1, <2>2
<1>6. ASSUME NEW l, SetLocale(l) \/ SetClassifier(l)
      PROVE  Answers(n, k)
  BY <1>1, <1>6 DEF SetLocale, SetClassifier, loading
<1>7. CASE UNCHANGED vars
  BY <1>1, <1>7 DEF vars, loading
<1>8. ASSUME NEW o \in Names, NEW j \in Keys, L(o, j) \/ LnSingular(o, j)
      PROVE  Answers(n, k)
  BY <1>2, <1>8 DEF L, LnSingular
<1>. QED  BY <1>3, <1>4, <1>5, <1>6, <1>7, <1>8 DEF Next

(* The locale and the classifier of a bundle are those of its first use,   *)
(* and what is written on a miss is what was answered: an answer changes   *)
(* only of a missing key, and only by loading a bundle of another mode     *)
(* with the very same table of strings.                                    *)
THEOREM AnswersLast == Spec => AnswersStable
<1>1. BundlesInv /\ [Next]_vars =>
        [\A n \in Names, k \in Keys : (strings[n] # None /\ SameMiss(n, k)) =>
           /\ Singular(n, k)' = Singular(n, k)
           /\ \A q \in Quantities : Counted(n, k, q)' = Counted(n, k, q)]_vars
  BY AnswersStay DEF Answers
<1>. QED  BY <1>1, BundlesInvariant, PTL DEF Spec, AnswersStable
=============================================================================
