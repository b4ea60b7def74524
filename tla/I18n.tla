-------------------------------- MODULE I18n --------------------------------
(***************************************************************************)
(* std.i18n: the locale, the classifiers and the bundles of one Lua state, *)
(* and the functions L and Ln of a bundle.                                 *)
(*                                                                         *)
(* The strings of a bundle are the very table that require returns, cached *)
(* by package and locale: bundles of one package share it, with its        *)
(* metatable and with what L and Ln write into it.  A string is known by   *)
(* the table it was loaded from, its key and its plural form; or it is a   *)
(* key, standing in for itself.                                            *)
(***************************************************************************)
EXTENDS Integers, Sequences, FiniteSets

CONSTANTS
  Names,       \* of bundles
  Packages,    \* of locales
  Locales,     \* those of two letters and those with a country
  Language,    \* locale with a country -> its language; others -> themselves
  Default,     \* DEFAULT_LOCALE
  Keys, Rules, \* keys of strings, plural forms
  Quantities,
  Classified,  \* the locales the program registers a classifier for
  Module,      \* <<package, locale>> -> what is in that file: key -> the set
               \* of its plural forms, or {Plain}; None if there is no file
  Classify,    \* classified locale -> quantity -> rule or None
  Plain, None, Nil, Raises

Tables == Packages \X Locales
Forms  == Rules \cup {Plain}
Modes  == {"silent", "nil", "error"}

Text(t, k, r) == [from |-> t, key |-> k, form |-> r]
Itself(k)     == Text(None, k, Plain)
Texts == [from : Tables \cup {None}, key : Keys, form : Forms]

ASSUME I18nAssumption ==
  /\ Default \in Locales /\ Classified \subseteq Locales
  /\ Language \in [Locales -> Locales]
  /\ {"one", "other"} \subseteq Rules /\ {None, Plain} \cap Rules = {}
  /\ None \notin Tables \cup Modes \cup Packages \cup Locales \cup Quantities
  /\ \A t \in Tables : \/ Module[t] = None
                       \/ /\ DOMAIN Module[t] \subseteq Keys
                          /\ \A k \in DOMAIN Module[t] :
                               Module[t][k] = {Plain} \/ Module[t][k] \subseteq Rules
  /\ Classify \in [Classified -> [Quantities -> Rules \cup {None}]]

VARIABLES
  current_locale,  \* None until it is set
  classifiers,     \* the locales a classifier is registered for
  mode, package,   \* bundle -> fields of its record, None if not added
  strings,         \* bundle -> its table of strings, None until loaded
  classify,        \* bundle -> the locale of its classifier, Default's if None
  required,        \* the tables that are in package.loaded
  metatable,       \* table -> the mode whose metatable it has
  entry            \* table -> key -> form (Plain of a string) -> text

registry == <<current_locale, classifiers, mode, package>>
loading  == <<strings, classify, required, metatable>>
vars     == <<registry, loading, entry>>

(* What require finds in the file.                                         *)
Loaded(t) ==
  IF Module[t] = None THEN <<>>
  ELSE [k \in DOMAIN Module[t] |-> [r \in Module[t][k] |-> Text(t, k, r)]]

Init ==
  /\ current_locale = None /\ classifiers = {}
  /\ mode = [n \in Names |-> None] /\ package = [n \in Names |-> None]
  /\ strings = [n \in Names |-> None] /\ classify = [n \in Names |-> None]
  /\ required = {} /\ metatable = [t \in Tables |-> None]
  /\ entry = [t \in Tables |-> Loaded(t)]

---------------------------------------------------------------------------
(* A call that raises because it was made before changes nothing.          *)
SetLocale(l) ==
  /\ current_locale = None
  /\ current_locale' = l
  /\ UNCHANGED <<classifiers, mode, package, loading, entry>>

SetClassifier(l) ==
  /\ l \notin classifiers
  /\ classifiers' = classifiers \cup {l}
  /\ UNCHANGED <<current_locale, mode, package, loading, entry>>

Registered(n) == mode[n] # None

(* Mutant: a bundle can be added again.                                    *)
RegisterAgain(n, m, p) ==
  /\ mode' = [mode EXCEPT ![n] = m] /\ package' = [package EXCEPT ![n] = p]
  /\ UNCHANGED <<current_locale, classifiers>>

Register(n, m, p) ==
  /\ ~ Registered(n)
  /\ mode' = [mode EXCEPT ![n] = m] /\ package' = [package EXCEPT ![n] = p]
  /\ UNCHANGED <<current_locale, classifiers>>

AddBundle(n, m, p) ==
  /\ Register(n, m, p)
  /\ UNCHANGED <<loading, entry>>

---------------------------------------------------------------------------
(* get_bundle.  A file that is there may still fail to load; one that has  *)
(* been loaded does not.                                                   *)
Locale == IF current_locale = None THEN Default ELSE current_locale

CanLoad(t)  == t \in required \/ Module[t] # None
CanFail(t)  == t \notin required

(* load_strings(locale) for a bundle of package p: the table it returns.   *)
Candidates(p) ==
  {t \in {<<p, Locale>>} : CanLoad(t)}
  \cup {t \in {<<p, Language[Locale]>>} : CanFail(<<p, Locale>>) /\ CanLoad(t)}

AllFail(p) == CanFail(<<p, Locale>>) /\ CanFail(<<p, Language[Locale]>>)

Classifier(l) ==
  IF l \in classifiers THEN l
  ELSE IF Language[l] \in classifiers THEN Language[l] ELSE None

Load(n, m, t) ==
  /\ strings' = [strings EXCEPT ![n] = t]
  /\ required' = required \cup {t}
  /\ metatable' = [metatable EXCEPT ![t] = m]
  /\ classify' = [classify EXCEPT ![n] = Classifier(Locale)]

GetBundle(n) ==
  /\ Registered(n) /\ strings[n] = None
  /\ \E t \in Candidates(package[n]) : Load(n, mode[n], t)
  /\ UNCHANGED <<registry, entry>>

(* i18n { name = n, ... }: add_bundle and get_bundle.  When the strings    *)
(* cannot be loaded the bundle is registered all the same.                 *)
Call(n, m, p) ==
  /\ Register(n, m, p)
  /\ \/ \E t \in Candidates(p) : Load(n, m, t)
     \/ AllFail(p) /\ UNCHANGED loading
  /\ UNCHANGED entry

---------------------------------------------------------------------------
(* bundle.strings[key], through the metatable.  L and Ln give what the     *)
(* table holds when they are called; a missing key is written in silent    *)
(* mode, with rawset.                                                      *)
Has(n, k)      == k \in DOMAIN entry[strings[n]]
IsPlural(n, k) == Has(n, k) /\ Plain \notin DOMAIN entry[strings[n]][k]
Plural(n, k)   == entry[strings[n]][k]

Missing(m, k) == CASE m = "silent" -> Itself(k) [] m = "nil" -> Nil [] m = "error" -> Raises

Put(f, x, v) == [y \in DOMAIN f \cup {x} |-> IF y = x THEN v ELSE f[y]]

(* Mutant: the key is written in every mode.                               *)
RememberAlways(n, k) ==
  /\ entry' = IF Has(n, k) THEN entry
              ELSE [entry EXCEPT ![strings[n]] =
                      Put(@, k, [f \in {Plain} |-> Itself(k)])]
  /\ UNCHANGED <<registry, loading>>

Remember(n, k) ==
  /\ entry' = IF Has(n, k) \/ metatable[strings[n]] # "silent" THEN entry
              ELSE [entry EXCEPT ![strings[n]] =
                      Put(@, k, [f \in {Plain} |-> Itself(k)])]
  /\ UNCHANGED <<registry, loading>>

(* What L returns: it formats a table of plurals as a string, and raises.  *)
Singular(n, k) == IF ~ Has(n, k) THEN Missing(metatable[strings[n]], k)
                  ELSE IF IsPlural(n, k) THEN Raises
                  ELSE entry[strings[n]][k][Plain]

L(n, k) == strings[n] # None /\ Remember(n, k)

(* Mutant: the classifier is looked for at every call.                     *)
RuleNow(n, q) ==
  IF Classifier(Locale) = None THEN IF q = 1 THEN "one" ELSE "other"
  ELSE Classify[Classifier(Locale)][q]

Rule(n, q) ==
  IF classify[n] = None THEN IF q = 1 THEN "one" ELSE "other"
  ELSE Classify[classify[n]][q]

(* What Ln returns: the key stands in for a plural that is not there; with *)
(* a classifier that answers nil the write to s[nil] raises.               *)
Counted(n, k, q) ==
  IF ~ IsPlural(n, k) THEN Singular(n, k)
  ELSE IF Rule(n, q) = None THEN Raises
  ELSE IF Rule(n, q) \in DOMAIN Plural(n, k) THEN Plural(n, k)[Rule(n, q)]
  ELSE Itself(k)

LnSingular(n, k) == strings[n] # None /\ ~ IsPlural(n, k) /\ Remember(n, k)

(* Mutant: the key is written whether the plural is there or not.          *)
LnPluralWritten(n, k, q) ==
  /\ strings[n] # None /\ IsPlural(n, k) /\ Rule(n, q) # None
  /\ entry' = [entry EXCEPT ![strings[n]][k] = Put(@, Rule(n, q), Itself(k))]
  /\ UNCHANGED <<registry, loading>>

LnPlural(n, k, q) ==
  /\ strings[n] # None /\ IsPlural(n, k) /\ Rule(n, q) # None
  /\ entry' = IF Rule(n, q) \in DOMAIN Plural(n, k) THEN entry
              ELSE [entry EXCEPT ![strings[n]][k] = Put(@, Rule(n, q), Itself(k))]
  /\ UNCHANGED <<registry, loading>>

Next ==
  \/ \E l \in Locales : SetLocale(l)
  \/ \E l \in Classified : SetClassifier(l)
  \/ \E n \in Names, m \in Modes, p \in Packages : AddBundle(n, m, p) \/ Call(n, m, p)
  \/ \E n \in Names : GetBundle(n)
  \/ \E n \in Names, k \in Keys : L(n, k) \/ LnSingular(n, k)
  \/ \E n \in Names, k \in Keys, q \in Quantities : LnPlural(n, k, q)

Spec == Init /\ [][Next]_vars

---------------------------------------------------------------------------
(* A loaded bundle has a table of its own package, which is loaded and     *)
(* answers in one of the modes; a classifier that is used is registered.   *)
TypeOK ==
  /\ current_locale \in Locales \cup {None} /\ classifiers \subseteq Locales
  /\ mode \in [Names -> Modes \cup {None}] /\ package \in [Names -> Packages \cup {None}]
  /\ strings \in [Names -> Tables \cup {None}] /\ classify \in [Names -> classifiers \cup {None}]
  /\ required \subseteq Tables /\ metatable \in [Tables -> Modes \cup {None}]
  /\ \A t \in Tables : \A k \in DOMAIN entry[t] :
       k \in Keys /\ entry[t][k] \in [DOMAIN entry[t][k] -> Texts]
  /\ \A n \in Names : strings[n] # None =>
       /\ strings[n] \in required /\ strings[n][1] = package[n]
       /\ metatable[strings[n]] \in Modes

(* What the program wrote in its files of strings stays: L and Ln only add *)
(* keys and plurals that are not there, in the table of another bundle too *)
(* (i18n.lua:90 and :170 write to the tables that require has cached).     *)
TextsKept ==
  \A t \in Tables : \A k \in DOMAIN Loaded(t) :
    /\ k \in DOMAIN entry[t] /\ DOMAIN Loaded(t)[k] \subseteq DOMAIN entry[t][k]
    /\ \A f \in DOMAIN Loaded(t)[k] : entry[t][k][f] = Text(t, k, f)

(* No other loaded bundle has the strings of n.                            *)
Alone(n) == strings[n] # None /\ \A o \in Names \ {n} : strings[o] # strings[n]

(* What the file of n has for a key and a quantity (None for L), and what  *)
(* the mode of n says of a key that is not there.                          *)
Promised(n, k, q) ==
  LET file == Loaded(strings[n])  r == IF q = None THEN None ELSE Rule(n, q) IN
  IF k \notin DOMAIN file THEN Missing(mode[n], k)
  ELSE IF Plain \in DOMAIN file[k] THEN file[k][Plain]
  ELSE IF r = None THEN Raises
  ELSE IF r \in DOMAIN file[k] THEN file[k][r] ELSE Itself(k)

(* A bundle that is alone with its strings answers from its own file and   *)
(* by its own mode, however often it was asked before: the entries that    *)
(* are written on a miss never change an answer.                           *)
AnswersOwn ==
  \A n \in Names : Alone(n) => \A k \in Keys :
    /\ Singular(n, k) = Promised(n, k, None)
    /\ \A q \in Quantities : Counted(n, k, q) = Promised(n, k, q)

(* The locale and the classifier of a bundle are those of its first use:   *)
(* nothing done later, with this bundle or another, changes what L and Ln  *)
(* answer, but for a key that is missing when a bundle of another mode is  *)
(* loaded with the very same table of strings (i18n.lua:218).              *)
SameMiss(n, k) == Has(n, k) \/ metatable'[strings[n]] = metatable[strings[n]]

AnswersStable ==
  [][\A n \in Names, k \in Keys : (strings[n] # None /\ SameMiss(n, k)) =>
       /\ Singular(n, k)' = Singular(n, k)
       /\ \A q \in Quantities : Counted(n, k, q)' = Counted(n, k, q)]_vars
=============================================================================
