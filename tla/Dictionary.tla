------------------------------ MODULE Dictionary ------------------------------
(***************************************************************************)
(* The dictionary of forms (dictionary.cc): its file is read line by line  *)
(* into a database, and into an inverse one of lemmas and tags; analyses   *)
(* may be added and entries removed.  A form and a lemma are sequences of  *)
(* letters, "+" among them; a tag is the sequence of its parts between "+",*)
(* each the sequence of the alternatives that "/" separates.  The data of  *)
(* a form is a sequence of lemmas with their tags.                         *)
(***************************************************************************)
EXTENDS PrefixTree

CONSTANTS DictionaryFiles,   \* records of index, inverse, lines and preferences
          Analyses,          \* what may be added: lemma and tag
          MaxUpdates,        \* bound on the calls that change the dictionary
          lowercase(_),
          Before(_, _)       \* the order of strings

ASSUME DictionaryAssumption ==
  /\ \A form \in Keys : lowercase(form) = form
  /\ \A d \in DictionaryFiles :
       /\ d.index \in {"DB_MAP", "DB_PREFTREE"} /\ d.inverse \in BOOLEAN
       /\ d.lines \in Seq(Range(d.lines))
       /\ \A l \in Range(d.lines) : l.form \in Keys /\ l.pairs \in Seq(Range(l.pairs))

VARIABLES dict,      \* the file
          line,      \* the next line of it
          mode,      \* "load", "update", "analyze"; "crash"; "undefined" in a freed buffer
          updates,   \* calls so far
          dbmap, inverdb,
          fresh      \* forms whose entry add_analysis created (history)

dictionary == <<dict, line, mode, updates, dbmap, inverdb, fresh, tree>>

DB == INSTANCE Database WITH db <- dbmap

access_database(form) ==
  IF dict.index = "DB_MAP" THEN DB!access(dbmap, form) ELSE accessTree(tree, form)

\* Preferences come before the order of strings.
Preferred(a, b, prefs) == a \in DOMAIN prefs /\ prefs[a] = b
less(a, b, prefs) == Preferred(a, b, prefs) \/ (~Preferred(b, a, prefs) /\ Before(a, b))

\* Two neighbours in the order of preference.
Swap(s, n, prefs) == IF less(s[n + 1], s[n], prefs)
                     THEN [s EXCEPT ![n] = s[n + 1], ![n + 1] = s[n]] ELSE s

\* Each of the first m with the one after it, but the last.
Pass(s, m, prefs) ==
  LET passed[n \in 0..(m - 1)] == IF n = 0 THEN s ELSE Swap(passed[n - 1], n, prefs)
  IN passed[m - 1]

\* Bubble sort, ever shorter passes: neighbours alone are compared.
sort_list(ls, prefs) ==
  LET sorted[k \in 0..Len(ls)] == IF k = 0 THEN ls ELSE Pass(sorted[k - 1], Len(ls) + 1 - k, prefs)
  IN sorted[Len(ls)]

AppendIf(s, e, wanted) == IF wanted THEN Append(s, e) ELSE s

\* The lemmas of pairs, in order; the tags that one has.
LemmasOf(pairs) ==
  LET seen[n \in 0..Len(pairs)] ==
        IF n = 0 THEN <<>>
        ELSE AppendIf(seen[n - 1], pairs[n].lemma, ~Contains(seen[n - 1], pairs[n].lemma))
  IN seen[Len(pairs)]

TagsOf(pairs, lemma) ==
  LET read[n \in 0..Len(pairs)] ==
        IF n = 0 THEN <<>> ELSE AppendIf(read[n - 1], pairs[n].tag, pairs[n].lemma = lemma)
  IN read[Len(pairs)]

\* Lemmas by preference, each with its tags by preference.
parse_dict_entry(pairs) ==
  LET sorted == sort_list(LemmasOf(pairs), dict.lemma_prefs)
  IN [n \in DOMAIN sorted |->
       [lemma |-> sorted[n], tags |-> sort_list(TagsOf(pairs, sorted[n]), dict.pos_prefs)]]

\* The analyses that data stand for, one for each tag of each lemma.
Expand(data) ==
  FlattenSeq([n \in DOMAIN data |-> [m \in DOMAIN data[n].tags |->
                                      [lemma |-> data[n].lemma, tag |-> data[n].tags[m]]]])

search_form(s) == Expand(access_database(lowercase(s)))

get_forms(lemma, tag) == IF dict.inverse THEN DB!access(inverdb, <<lemma, tag>>) ELSE <<>>

KeyOf(a) == <<a.lemma, a.tag>>

\* Fault: the forms an analysis had are forgotten.
ReplaceForms(analyses, form) ==
  LET inv[n \in 0..Len(analyses)] ==
        IF n = 0 THEN inverdb ELSE DB!replaced(inv[n - 1], KeyOf(analyses[n]), <<form>>)
  IN IF dict.inverse THEN inv[Len(analyses)] ELSE inverdb

\* Each analysis has the form as one more.
AddToForms(analyses, form) ==
  LET inv[n \in 0..Len(analyses)] ==
        IF n = 0 THEN inverdb ELSE DB!added(inv[n - 1], KeyOf(analyses[n]), <<form>>)
  IN IF dict.inverse THEN inv[Len(analyses)] ELSE inverdb

\* list::remove, of every occurrence.
Without(forms, form) ==
  LET kept[n \in 0..Len(forms)] ==
        IF n = 0 THEN <<>> ELSE AppendIf(kept[n - 1], forms[n], forms[n] # form)
  IN kept[Len(forms)]

\* An analysis that is left without forms goes.
Dropped(inv, a, form) ==
  LET lf == Without(DB!access(inv, KeyOf(a)), form)
  IN IF lf = <<>> THEN DB!removed(inv, KeyOf(a)) ELSE DB!replaced(inv, KeyOf(a), lf)

DropFromForms(analyses, form) ==
  LET inv[n \in 0..Len(analyses)] ==
        IF n = 0 THEN inverdb ELSE Dropped(inv[n - 1], analyses[n], form)
  IN IF dict.inverse THEN inv[Len(analyses)] ELSE inverdb

\* add_database of the database of forms.
AddToDatabase(form, data) ==
  IF dict.index = "DB_MAP" THEN dbmap' = DB!added(dbmap, form, data) /\ UNCHANGED tree
  ELSE tree' = addWord(tree, form, data) /\ UNCHANGED dbmap

InitDictionary ==
  /\ dict \in DictionaryFiles /\ line = 1 /\ mode = "load" /\ updates = 0
  /\ dbmap = [k \in {} |-> <<>>] /\ inverdb = [k \in {} |-> <<>>] /\ fresh = {}
  /\ InitTree

\* A line without form, or with a lemma without tag, ends the program.
LoadLine ==
  /\ mode = "load" /\ line <= Len(dict.lines)
  /\ LET l == dict.lines[line]
         data == parse_dict_entry(l.pairs) IN
     IF l.bad THEN mode' = "crash" /\ UNCHANGED <<dbmap, inverdb, tree>>
     ELSE /\ AddToDatabase(l.form, data)
          /\ inverdb' = AddToForms(Expand(data), l.form)
          /\ UNCHANGED mode
  /\ line' = line + 1
  /\ UNCHANGED <<dict, updates, fresh>>

Loaded == /\ mode = "load" /\ line > Len(dict.lines)
          /\ mode' = "update"
          /\ UNCHANGED <<dict, line, updates, dbmap, inverdb, fresh, tree>>

\* The data with an analysis more; only the first of equal lemmas is looked at.
WithAnalysis(data, a) ==
  LET n == SelectInSeq(data, LAMBDA d : d.lemma = a.lemma) IN
  IF n = 0 THEN Append(data, [lemma |-> a.lemma, tags |-> <<a.tag>>])
  ELSE IF Contains(data[n].tags, a.tag) THEN data
  ELSE [data EXCEPT ![n].tags = Append(@, a.tag)]

\* A form is taken as it is given, while search_form looks for it in lower case.  The
\* inverse database does not hear of a new form.  In a prefix tree replace_database
\* keeps the buffer of a string that ceases to exist.
add_analysis(form, a) ==
  /\ mode = "update" /\ updates < MaxUpdates
  /\ LET data == access_database(form)
         new == WithAnalysis(data, a) IN
     IF data = <<>>
     THEN /\ AddToDatabase(form, <<[lemma |-> a.lemma, tags |-> <<a.tag>>]>>)
          /\ fresh' = fresh \cup {form}
          /\ UNCHANGED <<mode, inverdb>>
     ELSE /\ dbmap' = IF new # data /\ dict.index = "DB_MAP" THEN DB!replaced(dbmap, form, new) ELSE dbmap
          /\ mode' = IF new # data /\ dict.index = "DB_PREFTREE" THEN "undefined" ELSE mode
          /\ inverdb' = IF new # data THEN AddToForms(<<a>>, form) ELSE inverdb
          /\ UNCHANGED <<fresh, tree>>
  /\ updates' = updates + 1
  /\ UNCHANGED <<dict, line>>

\* The form goes from the lists of its analyses, then its own entry.
remove_entry(form) ==
  /\ mode = "update" /\ updates < MaxUpdates
  /\ inverdb' = DropFromForms(search_form(form), form)
  /\ IF dict.index = "DB_MAP" THEN dbmap' = DB!removed(dbmap, form) /\ UNCHANGED tree
     ELSE tree' = deleteWord(tree, form) /\ UNCHANGED dbmap
  /\ fresh' = fresh \ {form}
  /\ updates' = updates + 1
  /\ UNCHANGED <<dict, line, mode>>

Update == \/ LoadLine \/ Loaded
          \/ \E form \in Keys : remove_entry(form) \/ \E a \in Analyses : add_analysis(form, a)

-----------------------------------------------------------------------------
\* The keys of the analyses that a form has, and of those that list it.
Has(form)    == {KeyOf(a) : a \in Range(Expand(access_database(form)))}
Listed(form) == {k \in DOMAIN inverdb : Contains(inverdb[k], form)}

\* The two databases agree, whatever was loaded, added and removed: the inverse one
\* lists a form for just the analyses that it has, but for the first analysis of
\* a form that add_analysis created.
InverseAgrees ==
  dict.inverse /\ mode # "undefined" =>
    \A form \in Keys : /\ Listed(form) \subseteq Has(form)
                       /\ form \notin fresh => Listed(form) = Has(form)
=============================================================================
