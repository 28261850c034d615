------------------------------- MODULE Grammar -------------------------------
(***************************************************************************)
(* Reading of a grammar file (grammar.cc): an automaton over the tokens of *)
(* the file that stores rules and directives, and what the parser asks of  *)
(* them.  A symbol has a category, a sequence of the parts of a tag, that  *)
(* a wildcard may end, and a condition: the form, the lemma, or a file     *)
(* that lists forms or lemmas; its specificity is that of its kind.        *)
(***************************************************************************)
EXTENDS Integers, SequencesExt

CONSTANTS Files,       \* grammar files: sequences of tokens, records of kind and text
          filemap      \* of the files a grammar names: condition -> conditions met

VARIABLES file, pos,   \* the file and the next token in it
          stat,        \* state of the automaton; HUNG in a loop that does not end
          head, ls, categ, first, wildcard, gov, havegov, what,
          skipped,     \* a rule or directive was skipped, with a message
          gram         \* what is stored: the members of class grammar

reader == <<file, pos, stat, head, ls, categ, first, wildcard, gov, havegov, what, skipped, gram>>

NoCond == [kind |-> "none", of |-> ""]
NoSym  == [cat |-> <<>>, star |-> FALSE, cond |-> NoCond]

HUNG == -1

NOGOV  == 99999
DEFGOV == 0
Directives == {"PRIOR", "HIDDEN", "FLAT", "NOTOP", "ONLYTOP"}

\* The transitions of the automaton; all others lead to 0, the error state.
trans ==
  { <<1, "COMMENT", 1>>, <<1, "CATEGORY", 2>>, <<1, "START", 8>>,
    <<2, "ARROW", 3>>, <<3, "CATEGORY", 4>>, <<3, "HEAD", 10>>, <<10, "CATEGORY", 4>>,
    <<4, "COMMA", 3>>, <<4, "BAR", 3>>, <<4, "DOT", 1>>,
    <<4, "LEMMA", 5>>, <<4, "FORM", 5>>, <<4, "FILENAME", 5>>,
    <<5, "COMMA", 3>>, <<5, "BAR", 3>>, <<5, "DOT", 1>>,
    <<6, "CATEGORY", 7>>, <<7, "CATEGORY", 7>>, <<7, "DOT", 1>>,
    <<8, "CATEGORY", 9>>, <<9, "DOT", 1>> } \cup {<<1, d, 6>> : d \in Directives}

NewStat(s, kind) == IF \E t \in trans : t[1] = s /\ t[2] = kind
                    THEN (CHOOSE t \in trans : t[1] = s /\ t[2] = kind)[3] ELSE 0

Tok == file[pos]

\* The next token leads to state n: every action below is a case of the reader.
To(n) == /\ stat >= 0 /\ pos <= Len(file)
         /\ NewStat(stat, Tok.kind) = n
         /\ pos' = pos + 1
         /\ UNCHANGED <<file, skipped>>

InitGrammar ==
  /\ file \in Files /\ pos = 1 /\ stat = 1
  /\ head = NoSym /\ ls = <<>> /\ categ = NoSym /\ first = FALSE /\ wildcard = FALSE
  /\ gov = 0 /\ havegov = FALSE /\ what = "" /\ skipped = FALSE
  /\ gram = [rules |-> <<>>, wild |-> <<>>, nonterminal |-> {}, prior |-> <<>>, hidden |-> {},
             flat |-> {}, notop |-> {}, onlytop |-> {}, start |-> NoSym]

\* A token that is a category has a name: the lexer takes a letter for its first.
ASSUME FilesAssumption ==
  \A f \in Files : /\ f \in Seq(Range(f))
                   /\ \A n \in DOMAIN f : f[n].kind = "CATEGORY" => f[n].text.cat # <<>>

\* Skip until the first end of rule or directive; the lexer does not move past
\* a character that begins no token.  Governor and list of the rule at fault stay.
Error ==
  /\ stat >= 0 /\ pos <= Len(file) /\ NewStat(stat, Tok.kind) = 0
  /\ skipped' = TRUE
  /\ LET ends == {p \in pos..Len(file) : file[p].kind \in {"DOT", "UNKNOWN"}} IN
     IF ends = {} THEN pos' = Len(file) + 1 /\ stat' = 1
     ELSE LET p == CHOOSE q \in ends : \A r \in ends : q <= r IN
          IF file[p].kind = "DOT" THEN pos' = p + 1 /\ stat' = 1
          ELSE pos' = p /\ stat' = HUNG
  /\ UNCHANGED <<file, head, ls, categ, first, wildcard, gov, havegov, what, gram>>

\* new_rule, after the last symbol of the right side: also indexed as wildcarded.
Governor == IF havegov THEN gov ELSE DEFGOV

\* Fault: the governor is not forgotten with the rule.
StoreRuleAgain ==
  LET r == [head |-> head, right |-> Append(ls, categ), gov |-> Governor] IN
  /\ gram' = [gram EXCEPT !.rules = Append(@, r),
                          !.wild = IF wildcard THEN Append(@, r) ELSE @]
  /\ UNCHANGED <<gov, havegov>>

StoreRule ==
  LET r == [head |-> head, right |-> Append(ls, categ), gov |-> Governor] IN
  /\ gram' = [gram EXCEPT !.rules = Append(@, r),
                          !.wild = IF wildcard THEN Append(@, r) ELSE @]
  /\ gov' = NOGOV /\ havegov' = FALSE

EndRule == /\ To(1) /\ stat \in {4, 5}
           /\ StoreRule
           /\ ls' = Append(ls, categ) /\ stat' = 1
           /\ UNCHANGED <<head, categ, first, wildcard, what>>

EndOther == /\ To(1) /\ stat \notin {4, 5}
            /\ stat' = 1
            /\ UNCHANGED <<head, ls, categ, first, wildcard, gov, havegov, what, gram>>

Category == [cat |-> Tok.text.cat, star |-> Tok.text.star, cond |-> NoCond]

RuleHead == /\ To(2)
         /\ head' = Category
         /\ gram' = [gram EXCEPT !.nonterminal = @ \cup {Category}]
         /\ stat' = 2
         /\ UNCHANGED <<ls, categ, first, wildcard, gov, havegov, what>>

Arrow == /\ To(3) /\ Tok.kind = "ARROW"
         /\ ls' = <<>> /\ first' = TRUE /\ wildcard' = FALSE /\ stat' = 3
         /\ UNCHANGED <<head, categ, gov, havegov, what, gram>>

Comma == /\ To(3) /\ Tok.kind = "COMMA"
         /\ ls' = Append(ls, categ) /\ stat' = 3
         /\ UNCHANGED <<head, categ, first, wildcard, gov, havegov, what, gram>>

\* The next alternative of a rule: first and wildcard keep their values.
Bar == /\ To(3) /\ Tok.kind = "BAR"
       /\ StoreRule
       /\ ls' = <<>> /\ stat' = 3
       /\ UNCHANGED <<head, categ, first, wildcard, what>>

RightSymbol == /\ To(4)
               /\ categ' = Category
               /\ wildcard' = (wildcard \/ (first /\ Tok.text.star))
               /\ first' = FALSE /\ stat' = 4
               /\ UNCHANGED <<head, ls, gov, havegov, what, gram>>

Specific == /\ To(5)
            /\ categ' = [categ EXCEPT !.cond = Tok.text] /\ stat' = 5
            /\ UNCHANGED <<head, ls, first, wildcard, gov, havegov, what, gram>>

Directive == /\ To(6)
             /\ what' = Tok.kind /\ stat' = 6
             /\ UNCHANGED <<head, ls, categ, first, wildcard, gov, havegov, gram>>

Listed == /\ To(7) /\ Category \in gram.nonterminal
          /\ categ' = Category /\ stat' = 7
          /\ \/ what = "PRIOR"   /\ gram' = [gram EXCEPT !.prior = Append(@, Category)]
             \/ what = "HIDDEN"  /\ gram' = [gram EXCEPT !.hidden = @ \cup {Category}]
             \/ what = "FLAT"    /\ gram' = [gram EXCEPT !.flat = @ \cup {Category}]
             \/ what = "NOTOP"   /\ gram' = [gram EXCEPT !.notop = @ \cup {Category}]
             \/ what = "ONLYTOP" /\ gram' = [gram EXCEPT !.onlytop = @ \cup {Category}]
          /\ UNCHANGED <<head, ls, first, wildcard, gov, havegov, what>>

\* A terminal in a directive, or a second @START: the next token is in error.
NotAllowed == /\ \/ To(7) /\ Category \notin gram.nonterminal /\ categ' = Category
                 \/ To(8) /\ gram.start # NoSym /\ UNCHANGED categ
              /\ stat' = 0
              /\ UNCHANGED <<head, ls, first, wildcard, gov, havegov, what, gram>>

StartDirective == /\ To(8) /\ gram.start = NoSym /\ stat' = 8
          /\ UNCHANGED <<head, ls, categ, first, wildcard, gov, havegov, what, gram>>

StartSymbol == /\ To(9)
               /\ gram' = [gram EXCEPT !.start = Category, !.nonterminal = @ \cup {Category}]
               /\ stat' = 9
               /\ UNCHANGED <<head, ls, categ, first, wildcard, gov, havegov, what>>

GovernorMark == /\ To(10)
                /\ gov' = Len(ls) /\ havegov' = TRUE /\ stat' = 10
                /\ UNCHANGED <<head, ls, categ, first, wildcard, what, gram>>

Read == \/ Error \/ EndRule \/ EndOther \/ RuleHead \/ Arrow \/ Comma \/ Bar \/ RightSymbol
        \/ Specific \/ Directive \/ Listed \/ NotAllowed \/ StartDirective \/ StartSymbol \/ GovernorMark

EndOfFile == stat >= 0 /\ pos > Len(file)

\* The reading of a file on its own.
SpecGrammar == InitGrammar /\ [][Read]_reader

\* Every rule has its head within its right side, unless something was skipped.
GovernorInRule == ~skipped => \A r \in Range(gram.rules) : r.gov < Len(r.right)
=============================================================================
