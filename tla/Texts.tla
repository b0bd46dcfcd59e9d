------------------------------- MODULE Texts -------------------------------
(***************************************************************************)
(* Texts as the client takes them apart.  A text is a sequence of tokens:  *)
(* the separators and the fixed words the code looks for are tokens of     *)
(* their own, what lies between them is cut no finer than a prefix has to  *)
(* be told from the whole.  None is the None of an Option.                 *)
(***************************************************************************)
EXTENDS Naturals, Sequences, SequencesExt

CONSTANTS
    Tokens,
    None,
    lower       \* to_lowercase, token by token

Text == Seq(Tokens)

ASSUME NoneIsNoText == None \notin Text

ToLower(t) == [i \in DOMAIN t |-> lower[t[i]]]

StripPrefix(t, token) == IF t # <<>> /\ Head(t) = token THEN Tail(t) ELSE t
StripSuffix(t, token) == IF t # <<>> /\ Last(t) = token THEN Front(t) ELSE t

(* The text before and after the first, or the last, of a token. *)
First(t, token) == SelectInSeq(t, LAMBDA x : x = token)
Final(t, token) == SelectLastInSeq(t, LAMBDA x : x = token)
Before(t, i) == SubSeq(t, 1, i - 1)
After(t, i) == SubSeq(t, i + 1, Len(t))
UpTo(t, token) == IF Contains(t, token) THEN Before(t, First(t, token)) ELSE t
=============================================================================
