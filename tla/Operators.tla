----------------------------- MODULE Operators -----------------------------
(***************************************************************************)
(* observe.NormalizeOperator: the token of an operator from the name that  *)
(* a visitor, a registry or a mapping file gives it.  A name is abstracted *)
(* to the set of the words the code looks for in it, in lower case and     *)
(* without accents; a name with none of them is a set with its text.       *)
(***************************************************************************)
EXTENDS Sequences, SequencesExt

OpDesconocido == "desconocido"
OpOtro == "otro"

\* The switch, in its order: the first case with a word of the name wins.
Cases ==
    << [words |-> {"comcel", "claro"}, token |-> "claro"],
       [words |-> {"telefonica", "movistar", "colombia telecomunicaciones"},
        token |-> "movistar"],
       [words |-> {"une"}, token |-> "une"],
       [words |-> {"colombia movil", "tigo"}, token |-> "tigo"],
       [words |-> {"wom"}, token |-> "wom"],
       [words |-> {"directv"}, token |-> "directv"],
       [words |-> {"avantel"}, token |-> "avantel"],
       [words |-> {"etb"}, token |-> "etb"],
       [words |-> {"partners"}, token |-> "wom"] >>

\* Texts that name nobody; "x" stands for those of one character.
Vague == {"att", "otro", "desconocido", "n/a", "-", "x"}

NormalizeOperator(name) ==
    LET hits == SelectSeq(Cases, LAMBDA c : c.words \cap name # {})
    IN  IF hits # <<>> THEN Head(hits).token
        ELSE IF name \subseteq Vague THEN OpDesconocido
        ELSE CHOOSE text \in name : text \notin Vague
=============================================================================
