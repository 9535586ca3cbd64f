--------------------------- MODULE MCClassifiers ---------------------------
(***************************************************************************)
(* Small instances of Classifiers for TLC: the numbers of the unit tests.  *)
(***************************************************************************)
EXTENDS Classifiers

Number(k, t) == [kind |-> k, text |-> t]

\* 4532015112830366, 378282246310005 (luhn.rs), 44051401359 (pesel.rs),
\* 5260250995 (nip.rs), GB82WEST12345698765432 (iban.rs).
TestNumbers == {
    Number("card", <<4, 5, 3, 2, 0, 1, 5, 1, 1, 2, 8, 3, 0, 3, 6, 6>>),
    Number("card", <<3, 7, 8, 2, 8, 2, 2, 4, 6, 3, 1, 0, 0, 0, 5>>),
    Number("pesel", <<4, 4, 0, 5, 1, 4, 0, 1, 3, 5, 9>>),
    Number("nip", <<5, 2, 6, 0, 2, 5, 0, 9, 9, 5>>),
    Number("iban", <<16, 11, 8, 2, 32, 14, 28, 29, 1, 2, 3, 4, 5, 6, 9, 8, 7, 6, 5, 4, 3, 2>>)}
============================================================================
