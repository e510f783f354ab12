------------------------------ MODULE MCDossier ------------------------------
(* Constants of Dossier for TLC: the scan is a PDF, whose text may differ    *)
(* from one version of the file to the next; the fax is another; letter and  *)
(* memo have no pages, and one text between them; the roster is a list.      *)
EXTENDS Dossier

CONSTANTS scan, fax, letter, memo, roster, t1, t2

Nobody == {}
OnePage == {1}
TwoPages == {1, 2}
OneText == {t1}
TwoTexts == {t1, t2}
OneVersion == [d \in Docs |-> {t1}]
TwoVersions == [d \in Docs |-> IF d = scan THEN TwoTexts ELSE {t1}]

Scan == {scan}
Fax == {fax}
ScanFax == {scan, fax}
ScanLetterMemo == {scan, letter, memo}
Roster == {roster}
=============================================================================
