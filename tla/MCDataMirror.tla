----------------------------- MODULE MCDataMirror -----------------------------
EXTENDS DataMirror

TheDates  == 0..2
BothKinds == BOOLEAN
FewSignatures == 2..5
=============================================================================
