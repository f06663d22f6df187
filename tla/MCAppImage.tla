----------------------------- MODULE MCAppImage -----------------------------
(***************************************************************************)
(* Numbers at each boundary of AppImage: the allowed ranges, UCHAR_MAX and *)
(* what it would be cut to, and the two rollback states; ULONG_MAX is 1023.*)
(***************************************************************************)
EXTENDS AppImage

MCNumbers == {-1, 0, 3, 4, 9, 12, 13, 255, 256, 265, 1024}

=============================================================================
