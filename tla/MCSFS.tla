-------------------------------- MODULE MCSFS ---------------------------------
(* The finite instances of SFS for TLC.                                    *)
EXTENDS SFS

\* The root, two files in it, a directory, and a file in that.
SmallTree == {<<>>, <<"a">>, <<"b">>, <<"d/">>, <<"d/", "x">>}
=============================================================================
