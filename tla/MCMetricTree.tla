----------------------------- MODULE MCMetricTree -----------------------------
(***************************************************************************)
(* Keys and requests for TLC.                                              *)
(***************************************************************************)
EXTENDS DeepScan

CONSTANTS a, b, c

\* <<a>> is both metric and directory, the keys below <<b>> are apart.
SomeKeys == {<<a>>, <<a, b>>, <<b, a>>, <<b, b, a>>, <<b, b, b, a>>}

\* Keys, directories, and paths whose parent may be missing.
SomeRequests == {<<a>>, <<a, b, c>>, <<b, b>>, <<b, b, a>>}
=============================================================================
