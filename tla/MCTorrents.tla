---------------------------- MODULE MCTorrents ----------------------------
(* Torrents on small instances: what each configuration option turns on,  *)
(* and directories with nothing, a file that is no torrent, and torrents.  *)
EXTENDS Torrents, TLC

CONSTANTS f1, f2, h1, h2

Options(k, d, a, u, p) ==
  [keepDead |-> k, deleteInvalid |-> d, archive |-> a, parseOnUpload |-> u, parses |-> p]

\* The last one has the default interval, 0.
MCSettings == {Options(FALSE, TRUE, TRUE, TRUE, TRUE),
               Options(TRUE, FALSE, FALSE, FALSE, TRUE),
               Options(TRUE, TRUE, TRUE, TRUE, FALSE)}

MCInitialDirs ==
  {EmptyDicti, f1 :> Junk, f1 :> h1, (f1 :> h1) @@ (f2 :> h2), (f1 :> h1) @@ (f2 :> h1)}
=============================================================================
