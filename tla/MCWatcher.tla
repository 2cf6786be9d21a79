----------------------------- MODULE MCWatcher -----------------------------
(* A small instance of Watcher: a file that is shown and one that is ignored, *)
(* the index, and the files of the git directory handled before and after it. *)
EXTENDS Watcher

MCFiles == {"file", "private"}
MCPrivate == {"private"}
MCGitFiles == {"HEAD", "index", "logs/HEAD"}
=============================================================================
