---------------------------- MODULE MCBlockDownload ----------------------------
EXTENDS BlockDownload

\* two blocks in a row, and one beside the second that breaks a rule
Blocks  == {"g", "b1", "b2", "x2"}
Parents == "b1" :> "g" @@ "b2" :> "b1" @@ "x2" :> "b1"

\* h is honest, s keeps or spoils what it is asked for
Two     == {"h", "s"}
BestOf  == "h" :> "b2" @@ "s" :> "x2"

\* a single block, which both have
OneBlocks == {"g", "b1"}
OneParent == "b1" :> "g"
OneBlock  == "h" :> "b1" @@ "s" :> "b1"
===============================================================================
