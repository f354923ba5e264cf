----------------------------- MODULE MCThreadStore ----------------------------
(***************************************************************************)
(* ThreadStore with two accounts. A mail of the second refers to the mail  *)
(* of the first, another has the same subject by accident: it may join the *)
(* thread only after the first has brought the accounts together.          *)
(***************************************************************************)
EXTENDS ThreadStore, TLC

MCMails    == {"root", "copied", "other"}
MCFolders  == {"inbox", "work"}
MCAccounts == {"a", "b"}

MCFolderOf  == "root" :> "inbox" @@ "copied" :> "work" @@ "other" :> "work"
MCAccountOf == "inbox" :> "a" @@ "work" :> "b"

MCMessageId  == [m \in MCMails |-> m]
MCReferences == [m \in MCMails |-> IF m = "copied" THEN {"root"} ELSE {}]
MCSubject    == "root" :> <<"lunch">> @@ "copied" :> <<"fwd:">> @@ "other" :> <<"re:", "aw:", "lunch">>
MCDate       == "root" :> 1 @@ "copied" :> 5 @@ "other" :> 3
MCCondStore   == {"b"}
MCServerFlags == {{}, {"Seen"}}
MCHasAttachments == [m \in MCMails |-> m = "root"]
=============================================================================
