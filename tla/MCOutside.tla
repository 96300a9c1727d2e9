------------------------------- MODULE MCOutside -------------------------------
(* Instances of Shipments, Mail, Likes, Projects and Files for TLC.  They share *)
(* no state, so a behaviour runs one of them.                                   *)
EXTENDS Shipments, Mail, Likes, Projects, Files, TLC

CONSTANT BusyLabel   \* the label with several reports and polls

VARIABLE part

allVars == <<part, shipmentVars, mailVars, likeVars, projectVars, fileVars>>

MCReportBound == [l \in Labels |-> IF l = BusyLabel THEN MaxReports ELSE 1]
MCPollBound == [l \in Labels |-> IF l = BusyLabel THEN 1 ELSE 0]

Init ==
  /\ part \in {"shipments", "mail", "likes", "projects", "files"}
  /\ ShipmentsInit /\ MailInit /\ LikesInit /\ ProjectsInit /\ FilesInit
  /\ IF part = "shipments"
       THEN <<numbered, malformed>> \in {<<{}, {}>>, <<Labels, {MaxReports}>>}
       ELSE numbered = {} /\ malformed = {}
  /\ part # "files" => swept /\ \A f \in Uploads : upload[f].says = "png" /\ upload[f].is = "png"

Next ==
  /\ UNCHANGED part
  /\ \/ part = "shipments" /\ ShipmentsNext
        /\ UNCHANGED <<mailVars, likeVars, projectVars, fileVars>>
     \/ part = "mail" /\ MailNext
        /\ UNCHANGED <<shipmentVars, likeVars, projectVars, fileVars>>
     \/ part = "likes" /\ LikesNext
        /\ UNCHANGED <<shipmentVars, mailVars, projectVars, fileVars>>
     \/ part = "projects" /\ ProjectsNext
        /\ UNCHANGED <<shipmentVars, mailVars, likeVars, fileVars>>
     \/ part = "files" /\ FilesNext
        /\ UNCHANGED <<shipmentVars, mailVars, likeVars, projectVars>>

Spec == Init /\ [][Next]_allVars

\* Exchanges the two members of S, or leaves them.
Exchange(S, swap) == [x \in S |-> IF swap THEN CHOOSE y \in S : y # x ELSE x]

\* The slots of each module are interchangeable, and so are submissions, fans and
\* guests; every property of this run is an invariant.
Symmetry ==
  {Exchange(ShipmentSlots, a) @@ Exchange(LikeSlots, a) @@ Exchange(ProjectSlots, a)
     @@ Exchange(Submissions, b) @@ Exchange(Fans, b) @@ Exchange(Guests, b)
     : a \in BOOLEAN, b \in BOOLEAN}

\* Every variable of the module that runs has its type.
OutsideTypeOK ==
  CASE part = "shipments" -> ShipmentsTypeOK
    [] part = "mail" -> MailTypeOK
    [] part = "likes" -> LikesTypeOK
    [] part = "projects" -> ProjectsTypeOK
    [] part = "files" -> FilesTypeOK
================================================================================
