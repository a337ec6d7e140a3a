------------------------ MODULE MCLangGraphService --------------------------
(* LangGraphService on small instances. *)
EXTENDS LangGraphService, TLC

In(p, o, f, m) ==
  [pipeline |-> p, options |-> o, attached |-> TRUE, file |-> f, media |-> m]

NoFile(p, o) ==
  [pipeline |-> p, options |-> o, attached |-> FALSE, file |-> 0, media |-> "pdf"]

(* Every way a request can differ, at the boundaries: no file, an empty    *)
(* one, the limit, one unit above it; options and media matter to a file   *)
(* within the limit only.                                                  *)
AllInputs ==
  {In(p, "object", f, "pdf") : p \in {Mock, Pdf, "document-v1"},
                               f \in {0, MaxUpload, MaxUpload + 1}}
  \cup {In(p, o, MaxUpload, m) : p \in {Mock, Pdf}, o \in {"nan", "malformed"},
                                 m \in {"pdf", "other"}}
  \cup {In(Pdf, "object", MaxUpload, "other"), NoFile(Mock, "object"),
        NoFile(Pdf, "object"), NoFile(Pdf, "malformed")}

(* Good lists, one with an unknown name, one with a name twice. *)
AllConfigs == {<<Pdf, Mock>>, <<Mock>>, <<Pdf, "document-v1">>, <<Mock, Mock>>}
=============================================================================
