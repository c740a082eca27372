---------------------------- MODULE Cw20Marketing ----------------------------
(***************************************************************************)
(* The Cw20Marketing messages of cw20-base (marketing.rs), and the logo    *)
(* check they share with instantiate (validation.rs).                      *)
(*                                                                         *)
(* A text is a member of Texts; Blank stands for the texts that are empty  *)
(* after trim().  A logo is [kind, format, size]: what its content is      *)
(* recognised by (an XML preamble, a PNG header, an http URL) is the       *)
(* Boolean format.                                                         *)
(***************************************************************************)
EXTENDS Cw20State

CONSTANTS
  Texts,        \* project and description texts
  Blank,        \* an empty or blank text
  Embedded,     \* LogoInfo::Embedded
  Logos,        \* the logos that messages carry
  LogoSizeCap   \* LOGO_SIZE_CAP

LogoKinds == {"url", "svg", "png"}

MarketingInfo == [project:     Texts \cup {Blank, None},
                  description: Texts \cup {Blank, None},
                  marketing:   Addr \cup {None},
                  logo:        Logos \cup {Embedded, None}]

ASSUME Cw20MarketingAssumption ==
  /\ None \notin Texts \cup {Blank}
  /\ Blank \notin Texts \cup Addr
  /\ Logos \subseteq [kind: LogoKinds, format: BOOLEAN, size: Nat]
  /\ None \notin Logos \cup {Embedded}
  /\ Embedded \notin Logos
  /\ None \notin MarketingInfo
  /\ LogoSizeCap \in Nat

VerifyLogo(l) == l.kind \in {"svg", "png"} => l.format /\ l.size <= LogoSizeCap

LogoInfo(l) == IF l.kind = "url" THEN l ELSE Embedded

\* MarketingInfo as update_marketing changes it: None leaves a field alone, a
\* blank text clears it.
Updated(stored, input) ==
  IF input = None THEN stored ELSE IF input = Blank THEN None ELSE input

\* Mutant: whether there is a logo is not looked at.
IsBlankInfoWithoutLogo(info) ==
  info.project = None /\ info.description = None /\ info.marketing = None

IsBlankInfo(info) ==
  /\ info.project = None
  /\ info.description = None
  /\ info.marketing = None
  /\ info.logo = None

\* Mutant: it is enough that marketing data is there.
HasMarketingRoleAnybody(a) == marketing_info # None

HasMarketingRole(a) == marketing_info # None /\ marketing_info.marketing = a

-----------------------------------------------------------------------------
\* Information with nothing left in it is removed.
UpdateMarketing(from, project, description, marketing) ==
  LET info == [marketing_info EXCEPT !.project     = Updated(@, project),
                                     !.description = Updated(@, description),
                                     !.marketing   = Updated(@, marketing)]
  IN  /\ HasMarketingRole(from)
      /\ marketing_info' = IF IsBlankInfo(info) THEN None ELSE info
      /\ UNCHANGED <<logo, tokenVars, allowanceVars>>

UploadLogo(from, l) ==
  /\ HasMarketingRole(from)
  /\ VerifyLogo(l)
  /\ logo' = l
  /\ marketing_info' = [marketing_info EXCEPT !.logo = LogoInfo(l)]
  /\ UNCHANGED <<tokenVars, allowanceVars>>
=============================================================================
