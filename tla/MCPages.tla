--------------------------------- MODULE MCPages --------------------------------
(***************************************************************************)
(* The pages on small instances, one kind of page at a time: `part` says   *)
(* which one the member looks at.                                          *)
(***************************************************************************)
EXTENDS CrudPages, Panels

VARIABLE part

McInit ==
    /\ part \in {"list", "panel", "forecast", "dashboard"}
    /\ CrudInit /\ (part # "list" => page = CHOOSE p \in DOMAIN Pages : TRUE)
    /\ PanelInit /\ (part # "panel" => panel = CHOOSE p \in DOMAIN PanelsOf : TRUE)
    /\ ForecastInit /\ (part # "forecast" => ~prophet /\ sel = CHOOSE s \in Selections : TRUE)
    /\ DashInit /\ (part # "dashboard" => /\ stored = CHOOSE l \in OldLayouts : TRUE
                                          /\ names = CHOOSE n \in OldNames : TRUE)

McNext ==
    \/ part = "list" /\ CrudNext /\ UNCHANGED <<part, panelVars, forecastVars, dashVars>>
    \/ part = "panel" /\ PanelNext /\ UNCHANGED <<part, crudVars, forecastVars, dashVars>>
    \/ part = "forecast" /\ ForecastNext /\ UNCHANGED <<part, crudVars, panelVars, dashVars>>
    \/ part = "dashboard" /\ DashNext /\ UNCHANGED <<part, crudVars, panelVars, forecastVars>>

mcVars == <<part, crudVars, panelVars, forecastVars, dashVars>>
McSpec == McInit /\ [][McNext]_mcVars

TypeOK == CrudTypeOK /\ PanelTypeOK /\ ForecastTypeOK /\ DashTypeOK
=============================================================================
