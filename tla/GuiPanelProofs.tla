--------------------------- MODULE GuiPanelProofs ---------------------------
(***************************************************************************)
(* Theorems about GuiPanel, for any number of channels and any states of   *)
(* the supplies.                                                           *)
(*                                                                         *)
(* That nothing overlaps and that the error message stands alone follow    *)
(* from one invariant, Layout: where the groups are is known from the      *)
(* panel they were last arranged for; while the dialog is open no button   *)
(* works, so that no second panel can be opened; and while the remote      *)
(* computer has no connection nothing is visible and no panel is open,     *)
(* so that restoring the channels cannot run into one.                     *)
(***************************************************************************)
EXTENDS GuiPanel, TLAPS

Panels == Lines \union {None}

\* The rows of the groups are those for some panel: the one that is open, or the
\* one that was open when the groups were hidden.
RowsOf(open) == \A c \in Lines : group[c].row = RowUnder(open, c)

ArrangedForPanel ==
    \E open \in Panels :
        /\ RowsOf(open)
        /\ dialog # None => open = dialog
        /\ diagnostics # None => open = diagnostics
        /\ blank => open = None

Disconnected == ~isModbusTcpSlave /\ ~healthy

Layout ==
    /\ dialog = None \/ diagnostics = None
    /\ blank => dialog = None /\ diagnostics = None
    /\ ArrangedForPanel
    /\ ~message => \A c \in Lines : group[c].bottomLine = (c # dialog /\ c # diagnostics)
    /\ dialog # None => \A c \in Lines : group[c].active = {}
    /\ message => Disconnected
    /\ inbox.hide => Disconnected
    /\ Disconnected /\ ~inbox.hide =>
          /\ dialog = None /\ diagnostics = None /\ ~blank
          /\ inbox.show = {}
          /\ \A c \in Lines : ~group[c].visible
-----------------------------------------------------------------------------
(***************************************************************************)
(* Types.                                                                  *)
(***************************************************************************)
LEMMA RowTypes ==
    ASSUME NEW open \in Panels, NEW c \in Lines
    PROVE  RowUnder(open, c) \in 0 .. Channels + 1
  BY PanelAssumption DEF RowUnder, Lines, Panels, None

LEMMA VisibleTypes ==
    ASSUME NEW g \in Groups, NEW visible \in BOOLEAN
    PROVE  [g EXCEPT !.visible = visible] \in Groups
  BY DEF Groups

LEMMA ArrangedTypes ==
    ASSUME group \in [Lines -> Groups], NEW open \in Panels, NEW continued,
           NEW buttons \in SUBSET Buttons
    PROVE  /\ Arranged(open, continued) \in [Lines -> Groups]
           /\ ArrangedWith(buttons, open, continued) \in [Lines -> Groups]
<1>1. ASSUME NEW c \in Lines
      PROVE  [group[c] EXCEPT !.row = RowUnder(open, c),
                              !.bottomLine = c \notin continued] \in Groups
  BY RowTypes DEF Groups
<1>2. Arranged(open, continued) \in [Lines -> Groups]
  BY <1>1 DEF Arranged
<1>3. ASSUME NEW c \in Lines
      PROVE  [Arranged(open, continued)[c] EXCEPT !.active = buttons] \in Groups
  BY <1>2 DEF Groups
<1> QED
  BY <1>2, <1>3 DEF ArrangedWith

LEMMA UpdateTypes ==
    ASSUME group \in [Lines -> Groups], table \in [Lines -> Tables],
           control \in BOOLEAN, NEW c \in Lines
    PROVE  GroupAfterUpdate(c) \in Groups
<1>1. group[c] \in Groups /\ table[c] \in Tables
  OBVIOUS
<1>2. ButtonsAfterUpdate(c) \in SUBSET Buttons
  BY <1>1 DEF ButtonsAfterUpdate, Groups, Buttons, Controls
<1>3. WarningAfterUpdate(c) \in BOOLEAN
  BY <1>1 DEF WarningAfterUpdate, Groups
<1>4. TextsAfterUpdate(c) \in SUBSET Texts
  BY <1>1 DEF TextsAfterUpdate, Texts, Modes, Problems
<1>5. [phase |-> table[c].phase, control |-> control]
         \in [phase : PoweringDownStates, control : BOOLEAN]
  BY <1>1 DEF Tables
<1> QED
  BY <1>1, <1>2, <1>3, <1>4, <1>5 DEF GroupAfterUpdate, Groups

LEMMA DiagnosticsTypes ==
    ASSUME NEW c \in Lines, NEW text \in DiagnosticsData(c)
    PROVE  text \in [of : Panels, kind : DiagnosticsKinds]
  BY DEF DiagnosticsData, DiagnosticsKinds, Panels

LEMMA CloseDialogTypes ==
    ASSUME TypeOK, CloseDialogInternals
    PROVE  /\ group' \in [Lines -> Groups] /\ dialog' = None
           /\ diagnostics' \in Panels /\ blank' \in BOOLEAN
           /\ diagnosticsText' \in [of : Panels, kind : DiagnosticsKinds]
  BY ArrangedTypes DEF CloseDialogInternals, TypeOK, Panels

LEMMA InitTypes == Init => TypeOK
<1> SUFFICES ASSUME Init PROVE TypeOK
  OBVIOUS
<1>1. NewTable \in Tables
  BY DEF NewTable, Tables, CommunicationStates, PoweringDownStates
<1>2. ASSUME NEW c \in Lines PROVE NewGroup(c) \in Groups
  BY PanelAssumption
  DEF NewGroup, Groups, Lines, Buttons, Controls, Texts, Modes, PoweringDownStates
<1>3. title \in [slave : BOOLEAN, here : BOOLEAN, button : BOOLEAN]
  BY DEF Init, Title
<1>4. inbox \in Inboxes
  BY DEF Init, Inboxes, NoMessages
<1> QED
  BY <1>1, <1>2, <1>3, <1>4 DEF Init, TypeOK, DiagnosticsKinds

\* Every callback, every handler and every turn keeps the types.
LEMMA StepTypes == TypeOK /\ [Next]_vars => TypeOK'
<1> SUFFICES ASSUME TypeOK, [Next]_vars PROVE TypeOK'
  OBVIOUS
<1> USE DEF TypeOK, Panels
<1>1. ASSUME NEW c \in Lines, ChangeSetPoint(c) PROVE TypeOK'
  BY <1>1, ArrangedTypes DEF ChangeSetPoint, link, window
<1>2. ASSUME NEW c \in Lines, DiagnosticsButton(c) PROVE TypeOK'
  <2>1. group' \in [Lines -> Groups]
    <3>1. None \in Panels /\ c \in Panels /\ {} \in SUBSET Buttons
      OBVIOUS
    <3>2. group' = Arranged(None, {dialog}) \/ group' = Arranged(c, {dialog, c})
      BY <1>2 DEF DiagnosticsButton
    <3>3. CASE group' = Arranged(None, {dialog})
      BY <3>1, <3>3, ArrangedTypes
    <3>4. CASE group' = Arranged(c, {dialog, c})
      BY <3>1, <3>4, ArrangedTypes
    <3> QED
      BY <3>2, <3>3, <3>4
  <2>2. diagnosticsText' \in [of : Panels, kind : DiagnosticsKinds]
    BY <1>2, DiagnosticsTypes DEF DiagnosticsButton
  <2> QED
    BY <1>2, <2>1, <2>2 DEF DiagnosticsButton, link, window
<1>3. CASE CloseSetPointDialog
  BY <1>3, CloseDialogTypes DEF CloseSetPointDialog, link, window
<1>4. CASE RemoteComputerControl
  <2>1. control' \in BOOLEAN /\ title' \in [slave : BOOLEAN, here : BOOLEAN, button : BOOLEAN]
    BY <1>4 DEF RemoteComputerControl, Title, link
  <2> QED
    BY <1>4, <2>1, CloseDialogTypes DEF RemoteComputerControl, panels, link
<1>5. CASE UpdateMainApplicationLabel
  BY <1>5 DEF UpdateMainApplicationLabel, Relabelled, Inboxes, link, panels
<1>6. ASSUME NEW c \in Lines, DisplayChannelWidgets(c) PROVE TypeOK'
  <2>1. group' \in [Lines -> Groups]
    BY <1>6, VisibleTypes DEF DisplayChannelWidgets
  <2> QED
    BY <1>6, <2>1 DEF DisplayChannelWidgets, Inboxes, link, panels, window
<1>7. ASSUME NEW c \in Lines, UpdateChannelWidgets(c) PROVE TypeOK'
  <2>1. group' \in [Lines -> Groups]
    BY <1>7, UpdateTypes DEF UpdateChannelWidgets
  <2>2. diagnosticsText' \in [of : Panels, kind : DiagnosticsKinds]
    BY <1>7, DiagnosticsTypes DEF UpdateChannelWidgets
  <2>3. title' \in [slave : BOOLEAN, here : BOOLEAN, button : BOOLEAN]
    BY <1>7 DEF UpdateChannelWidgets, Title
  <2> QED
    BY <1>7, <2>1, <2>2, <2>3 DEF UpdateChannelWidgets, Inboxes, link
<1>8. CASE CloseSetpointDialogIfActive
  BY <1>8, CloseDialogTypes DEF CloseSetpointDialogIfActive, Inboxes, link, panels, window
<1>9. CASE HideChannelWidgets
  <2>1. group' \in [Lines -> Groups]
    BY <1>9, VisibleTypes DEF HideChannelWidgets
  <2> QED
    BY <1>9, <2>1 DEF HideChannelWidgets, Inboxes, link
<1>10. CASE StateChanges
  <2>1. PICK c \in Lines : \E new \in TableStates[c] : table' = [table EXCEPT ![c] = new]
    BY <1>10 DEF StateChanges
  <2>2. TableStates[c] \subseteq Tables
    BY PanelAssumption
  <2>3. table' \in [Lines -> Tables]
    BY <2>1, <2>2
  <2> QED
    BY <1>10, <2>3 DEF StateChanges, link, panels, window
<1>11. CASE LocalTurn
  BY <1>11 DEF LocalTurn, NoMessages, Inboxes, link, panels, window
<1>12. CASE RemoteTurn
  <2>1. inbox' \in Inboxes
    BY <1>12 DEF RemoteTurn, Inboxes
  <2>2. CASE RestoreChannelWidgets
    <3>1. ASSUME NEW c \in Lines
          PROVE  [ArrangedWith(Buttons, None, {dialog, diagnostics})[c]
                     EXCEPT !.visible = TRUE] \in Groups
      <4>1. ArrangedWith(Buttons, None, {dialog, diagnostics})[c] \in Groups
        <5>1. None \in Panels /\ Buttons \in SUBSET Buttons /\ group \in [Lines -> Groups]
          OBVIOUS
        <5>2. ArrangedWith(Buttons, None, {dialog, diagnostics}) \in [Lines -> Groups]
          BY ONLY <5>1, ArrangedTypes
        <5> QED
          BY ONLY <5>2, c \in Lines
      <4> QED
        BY <4>1, VisibleTypes
    <3>2. group' \in [Lines -> Groups]
      BY <2>2, <3>1 DEF RestoreChannelWidgets
    <3> QED
      BY <1>12, <2>1, <2>2, <3>2 DEF RemoteTurn, RestoreChannelWidgets, panels
  <2>3. CASE UNCHANGED <<message, group, panels>>
    BY <1>12, <2>1, <2>3 DEF RemoteTurn, panels
  <2> QED
    BY <1>12, <2>2, <2>3 DEF RemoteTurn
<1>13. CASE UNCHANGED vars
  BY <1>13 DEF vars, link, panels, window
<1> QED
  BY <1>1, <1>2, <1>3, <1>4, <1>5, <1>6, <1>7, <1>8, <1>9, <1>10, <1>11, <1>12, <1>13
  DEF Next, UserActs, HandleMessage, PeripheralTurn

\* The window is built from the values it is declared to have, and no group ever
\* leaves the rows there are.
THEOREM TypeCorrectness == Spec => []TypeOK
<1> QED
  BY InitTypes, StepTypes, PTL DEF Spec

-----------------------------------------------------------------------------
(***************************************************************************)
(* The warning.                                                            *)
(***************************************************************************)
\* A group that shows the warning was last updated with a timeout: no lost
\* control, bad communication or open dialog lets the warning outlive it
\* (updateSettingsButtonsAndPowerDownWigets).
THEOREM WarningHasItsCause == Spec => []WarningMeansTimeout
<1>1. Init => WarningMeansTimeout
  BY DEF Init, WarningMeansTimeout, NewGroup
<1>2. TypeOK /\ WarningMeansTimeout /\ [Next]_vars => WarningMeansTimeout'
  <2> SUFFICES ASSUME TypeOK, WarningMeansTimeout, [Next]_vars, NEW d \in Lines,
                      group'[d].warning
               PROVE  group'[d].old.phase = "TIMEOUT_EXCEEDED"
    BY DEF WarningMeansTimeout
  <2>0. group \in [Lines -> Groups] /\ group[d] \in Groups
        /\ (group[d].warning => group[d].old.phase = "TIMEOUT_EXCEEDED")
    BY DEF TypeOK, WarningMeansTimeout
  <2>1. CASE group'[d].warning = group[d].warning /\ group'[d].old = group[d].old
    BY <2>0, <2>1
  <2>2. ASSUME NEW c \in Lines, ChangeSetPoint(c) \/ DiagnosticsButton(c)
        PROVE  group'[d].warning = group[d].warning /\ group'[d].old = group[d].old
    <3>1. CASE ChangeSetPoint(c)
      BY <2>0, <3>1 DEF ChangeSetPoint, Arranged, ArrangedWith, Groups
    <3>2. CASE DiagnosticsButton(c)
      <4>1. CASE group' = Arranged(None, {dialog})
        BY <2>0, <4>1 DEF Arranged, Groups
      <4>2. CASE group' = Arranged(c, {dialog, c})
        BY <2>0, <4>2 DEF Arranged, Groups
      <4> QED
        BY <3>2, <4>1, <4>2 DEF DiagnosticsButton
    <3> QED
      BY <2>2, <3>1, <3>2
  <2>3. ASSUME CloseDialogInternals
        PROVE  group'[d].warning = group[d].warning /\ group'[d].old = group[d].old
    BY <2>0, <2>3 DEF CloseDialogInternals, Arranged, ArrangedWith, Groups
  <2>4. ASSUME NEW c \in Lines, UpdateChannelWidgets(c)
        PROVE  group'[d].old.phase = "TIMEOUT_EXCEEDED"
    <3>1. CASE group'[d] = group[d]
      BY <2>0, <3>1
    <3>2. CASE c = d /\ group'[d] = GroupAfterUpdate(d)
      <4>1. WarningAfterUpdate(d) /\ group'[d].old.phase = table[d].phase
        BY <2>0, <3>2 DEF GroupAfterUpdate, Groups
      <4> QED
        BY <2>0, <4>1 DEF WarningAfterUpdate, Changed, Groups
    <3> QED
      BY <2>0, <2>4, <3>1, <3>2 DEF UpdateChannelWidgets
  <2>5. CASE RemoteTurn
    <3>1. CASE RestoreChannelWidgets
      <4>1. group'[d].warning = group[d].warning /\ group'[d].old = group[d].old
        BY <2>0, <3>1 DEF RestoreChannelWidgets, Arranged, ArrangedWith, Groups
      <4> QED
        BY <2>1, <4>1
    <3>2. CASE UNCHANGED group
      BY <2>0, <3>2
    <3> QED
      BY <2>5, <3>1, <3>2 DEF RemoteTurn
  <2>6. CASE HideChannelWidgets
    BY <2>0, <2>1, <2>6 DEF HideChannelWidgets, Groups
  <2>7. ASSUME NEW c \in Lines, DisplayChannelWidgets(c)
        PROVE  group'[d].old.phase = "TIMEOUT_EXCEEDED"
    BY <2>0, <2>1, <2>7 DEF DisplayChannelWidgets, Groups
  <2>8. CASE UNCHANGED group
    BY <2>0, <2>8
  <2> QED
    BY <2>1, <2>2, <2>3, <2>4, <2>5, <2>6, <2>7, <2>8
    DEF Next, UserActs, HandleMessage, PeripheralTurn, CloseSetPointDialog,
        RemoteComputerControl, UpdateMainApplicationLabel, CloseSetpointDialogIfActive,
        StateChanges, LocalTurn, vars
<1> QED
  BY <1>1, <1>2, TypeCorrectness, PTL DEF Spec

-----------------------------------------------------------------------------
(***************************************************************************)
(* The layout of the window.                                               *)
(***************************************************************************)
\* What each conjunct of Layout' takes when a panel is opened or closed and all
\* groups are arranged for it.
LEMMA ArrangedLayout ==
    ASSUME Layout, group \in [Lines -> Groups], UNCHANGED <<message, link>>,
           inbox'.hide = inbox.hide, ~Disconnected \/ inbox.hide,
           NEW open \in Panels, NEW buttons, NEW continued,
           \/ group' = Arranged(open, continued) /\ dialog' = None
           \/ group' = ArrangedWith(buttons, open, continued) /\ (dialog' # None => buttons = {}),
           \/ dialog' = open /\ diagnostics' = None
           \/ dialog' = None /\ diagnostics' = open,
           blank' = (open = None),
           \A c \in Lines : c \in continued <=> c = open
    PROVE  Layout'
<1>1. ASSUME NEW c \in Lines
      PROVE  /\ group'[c].row = RowUnder(open, c)
             /\ group'[c].bottomLine = (c \notin continued)
             /\ dialog' # None => group'[c].active = {}
  <2>1. CASE group' = Arranged(open, continued) /\ dialog' = None
    BY <1>1, <2>1 DEF Arranged, Groups
  <2>2. CASE /\ group' = ArrangedWith(buttons, open, continued)
             /\ dialog' # None => buttons = {}
    BY <1>1, <2>2 DEF Arranged, ArrangedWith, Groups
  <2> QED
    BY <2>1, <2>2
<1>2. ArrangedForPanel'
  BY <1>1 DEF ArrangedForPanel, RowsOf
<1>3. \A c \in Lines : group'[c].bottomLine = (c # dialog' /\ c # diagnostics')
  BY <1>1 DEF None, Lines
<1>4. ~Disconnected' \/ inbox'.hide
  BY DEF Disconnected, link
<1>5. (message' => Disconnected') /\ (inbox'.hide => Disconnected')
  BY DEF Layout, Disconnected, link
<1> QED
  BY <1>1, <1>2, <1>3, <1>4, <1>5 DEF Layout

LEMMA ClosedLayout ==
    ASSUME Layout, group \in [Lines -> Groups], UNCHANGED <<message, link>>,
           inbox'.hide = inbox.hide, dialog # None, CloseDialogInternals
    PROVE  Layout'
<1>1. diagnostics = None /\ (~Disconnected \/ inbox.hide)
  BY DEF Layout
<1>2. \A c \in Lines : c \in {diagnostics} <=> c = None
  BY <1>1
<1>3. None \in Panels
  BY DEF Panels
<1> QED
  BY <1>1, <1>2, <1>3, ArrangedLayout DEF CloseDialogInternals

LEMMA InitLayout == Init => Layout
<1> SUFFICES ASSUME Init PROVE Layout
  OBVIOUS
<1>1. RowsOf(None)
  BY DEF Init, RowsOf, NewGroup, RowUnder
<1>2. ArrangedForPanel
  BY <1>1 DEF Init, ArrangedForPanel, Panels
<1>3. \A c \in Lines : c # None /\ group[c].bottomLine = TRUE /\ group[c].visible = FALSE
  BY DEF Init, NewGroup, None, Lines
<1>4. inbox.hide = FALSE /\ (~isModbusTcpSlave => inbox.show = {})
  BY DEF Init, NoMessages
<1> QED
  BY <1>2, <1>3, <1>4 DEF Init, Layout, Disconnected

\* Messages that leave the arrangement alone.
LEMMA KeptLayout ==
    ASSUME Layout, UNCHANGED <<dialog, diagnostics, blank, message, link>>,
           \A c \in Lines : /\ group'[c].row = group[c].row
                            /\ group'[c].bottomLine = group[c].bottomLine
                            /\ dialog # None => group'[c].active = {},
           inbox'.hide = inbox.hide,
           \/ ~Disconnected \/ inbox.hide
           \/ /\ inbox'.show \subseteq inbox.show
              /\ \A c \in Lines : group'[c].visible => group[c].visible
    PROVE  Layout'
<1>1. Disconnected' = Disconnected
  BY DEF Disconnected, link
<1>2. ArrangedForPanel'
  BY DEF Layout, ArrangedForPanel, RowsOf
<1> QED
  BY <1>1, <1>2 DEF Layout

\* Every callback, every handler and every turn keeps the layout.
LEMMA StepLayout == TypeOK /\ Layout /\ [Next]_vars => Layout'
<1> SUFFICES ASSUME TypeOK, Layout, [Next]_vars PROVE Layout'
  OBVIOUS
<1>0. group \in [Lines -> Groups] /\ None \in Panels /\ None \notin Lines
  BY DEF TypeOK, Panels, None, Lines
<1>1. ASSUME NEW c \in Lines, ChangeSetPoint(c) PROVE Layout'
  <2>1. ~Disconnected \/ inbox.hide
    BY <1>1 DEF ChangeSetPoint, CanPress, Layout
  <2>2. /\ group' = ArrangedWith({}, c, {c})
        /\ dialog' = c /\ diagnostics' = None /\ blank' = (c = None)
        /\ UNCHANGED <<message, link, inbox>>
    BY <1>0, <1>1 DEF ChangeSetPoint, window
  <2> QED
    BY <1>0, <2>1, <2>2, ArrangedLayout DEF Panels
<1>2. ASSUME NEW c \in Lines, DiagnosticsButton(c) PROVE Layout'
  <2>1. dialog = None /\ (~Disconnected \/ inbox.hide)
    BY <1>2 DEF DiagnosticsButton, CanPress, Layout
  <2>2. dialog' = None /\ UNCHANGED <<message, link, inbox>>
    BY <1>2, <2>1 DEF DiagnosticsButton, window
  <2>3. CASE diagnostics = c
    <3>1. group' = Arranged(None, {dialog}) /\ diagnostics' = None /\ blank' = (None = None)
      BY <1>0, <1>2, <2>3 DEF DiagnosticsButton
    <3>2. \A d \in Lines : d \in {dialog} <=> d = None
      BY <2>1
    <3> QED
      BY <1>0, <2>1, <2>2, <3>1, <3>2, ArrangedLayout
  <2>4. CASE diagnostics # c
    <3>1. group' = Arranged(c, {dialog, c}) /\ diagnostics' = c /\ blank' = (c = None)
      BY <1>0, <1>2, <2>4 DEF DiagnosticsButton
    <3>2. \A d \in Lines : d \in {dialog, c} <=> d = c
      BY <1>0, <2>1
    <3>3. c \in Panels
      BY DEF Panels
    <3> QED
      BY <1>0, <2>1, <2>2, <3>1, <3>2, <3>3, ArrangedLayout
  <2> QED
    BY <2>3, <2>4
<1>3. CASE CloseSetPointDialog
  BY <1>0, <1>3, ClosedLayout DEF CloseSetPointDialog, window
<1>4. CASE RemoteComputerControl
  <2>1. CASE dialog # None
    BY <1>0, <1>4, <2>1, ClosedLayout DEF RemoteComputerControl
  <2>2. CASE dialog = None
    BY <1>4, <2>2, KeptLayout DEF RemoteComputerControl, panels
  <2> QED
    BY <2>1, <2>2
<1>5. CASE UpdateMainApplicationLabel
  <2>1. inbox'.hide = inbox.hide /\ inbox'.show = inbox.show
    BY <1>5 DEF UpdateMainApplicationLabel, TypeOK, Inboxes
  <2> QED
    BY <1>5, <2>1, KeptLayout DEF UpdateMainApplicationLabel, panels, Layout
<1>6. ASSUME NEW c \in Lines, DisplayChannelWidgets(c) PROVE Layout'
  <2>1. inbox'.hide = inbox.hide /\ (~Disconnected \/ inbox.hide)
    BY <1>6 DEF DisplayChannelWidgets, TypeOK, Inboxes, Layout
  <2>2. \A d \in Lines : /\ group'[d].row = group[d].row
                         /\ group'[d].bottomLine = group[d].bottomLine
                         /\ group'[d].active = group[d].active
    BY <1>0, <1>6 DEF DisplayChannelWidgets, Groups
  <2> QED
    BY <1>6, <2>1, <2>2, KeptLayout DEF DisplayChannelWidgets, panels, window, Layout
<1>7. ASSUME NEW c \in Lines, UpdateChannelWidgets(c) PROVE Layout'
  <2>1. inbox'.hide = inbox.hide /\ inbox'.show = inbox.show
    BY <1>7 DEF UpdateChannelWidgets, TypeOK, Inboxes
  <2>2. \A d \in Lines : /\ group'[d].row = group[d].row
                         /\ group'[d].bottomLine = group[d].bottomLine
                         /\ group'[d].visible = group[d].visible
    BY <1>0, <1>7 DEF UpdateChannelWidgets, GroupAfterUpdate, Groups
  <2>3. ASSUME dialog # None, NEW d \in Lines PROVE group'[d].active = {}
    <3>1. group[d].active = {}
      BY <2>3 DEF Layout
    <3>2. CASE group'[d] = group[d]
      BY <3>1, <3>2
    <3>3. CASE group'[d] = GroupAfterUpdate(d)
      <4>1. group'[d].active = ButtonsAfterUpdate(d)
        BY <1>0, <3>3 DEF GroupAfterUpdate, Groups
      <4> QED
        BY <2>3, <3>1, <4>1 DEF ButtonsAfterUpdate, Enabled
    <3> QED
      BY <1>0, <1>7, <3>2, <3>3 DEF UpdateChannelWidgets
  <2> QED
    BY <1>7, <2>1, <2>2, <2>3, KeptLayout DEF UpdateChannelWidgets
<1>8. CASE CloseSetpointDialogIfActive
  <2>1. inbox'.hide = inbox.hide /\ inbox'.show = inbox.show
    BY <1>8 DEF CloseSetpointDialogIfActive, TypeOK, Inboxes
  <2>2. CASE dialog = None
    BY <1>8, <2>1, <2>2, KeptLayout DEF CloseSetpointDialogIfActive, panels, window
  <2>3. CASE dialog # None
    BY <1>0, <1>8, <2>1, <2>3, ClosedLayout DEF CloseSetpointDialogIfActive, window
  <2> QED
    BY <2>2, <2>3
<1>9. CASE HideChannelWidgets
  <2>1. inbox'.hide = FALSE /\ inbox'.show = {} /\ Disconnected
    BY <1>9 DEF HideChannelWidgets, TypeOK, Inboxes, Layout
  <2>2. \A d \in Lines : group'[d].row = group[d].row /\ group'[d].visible = FALSE
    BY <1>0, <1>9 DEF HideChannelWidgets, Groups
  <2>3. dialog' = None /\ diagnostics' = None /\ blank' = FALSE /\ message' = TRUE /\ UNCHANGED link
    BY <1>9 DEF HideChannelWidgets
  <2>4. Disconnected'
    BY <2>1, <2>3 DEF Disconnected, link
  <2>5. ArrangedForPanel'
    BY <2>2, <2>3 DEF Layout, ArrangedForPanel, RowsOf
  <2> QED
    BY <2>1, <2>2, <2>3, <2>4, <2>5 DEF Layout
<1>10. CASE StateChanges
  BY <1>10, KeptLayout DEF StateChanges, panels, window, Layout
<1>11. CASE LocalTurn
  <2>1. ~Disconnected /\ inbox'.hide = inbox.hide
    BY <1>11 DEF LocalTurn, NoMessages, Disconnected
  <2> QED
    BY <1>11, <2>1, KeptLayout DEF LocalTurn, panels, window, Layout
<1>12. CASE RemoteTurn
  <2>1. ~isModbusTcpSlave /\ ~isModbusTcpSlave' /\ inbox.hide = FALSE /\ inbox.show = {}
        /\ inbox'.hide = ~healthy'
    BY <1>12 DEF RemoteTurn, NoMessages
  <2>2. CASE healthy' /\ ~healthy
    <3>1. dialog = None /\ diagnostics = None /\ ~blank /\ ~Disconnected' /\ ~inbox'.hide
      BY <2>1, <2>2 DEF Layout, Disconnected
    <3>2. \A d \in Lines : group'[d].row = RowUnder(None, d)
                           /\ group'[d].bottomLine = (d \notin {dialog, diagnostics})
      <4>1. group' = [c \in Lines |->
                        [ArrangedWith(Buttons, None, {dialog, diagnostics})[c]
                            EXCEPT !.visible = TRUE]]
        BY <1>12, <2>2 DEF RemoteTurn, RestoreChannelWidgets
      <4> QED
        BY <1>0, <4>1 DEF ArrangedWith, Arranged, Groups
    <3>3. message' = FALSE /\ UNCHANGED <<dialog, diagnostics, blank>>
      BY <1>12, <2>2 DEF RemoteTurn, RestoreChannelWidgets, panels
    <3>4. ArrangedForPanel'
      BY <1>0, <3>1, <3>2, <3>3 DEF ArrangedForPanel, RowsOf
    <3> QED
      BY <1>0, <3>1, <3>2, <3>3, <3>4 DEF Layout
  <2>3. CASE ~(healthy' /\ ~healthy)
    <3>1. UNCHANGED <<message, group, dialog, diagnostics, blank>>
      BY <1>12, <2>3 DEF RemoteTurn, panels
    <3>2. ArrangedForPanel'
      BY <3>1 DEF Layout, ArrangedForPanel, RowsOf
    <3>3. Disconnected' <=> inbox'.hide
      BY <2>1 DEF Disconnected
    <3>4. Disconnected => Disconnected'
      BY <1>12, <2>1, <2>3 DEF Disconnected, RemoteTurn
    <3> QED
      BY <3>1, <3>2, <3>3, <3>4 DEF Layout
  <2> QED
    BY <2>2, <2>3
<1>13. CASE UNCHANGED vars
  BY <1>13, KeptLayout DEF vars, panels, window, Layout
<1> QED
  BY <1>1, <1>2, <1>3, <1>4, <1>5, <1>6, <1>7, <1>8, <1>9, <1>10, <1>11, <1>12, <1>13
  DEF Next, UserActs, HandleMessage, PeripheralTurn

LEMMA LayoutHolds == Spec => []Layout
<1> QED
  BY InitLayout, StepLayout, TypeCorrectness, PTL DEF Spec

\* However dialogs and panels are opened, moved and closed, channels hidden and
\* restored: no two groups share a row, no panel covers a group, and the lines
\* between them are drawn where they belong.
THEOREM NoOverlap == Spec => []NothingOverlaps
<1>1. Layout => NothingOverlaps
  <2> SUFFICES ASSUME Layout PROVE NothingOverlaps
    OBVIOUS
  <2>1. PICK open \in Panels :
           /\ RowsOf(open)
           /\ dialog # None => open = dialog
           /\ diagnostics # None => open = diagnostics
           /\ blank => open = None
    BY DEF Layout, ArrangedForPanel
  <2>2. \A c, d \in Lines : c # d => RowUnder(open, c) # RowUnder(open, d)
    BY PanelAssumption DEF RowUnder, Lines, Panels, None
  <2>3. \A c \in Lines : RowUnder(open, c) \notin PanelRows(open)
    BY PanelAssumption DEF RowUnder, Lines, Panels, None, PanelRows
  <2>4. \A c \in Lines : open = None => RowUnder(open, c) \notin {Channels, Channels + 1}
    BY PanelAssumption DEF RowUnder, Lines, None
  <2>5. PanelRows(dialog) \union PanelRows(diagnostics) \subseteq PanelRows(open)
    BY <2>1 DEF PanelRows
  <2>6. \A c \in Lines : group[c].row \notin BlankRows
    BY <2>1, <2>4 DEF RowsOf, BlankRows
  <2>7. blank => PanelRows(dialog) \union PanelRows(diagnostics) = {}
    BY DEF Layout, PanelRows
  <2>8. (PanelRows(dialog) \union PanelRows(diagnostics)) \intersect BlankRows = {}
    BY <2>7 DEF BlankRows
  <2> QED
    BY <2>1, <2>2, <2>3, <2>5, <2>6, <2>8 DEF Layout, NothingOverlaps, RowsOf
<1> QED
  BY <1>1, LayoutHolds, PTL

\* The error message of the remote computer is never shown beside channels or
\* panels (displayTcpConnectionErrorMessageAndHideChannelWidgets,
\* restoreChannelWidgets).
THEOREM ErrorMessageAlone == Spec => []ErrorMessageStandsAlone
<1>1. Layout => ErrorMessageStandsAlone
  BY DEF Layout, ErrorMessageStandsAlone, NoMessages
<1> QED
  BY <1>1, LayoutHolds, PTL
=============================================================================
