----------------------------- MODULE MainView ------------------------------
(***************************************************************************)
(* main_view: the pages of the GUI, the page that is shown, and the ring   *)
(* buffer of visited pages behind the button "Back".  All of it runs on    *)
(* the view thread, one callback after the other.                          *)
(***************************************************************************)
EXTENDS RingBuffer

\* The enumerators of page_index.
Pages == {"schedule_list", "manual_control", "stats", "logs", "actions",
          "configuration", "front"}

\* page_index(i) for the i-th title of the front page, counted from 1.  The
\* titles read "Actions", "Logs" where the enumerators are logs, actions.
ButtonPage == <<"schedule_list", "manual_control", "stats", "logs", "actions">>

ASSUME PagesAssumption == Values = Pages

VARIABLES
  current,   \* m_current_page
  visited,   \* m_visited_pages
  visible    \* the pages whose container is not hidden

vars == <<current, visited, visible>>

-----------------------------------------------------------------------------

\* Mutant of SwitchPage: every page is remembered.
SwitchAndRemember(page, v) ==
  /\ current' = page
  /\ visible' = (visible \ {current}) \cup {page}
  /\ visited' = Put(v, page)

\* switch_page, from a history v: one container is hidden, the other shown,
\* and the page remembered unless it is the last one in the history already.
SwitchPage(page, v) ==
  /\ current' = page
  /\ visible' = (visible \ {current}) \cup {page}
  /\ visited' = IF v.number > 0 /\ LastElement(v) = page THEN v ELSE Put(v, page)

\* create_pages, which ends up on the front page.
Init ==
  /\ current = "front"
  /\ visible = {"front"}
  /\ \E junk \in [Cells -> Pages] : visited = Put(Constructed(<<>>, junk), "front")

\* A button of the front page; it can be pressed while that page is shown.
FrontButton(i) == "front" \in visible /\ SwitchPage(ButtonPage[i], visited)

Home == SwitchPage("front", visited)

Config == SwitchPage("configuration", visited)

\* switch_to_last_page.
Back ==
  /\ visited.number > 1
  /\ LET shorter == RemoveLastElement(visited)
     IN  SwitchPage(LastElement(shorter), shorter)

Next ==
  \/ \E i \in DOMAIN ButtonPage : FrontButton(i)
  \/ Home
  \/ Config
  \/ Back

Spec == Init /\ [][Next]_vars

-----------------------------------------------------------------------------

\* The variables keep to their types.
TypeOK == current \in Pages /\ visited \in Buffers /\ visible \subseteq Pages

\* The page on the screen is the only one, and it is the last one of the
\* history, also after the ring has wrapped and after going back.
ShownIsRemembered == visible = {current} /\ visited.number > 0 /\ LastElement(visited) = current

\* Back always leads to another page: under the last page of the history, and
\* also after the oldest ones were overwritten, there is never that page again.
BackMoves == visited.number > 1 => LastElement(RemoveLastElement(visited)) # current

\* The ring buffer serves the view as a bounded history: whatever the user
\* presses, no entry is lost but the oldest ones, and none comes back.
Remembered == INSTANCE BoundedHistory WITH entries <- Contents(visited)

KeepsHistory == Remembered!Spec

=============================================================================
