------------------------------ MODULE MCScenes ------------------------------
(***************************************************************************)
(* Several instances of the match lifecycle in one run.  A scene is what   *)
(* the users own and which of them edit, delete, move and ban what; it     *)
(* leaves out some steps of the specification and adds none.               *)
(***************************************************************************)
EXTENDS MCTrade

CONSTANT Scenes
VARIABLE scene

StockOf(x) ==
    CASE x = "bargain" -> SwapStockOfTwo
      [] x = "rivals" -> RivalStock
      [] x = "retire" -> ThirdItemStock
      [] OTHER -> SwapStock
SceneStocks == {StockOf(x) : x \in Scenes}

\* Who edits, deletes, moves and bans what.
May ==
    CASE scene = "bargain" ->
           [edit |-> BothTrades, delete |-> {}, move |-> {}, ban |-> {}, qty |-> 2]
      [] scene = "upkeep" ->
           [edit |-> {}, delete |-> {a}, move |-> {a}, ban |-> {u1}, qty |-> 1]
      [] scene = "rivals" ->
           [edit |-> TradeOfA, delete |-> {b}, move |-> {}, ban |-> {u2}, qty |-> 1]
      [] OTHER ->
           [edit |-> {}, delete |-> {c}, move |-> {}, ban |-> {}, qty |-> 1]

InScene ==
    /\ \A s \in Sessions : tx'[s] # tx[s] =>
        /\ tx'[s].op = "edit" => tx'[s].row \in May.edit
        /\ tx'[s].op = "delete" => tx'[s].merch \in May.delete
        /\ tx'[s].op = "offer" =>
             \A l \in DOMAIN tx'[s].items : tx'[s].items[l] <= May.qty
    /\ \A m \in Merch \ May.move : group'[m] = group[m]
    /\ \A u \in Users \ May.ban : u \in banned' <=> u \in banned

SceneInit == Init /\ scene \in Scenes /\ inv = StockOf(scene)
SceneNext == Next /\ InScene /\ UNCHANGED scene
SceneSpec == SceneInit /\ [][SceneNext]_<<vars, scene>>
SerialSceneSpec == SceneInit /\ [][SceneNext /\ Alone]_<<vars, scene>>

=============================================================================
