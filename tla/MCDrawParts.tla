------------------------------ MODULE MCDrawParts ------------------------------
(***************************************************************************)
(* One run for five parts that share no state: decoding a vector tile, the *)
(* pictures of loops, the geometry of an overlay, the canvas and the frame *)
(* drawn of them.  A behaviour is that of one part while the others stand  *)
(* at one start, so the states of the parts add and do not multiply.       *)
(***************************************************************************)
EXTENDS MCVectorTile, MCFrameDraw, MCLoopPictures, MCShapeGeometry, MCCanvas

VARIABLE part

OneBody  == CHOOSE b \in TileBodies : Opened(b) = ""
OneLimit == CHOOSE l \in TileLimits : TRUE
OneInput == CHOOSE in \in FrameInputs : TRUE

MCDrawPartsInit ==
    /\ part \in {"tile", "loops", "shape", "canvas", "frame"}
    /\ LoopInit /\ ShapeInit /\ CanvasInit
    /\ TileInit
    /\ part # "tile" => decoded = "" /\ layersLeft = OneBody.layers /\ tileLimits = OneLimit
    /\ FrameInit
    /\ part # "frame" => frameGiven.alerts = OneInput.alerts /\ frameGiven.tiles = OneInput.tiles

TileSteps   == part = "tile"   /\ TileNext   /\ UNCHANGED <<frameVars, loopVars, geometryVars, canvasVars>>
FrameSteps  == part = "frame"  /\ FrameNext  /\ UNCHANGED <<tileVars, loopVars, geometryVars, canvasVars>>
LoopSteps   == part = "loops"  /\ LoopNext   /\ UNCHANGED <<tileVars, frameVars, geometryVars, canvasVars>>
ShapeSteps  == part = "shape"  /\ ShapeNext  /\ UNCHANGED <<tileVars, frameVars, loopVars, canvasVars>>
CanvasSteps == part = "canvas" /\ CanvasNext /\ UNCHANGED <<tileVars, frameVars, loopVars, geometryVars>>

MCDrawPartsNext ==
    (TileSteps \/ FrameSteps \/ LoopSteps \/ ShapeSteps \/ CanvasSteps) /\ UNCHANGED part

MCDrawPartsSpec ==
    MCDrawPartsInit
    /\ [][MCDrawPartsNext]_<<part, tileVars, frameVars, loopVars, geometryVars, canvasVars>>

AlikeInDrawing == AlikeLoops \cup AlikeInks
==============================================================================
