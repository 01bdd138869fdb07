----------------------------- MODULE OfflineMap -----------------------------
(***************************************************************************)
(* The map of a reader's run: the prefetch of a route's tiles             *)
(* (mapCache.ts, geo.ts), the service worker that keeps what was fetched   *)
(* (public/sw.js), the routes that answer (tiles, fonts, sprites, style)   *)
(* and the map on the page (RouteMapView.tsx, BaseMap.tsx).                *)
(*                                                                         *)
(* A coordinate is a number of units, 2^GRID of them across the world, y   *)
(* grows southward as tile rows do.  The glyphs and sprites of the style   *)
(* are one asset, Label, and the hashed files of a page are one.  The      *)
(* browser's own HTTP cache is left out: it repeats answers given before.  *)
(* A page with a map opens online only, because the run is fetched first;  *)
(* the signal may go at any moment after that.  The page of a stop, whose  *)
(* map shows two stops and starts no prefetch, is left out.                *)
(***************************************************************************)
EXTENDS Integers, FiniteSets, FiniteSetsExt

CONSTANTS
  GRID,         \* 2^GRID units across the world
  MIN_ZOOM,     \* zooms warmed (13 and 15)
  MAX_ZOOM,
  MAX_TILES,    \* the cap of one warm (900)
  CONCURRENCY,  \* workers of the pool (8)
  MIN_PAD,      \* least padding of a box, in units
  SCREEN,       \* widths of a tile the screen shows
  Routes,       \* sets of located stops, each [lng, lat]
  Corners,      \* corners of the boxes the prefetch is checked on
  MaxPuts,      \* answers being put in the cache at a time
  MaxOpens,     \* how often the page is opened
  MaxFailures,  \* failures of the bucket behind the routes, and of the cache
  MaxRenders    \* renders of the map's page after the first

VARIABLES
  route,     \* the URLs warmed for the run's stops, and those its first view needs
  net,       \* the signal, whether a pack covers the route, failures so far
  worker,    \* the service worker: where it stands and what it controls
  tiles,     \* the cache TILES: what it holds for each URL
  asked,     \* requests on the network
  keeping,   \* answers the worker has given and not put in the cache yet
  warm,      \* the prefetch each opening of the page has started
  map,       \* the map on the page
  opens,
  assured,   \* history: a prefetch of everything the view needs went without a failure
  spoiled    \* history: URLs whose answer was not kept, or gave way to an older one

vars == <<route, net, worker, tiles, asked, keeping, warm, map, opens, assured, spoiled>>

-----------------------------------------------------------------------------
(* geo.ts                                                                  *)

boundsOf(points) ==
  [minLng |-> Min({p.lng : p \in points}), maxLng |-> Max({p.lng : p \in points}),
   minLat |-> Min({p.lat : p \in points}), maxLat |-> Max({p.lat : p \in points})]

\* Pads by a fraction 1/den of the span, and by MIN_PAD at least.
padBBox(b, den) ==
  LET Pad(span) == Max({span \div den, MIN_PAD})
      lng == Pad(b.maxLng - b.minLng)
      lat == Pad(b.maxLat - b.minLat)
  IN  [minLng |-> b.minLng - lng, maxLng |-> b.maxLng + lng,
       minLat |-> Max({0, b.minLat - lat}),
       maxLat |-> Min({2^GRID - 1, b.maxLat + lat})]

\* lngToTileX and latToTileY.
ToTile(c, z) == c \div 2^(GRID - z)

TilesAt(b, z) ==
  LET From(c) == Max({0, ToTile(c, z)})
      To(c)   == Min({2^z - 1, ToTile(c, z)})
  IN  {[z |-> z, x |-> x, y |-> y] :
         x \in From(b.minLng)..To(b.maxLng), y \in From(b.minLat)..To(b.maxLat)}

\* The order of the loops: by zoom, then by column, then by row.
Before(s, t) ==
  \/ s.z < t.z
  \/ s.z = t.z /\ s.x < t.x
  \/ s.z = t.z /\ s.x = t.x /\ s.y < t.y

tilesForBBoxUncapped(b, minZoom, maxZoom, maxTiles) ==
  UNION {TilesAt(b, z) : z \in minZoom..maxZoom}
\* The loop stops at the cap, so the tiles of the lowest zooms are kept.
tilesForBBox(b, minZoom, maxZoom, maxTiles) ==
  LET all == UNION {TilesAt(b, z) : z \in minZoom..maxZoom}
  IN  {t \in all : Cardinality({s \in all : Before(s, t)}) < maxTiles}

-----------------------------------------------------------------------------
(* What is asked for.                                                      *)

Style == [file |-> "style"]
Label == [file |-> "label"]

\* The URLs a warm fetches once it has the style: the labels and the capped
\* tiles of the padded box.
WarmList(stops) ==
  {Label} \cup tilesForBBox(padBBox(boundsOf(stops), 5), MIN_ZOOM, MAX_ZOOM, MAX_TILES)

\* fitBounds: the closest zoom at which the screen shows the padded box.
FitZoom(b) ==
  LET span == Max({b.maxLng - b.minLng, b.maxLat - b.minLat})
  IN  Max({z \in 0..MAX_ZOOM : z = 0 \/ span < SCREEN * 2^(GRID - z)})

\* What the map loads to show the route, besides the style.
Needs(stops) ==
  LET frame == padBBox(boundsOf(stops), 4)
  IN  {Label} \cup TilesAt(frame, FitZoom(frame))

\* The map is made with no view: what it loads first is the tile of the whole world.
WholeWorld == [z |-> 0, x |-> 0, y |-> 0]
First == {Label, WholeWorld}

URLs == {Style} \cup First \cup route.warmed \cup route.needed
IsTile(u) == u \notin {Style, Label}

-----------------------------------------------------------------------------
(* The routes.  `full` is a 200, `vacant` and `failed` are a 204: nothing  *)
(* on record for a tile, and a bucket that could not be read; `refused` is *)
(* the 503 of the other proxies.                                           *)

GetTile(down) == IF ~net.region THEN "vacant" ELSE IF down THEN "failed" ELSE "full"
GetLabel(down) == IF down THEN "refused" ELSE "full"
GetStyle == "full"

Answer(u, down) ==
  IF IsTile(u) THEN GetTile(down) ELSE IF u = Label THEN GetLabel(down) ELSE GetStyle

\* Response.ok is any 2xx: a 204 is kept like a 200.
Ok(answer) == answer \in {"full", "vacant", "failed"}

\* Only a request the worker caught is kept, and after its answer was given.
PutIfOk(q, answer) ==
  keeping' = IF q.caught /\ Ok(answer)
             THEN keeping \cup {[url |-> q.url, answer |-> answer]} ELSE keeping

-----------------------------------------------------------------------------

NoWarm == [at |-> "idle", queue |-> {}, flight |-> {}, good |-> TRUE]
NoMap == [at |-> "closed", left |-> {}, props |-> 0, drawn |-> 0, redraw |-> FALSE]

Openings == 1..MaxOpens

\* Who has asked: the prefetch of an opening, the map, or a page that has gone.
TheMap == 0
Nobody == -1

Init ==
  /\ route \in {[warmed |-> WarmList(stops), needed |-> Needs(stops)] : stops \in Routes}
  /\ net \in [online : {TRUE}, region : BOOLEAN, failures : {0}]
  /\ worker = [at |-> "none", controls |-> FALSE]
  /\ tiles = [u \in URLs |-> "none"]
  /\ asked = {} /\ keeping = {} /\ warm = [n \in Openings |-> NoWarm] /\ map = NoMap
  /\ opens = 0 /\ assured = FALSE /\ spoiled = {}

\* caches.match: an answer held for the URL, if the worker controls the page.
Held(u) == worker.controls /\ tiles[u] # "none"

\* Requests of a client for a set of URLs: the worker answers those it holds,
\* the others go to the network.
Request(client, us) ==
  asked' = asked \cup {[url |-> u, by |-> client, caught |-> worker.controls] : u \in us}

-----------------------------------------------------------------------------
(* The service worker's life.                                              *)

\* The first field page registers it; a later visit finds a newer one.
Register ==
  /\ net.online
  /\ worker.at # "installing"
  /\ worker' = [worker EXCEPT !.at = "installing"]
  /\ UNCHANGED <<route, net, tiles, asked, warm, map, opens, assured, keeping, spoiled>>

\* KEEP names the caches that outlive a version of the worker, the tiles among
\* them.
KeptUnlessRenamed(cache) == [u \in DOMAIN cache |-> "none"]
KeptTiles(cache) == cache

\* install and, after skipWaiting, activate: the caches not in KEEP go and open
\* pages are claimed.  Without a signal a page of the shell fails and so does the rest.
Install ==
  /\ worker.at = "installing"
  /\ IF net.online
     THEN /\ worker' = [worker EXCEPT !.at = "active", !.controls = TRUE]
          /\ tiles' = KeptTiles(tiles)
     ELSE /\ worker' = [worker EXCEPT !.at = IF worker.controls THEN "active" ELSE "none"]
          /\ UNCHANGED tiles
  /\ UNCHANGED <<route, net, asked, warm, map, opens, assured, keeping, spoiled>>

-----------------------------------------------------------------------------
(* A page with the map, and the prefetch it starts.                        *)

\* The run has arrived: the map mounts and a prefetch starts with the style,
\* whatever became of the one before.
Open ==
  /\ map.at = "closed" /\ net.online /\ opens < MaxOpens
  /\ opens' = opens + 1
  /\ map' = [NoMap EXCEPT !.at = "importing"]
  /\ IF Held(Style)
     THEN /\ warm' = [warm EXCEPT ![opens + 1] =
                                  [NoWarm EXCEPT !.at = "fetching", !.queue = route.warmed]]
          /\ UNCHANGED asked
     ELSE /\ warm' = [warm EXCEPT ![opens + 1] = [NoWarm EXCEPT !.at = "style"]]
          /\ Request(opens + 1, {Style})
  /\ UNCHANGED <<route, net, worker, tiles, keeping, assured, spoiled>>

\* pooled: a free worker takes the next URL, labels first and then the tiles in
\* the order they were listed; it may be held already.
IsNext(u, queue) ==
  u = Label \/ (Label \notin queue /\ \A t \in queue \ {u} : Before(u, t))

Take(w, u) ==
  IF Held(u) THEN [w EXCEPT !.queue = @ \ {u}, !.good = (@ /\ tiles[u] = "full")]
  ELSE [w EXCEPT !.queue = @ \ {u}, !.flight = @ \cup {u}]

WarmTake ==
  \E n \in Openings :
    /\ warm[n].at = "fetching" /\ Cardinality(warm[n].flight) < CONCURRENCY
    /\ \E u \in {v \in warm[n].queue : IsNext(v, warm[n].queue)} :
         /\ warm' = [warm EXCEPT ![n] = Take(@, u)]
         /\ Request(n, IF Held(u) THEN {} ELSE {u})
    /\ UNCHANGED <<route, net, worker, tiles, keeping, map, opens, assured, spoiled>>

\* Everything has been tried.
WarmEnds ==
  \E n \in Openings :
    /\ warm[n].at = "fetching" /\ warm[n].queue = {} /\ warm[n].flight = {}
    /\ warm' = [warm EXCEPT ![n] = NoWarm]
    /\ assured' = (assured \/ (warm[n].good /\ route.needed \subseteq route.warmed))
    /\ UNCHANGED <<route, net, worker, tiles, asked, keeping, map, opens, spoiled>>

\* The prefetch goes on with the answer: without the style there are no
\* templates and it ends; a URL that fails is passed over.
Onward(w, q, answer) ==
  CASE w.at = "style" /\ q.url = Style ->
         IF answer = "full"
         THEN [NoWarm EXCEPT !.at = "fetching", !.queue = route.warmed, !.good = q.caught]
         ELSE NoWarm
    [] w.at = "fetching" /\ q.url \in w.flight ->
         [w EXCEPT !.flight = @ \ {q.url}, !.good = (@ /\ q.caught /\ answer = "full")]
    [] OTHER -> w
WarmAfter(q, answer) ==
  warm' = IF q.by \in Openings THEN [warm EXCEPT ![q.by] = Onward(@, q, answer)] ELSE warm

-----------------------------------------------------------------------------
(* BaseMap.                                                                *)

Fallback == [NoMap EXCEPT !.at = "fallback"]

\* The map library has been imported, or could not be; the style is next.
Imported ==
  /\ map.at = "importing"
  /\ \/ /\ net.online
        /\ map' = [map EXCEPT !.at = "styling",
                              !.left = IF Held(Style) THEN {} ELSE {Style}]
        /\ Request(TheMap, IF Held(Style) THEN {} ELSE {Style})
     \/ map' = Fallback /\ UNCHANGED asked
  /\ UNCHANGED <<route, net, worker, tiles, warm, opens, assured, keeping, spoiled>>

\* With the style, the tile of the world and the labels are requested.
Styled ==
  /\ map.at = "styling" /\ map.left = {}
  /\ LET missing == {u \in First : ~Held(u)}
     IN  /\ map' = [map EXCEPT !.at = "loading", !.left = missing]
         /\ Request(TheMap, missing)
  /\ UNCHANGED <<route, net, worker, tiles, warm, opens, assured, keeping, spoiled>>

\* `load` draws the overlay with what the effect closed over at mount, render 0,
\* and moves to the route, whose tiles are requested.
Load ==
  /\ map.at = "loading" /\ map.left = {}
  /\ LET missing == {u \in route.needed : ~Held(u)}
     IN  /\ map' = [map EXCEPT !.at = "ready", !.drawn = 0]
         /\ Request(TheMap, missing)
  /\ UNCHANGED <<route, net, worker, tiles, warm, opens, assured, keeping, spoiled>>

\* An error before `load` hands over to the plot, one after it is ignored: a tile
\* that fails then stays blank.
ErrorIgnored == map
OnError == IF map.at \in {"styling", "loading"} THEN Fallback ELSE map

MapAfter(q, answer) ==
  map' = IF q.by # TheMap \/ q.url \notin map.left THEN map
         ELSE IF Ok(answer) THEN [map EXCEPT !.left = @ \ {q.url}]
         ELSE OnError

\* The page renders again with other stops or another current stop; the effect
\* returns early while the map is not ready.
RedrawWhen(at) == at = "ready"
Render ==
  /\ map.at \notin {"closed", "fallback"} /\ map.props < MaxRenders
  /\ map' = [map EXCEPT !.props = @ + 1, !.redraw = RedrawWhen(map.at)]
  /\ UNCHANGED <<route, net, worker, tiles, asked, warm, opens, assured, keeping, spoiled>>

\* The redraw, after its own import of the library.
Redraw ==
  /\ map.at = "ready" /\ map.redraw
  /\ map' = [map EXCEPT !.redraw = FALSE, !.drawn = map.props]
  /\ UNCHANGED <<route, net, worker, tiles, asked, warm, opens, assured, keeping, spoiled>>

\* The graphics context is taken away: the plot again.
ContextLost ==
  /\ map.at \in {"styling", "loading", "ready"}
  /\ map' = Fallback
  /\ UNCHANGED <<route, net, worker, tiles, asked, warm, opens, assured, keeping, spoiled>>

\* Nobody hears the answers of a request any more; if the worker has caught it, it
\* still keeps them.
Unheard(gone) ==
  asked' = (asked \ gone) \cup {[q EXCEPT !.by = Nobody] : q \in {r \in gone : r.caught}}

\* Another page of the app opens.  The prefetch goes on.
Leave ==
  /\ map.at # "closed"
  /\ map' = NoMap
  /\ Unheard({q \in asked : q.by = TheMap})
  /\ UNCHANGED <<route, net, worker, tiles, warm, opens, assured, keeping, spoiled>>

\* The app is closed.
Quit ==
  /\ map.at # "closed" \/ \E n \in Openings : warm[n] # NoWarm
  /\ map' = NoMap /\ warm' = [n \in Openings |-> NoWarm]
  /\ Unheard({q \in asked : q.by # Nobody})
  /\ UNCHANGED <<route, net, worker, tiles, opens, assured, keeping, spoiled>>

-----------------------------------------------------------------------------
(* Answers and the world.                                                  *)

\* A route answers; the bucket behind it may fail.
Answered ==
  \E q \in asked, down \in BOOLEAN :
    LET answer == Answer(q.url, down)
    IN  /\ net.online /\ Cardinality(keeping) < MaxPuts
        /\ down => net.failures < MaxFailures /\ q.url # Style
        /\ net' = [net EXCEPT !.failures = @ + (IF down THEN 1 ELSE 0)]
        /\ asked' = asked \ {q}
        /\ PutIfOk(q, answer) /\ WarmAfter(q, answer) /\ MapAfter(q, answer)
        /\ UNCHANGED <<route, worker, tiles, opens, assured, spoiled>>

\* An answer is in the cache, whatever is there.
Kept ==
  \E p \in keeping :
    /\ keeping' = keeping \ {p}
    /\ tiles' = [tiles EXCEPT ![p.url] = p.answer]
    /\ spoiled' = IF p.answer = "vacant" /\ net.region THEN spoiled \cup {p.url} ELSE spoiled
    /\ UNCHANGED <<route, net, worker, asked, warm, map, opens, assured>>

\* The device is full, or the worker is stopped, which nothing waits for.
NotKept ==
  \E p \in keeping :
    /\ net.failures < MaxFailures /\ net' = [net EXCEPT !.failures = @ + 1]
    /\ keeping' = keeping \ {p} /\ spoiled' = spoiled \cup {p.url}
    /\ UNCHANGED <<route, worker, tiles, asked, warm, map, opens, assured>>

\* Without a signal a request fails.
Lost ==
  \E q \in asked :
    /\ ~net.online
    /\ asked' = asked \ {q}
    /\ WarmAfter(q, "none") /\ MapAfter(q, "none")
    /\ UNCHANGED <<route, net, worker, tiles, opens, assured, keeping, spoiled>>

Signal ==
  /\ net' = [net EXCEPT !.online = ~@]
  /\ UNCHANGED <<route, worker, tiles, asked, warm, map, opens, assured, keeping, spoiled>>

\* A pack that covers the route is published.
Publish ==
  /\ ~net.region
  /\ net' = [net EXCEPT !.region = TRUE]
  /\ UNCHANGED <<route, worker, tiles, asked, warm, map, opens, assured, keeping, spoiled>>

Next ==
  \/ Register \/ Install
  \/ Open \/ WarmTake \/ WarmEnds
  \/ Imported \/ Styled \/ Load \/ Render \/ Redraw \/ ContextLost \/ Leave \/ Quit
  \/ Answered \/ Kept \/ NotKept \/ Lost \/ Signal \/ Publish

\* Requests are answered or fail, a put ends, and a map that comes up goes on.
Fairness ==
  WF_vars(Answered \/ Lost) /\ WF_vars(Kept \/ NotKept) /\ WF_vars(Imported \/ Styled \/ Load)

Spec == Init /\ [][Next]_vars /\ Fairness

-----------------------------------------------------------------------------
(* Properties.                                                             *)

TypeOK ==
  /\ tiles \in [URLs -> {"none", "full", "vacant", "failed"}]
  /\ asked \subseteq [url : URLs, by : {Nobody, TheMap} \cup Openings, caught : BOOLEAN]
  /\ keeping \subseteq [url : URLs, answer : {"full", "vacant", "failed"}]
  /\ \A n \in Openings :
       /\ warm[n].queue \cup warm[n].flight \subseteq route.warmed
       /\ Cardinality(warm[n].flight) <= CONCURRENCY
  /\ Cardinality(route.warmed) <= MAX_TILES + 1
  /\ map.left \subseteq URLs

\* The URL is on the device, if only as the empty tile of a failing bucket.
Drawable(u) == tiles[u] \in {"full", "failed"}

\* Once a prefetch has ended without a failure under the worker's control, what the
\* view of the route needs, if it lies within what is prefetched, is on the device or
\* on its way into the cache, and stays there across later openings, failing buckets
\* and new versions of the worker (sw.js:13-15, mapCache.ts:7-11), unless its own put
\* was lost or an empty answer from before its pack was published was put after it.
PrefetchIsKept ==
  assured => \A u \in ({Style} \cup route.needed) \ spoiled :
    Drawable(u) \/ \E p \in keeping : p.url = u /\ p.answer # "vacant"

\* "Losing signal mid-route leaves the map intact" (ADR-022, 30-34).
\* Refuted: the map asks for the tile of the world before it shows the route, which no
\* prefetch lists; and the prefetch does not learn of a put that is lost.
OfflineDraws ==
  assured /\ worker.controls => \A u \in {Style} \cup First \cup route.needed : Held(u)

FromAbove(list) ==
  \A t \in list : t.z > MIN_ZOOM => [z |-> t.z - 1, x |-> t.x \div 2, y |-> t.y \div 2] \in list

\* The cap never costs a zoom that was there: in the list of this route the tile
\* above each tile is listed too, so what is missing is drawn from above
\* (mapCache.ts:27-31).
WarmedFromAbove == FromAbove(route.warmed \ {Label})

\* The same for every box and every cap.
EveryBoxFromAbove ==
  \A a, b \in Corners, cap \in 1..4 * MAX_TILES :
    FromAbove(tilesForBBox(padBBox(boundsOf({a, b}), 5), MIN_ZOOM, MAX_ZOOM, cap))

\* A map that is opened comes up or gives way to the plot (BaseMap.tsx:9-15).
MapSettles ==
  map.at \in {"importing", "styling", "loading"} ~> map.at \in {"ready", "fallback", "closed"}

\* A transient failure is not cached, "so the next request retries against
\* origin" (tiles route, 125-126).
FailuresNotKept == \A u \in URLs : tiles[u] # "failed"

\* New coverage appears on its own (tiles route, 48-52): what is kept as empty
\* is empty.
CoverageAppears == net.region => \A u \in URLs : tiles[u] # "vacant"

\* The map shows the stops as the page last rendered them: "redraw overlay when
\* the route or selection changes" (BaseMap.tsx:161).
OverlayFollows == map.at = "ready" /\ ~map.redraw => map.drawn = map.props
=============================================================================
