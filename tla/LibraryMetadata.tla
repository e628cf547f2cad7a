-------------------------- MODULE LibraryMetadata --------------------------
(***************************************************************************)
(* What a user remembers about files (src/plugin/LibraryMetadata.cpp):     *)
(* favourites, recent files, bookmarked folders and tags, the two indices  *)
(* kept beside the lists, and the tree a host project stores.  Two paths   *)
(* that differ in case only have one key.  Tags are sets: their order is   *)
(* the user's, and nothing depends on it.                                  *)
(***************************************************************************)
EXTENDS Integers, SequencesExt

CONSTANTS Paths,            \* spellings of paths
          PathKey,          \* the lower-case form of each
          Tags,
          maxRecentItems, maxBookmarkItems

ASSUME MetadataAssumption ==
    /\ DOMAIN PathKey = Paths
    /\ maxRecentItems \in Nat \ {0} /\ maxBookmarkItems \in Nat \ {0}

EmptyMetadata == [favorites |-> <<>>, recents |-> <<>>, bookmarks |-> <<>>,
                  tagged |-> <<>>, ranks |-> <<>>, tagIndices |-> <<>>]

Listed(paths, path) == \E i \in DOMAIN paths : PathKey[paths[i]] = PathKey[path]
Without(paths, path) == SelectSeq(paths, LAMBDA p : PathKey[p] # PathKey[path])
Keys(paths) == {PathKey[paths[i]] : i \in DOMAIN paths}

\* Moves a path to the front of a list of bounded length.
InFront(paths, path, limit) ==
    LET moved == <<path>> \o Without(paths, path)
    IN  SubSeq(moved, 1, IF Len(moved) < limit THEN Len(moved) ELSE limit)

isFavorite(m, path) == Listed(m.favorites, path)

setFavorite(m, path, favorite) ==
    [m EXCEPT !.favorites =
        IF ~favorite THEN Without(@, path)
        ELSE IF isFavorite(m, path) THEN @ ELSE Append(@, path)]

\* The recent list as an index from key to rank, counted from one here.
rebuildRecentRanks(m) ==
    [m EXCEPT !.ranks = [k \in Keys(m.recents) |->
        CHOOSE i \in DOMAIN m.recents : PathKey[m.recents[i]] = k]]

markRecent(m, path) ==
    rebuildRecentRanks([m EXCEPT !.recents = InFront(@, path, maxRecentItems)])

TaggedAt(m, path) == m.tagIndices[PathKey[path]]
IsTagged(m, path) == PathKey[path] \in DOMAIN m.tagIndices

\* rebuildTaggedPathIndices(): the entries from `first' on have moved.
rebuildTaggedPathIndices(m, first) ==
    [m EXCEPT !.tagIndices = [k \in DOMAIN @ |->
        IF \E i \in first .. Len(m.tagged) : PathKey[m.tagged[i].path] = k
        THEN CHOOSE i \in first .. Len(m.tagged) : PathKey[m.tagged[i].path] = k
        ELSE @[k]]]

\* Setting no tags forgets the file.
setTags(m, path, tags) ==
    IF tags = {} /\ IsTagged(m, path)
    THEN LET at == TaggedAt(m, path)
         IN  rebuildTaggedPathIndices(
               [m EXCEPT !.tagged = RemoveAt(@, at),
                         !.tagIndices = [k \in DOMAIN @ \ {PathKey[path]} |-> @[k]]], at)
    ELSE IF tags = {} THEN m
    ELSE IF IsTagged(m, path) THEN [m EXCEPT !.tagged[TaggedAt(m, path)].tags = tags]
    ELSE [m EXCEPT !.tagged = Append(@, [path |-> path, tags |-> tags]),
                   !.tagIndices = [k \in DOMAIN @ \cup {PathKey[path]} |->
                        IF k = PathKey[path] THEN Len(m.tagged) + 1 ELSE @[k]]]

addBookmark(m, path) == [m EXCEPT !.bookmarks = InFront(@, path, maxBookmarkItems)]
removeBookmark(m, path) == [m EXCEPT !.bookmarks = Without(@, path)]

-----------------------------------------------------------------------------
(* The tree: one child for each item, each list in its order.              *)

Children(kind, paths) ==
    [i \in DOMAIN paths |-> [kind |-> kind, path |-> paths[i], tags |-> {}]]

toValueTree(m) ==
    Children("favorite", m.favorites) \o Children("recent", m.recents)
    \o Children("bookmark", m.bookmarks)
    \o [i \in DOMAIN m.tagged |->
          [kind |-> "tagged", path |-> m.tagged[i].path, tags |-> m.tagged[i].tags]]

Adopt(m, child) ==
    CASE child.kind = "favorite" -> setFavorite(m, child.path, TRUE)
      [] child.kind = "tagged" -> setTags(m, child.path, child.tags)
      [] child.kind = "recent" -> markRecent(m, child.path)
      [] child.kind = "bookmark" -> addBookmark(m, child.path)

Of(tree, kinds) == SelectSeq(tree, LAMBDA child : child.kind \in kinds)

\* Each call puts its path in front, so those two lists are replayed from the end.
fromValueTree(tree) ==
    FoldLeft(Adopt, EmptyMetadata,
        Of(tree, {"favorite", "tagged"}) \o Reverse(Of(tree, {"recent"}))
        \o Reverse(Of(tree, {"bookmark"})))
=============================================================================
