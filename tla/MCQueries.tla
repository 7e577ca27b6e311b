------------------------------ MODULE MCQueries ------------------------------
(* Instances for Queries: a blog of users, posts and comments. *)
EXTENDS Queries

Col(c) == [k |-> "col", name |-> c]
ArgOf(x) == [k |-> "arg", name |-> x]
Literal == [k |-> "literal"]
Of(k, es) == [k |-> k, of |-> es]
Cell(c) == [k |-> "none", name |-> c, generated |-> TRUE]
Default == [k |-> "none", name |-> "d", generated |-> FALSE]
Is(e, v) == Of("filter", <<e, v>>)

From(items, where) ==
  [k |-> "select", ctes |-> <<>>, items |-> items, joins |-> <<>>, where |-> where,
   groupBy |-> <<>>, having |-> <<>>, order |-> <<>>, limit |-> <<>>, offset |-> <<>>]
Insert(rows) == [k |-> "insert", ctes |-> <<>>, rows |-> rows, set |-> <<>>, where |-> <<>>,
                 returning |-> <<>>]
Update(set, where) == [k |-> "update", ctes |-> <<>>, set |-> set, updateFns |-> <<Cell("u")>>,
                       where |-> where, returning |-> <<>>]
Delete(where) == [k |-> "delete", ctes |-> <<>>, where |-> where, returning |-> <<>>]

Inner(v) == [k |-> "sub", query |-> From(<<Col("i")>>, <<Is(Col("i"), v)>>)]

\* x below everything that can hold it, y before or after it.
OneQuery ==
  {From(<<Col("a")>>, <<Is(Col("a"), v)>>) : v \in {Of("fn", <<ArgOf("y"), ArgOf("x")>>), Inner(ArgOf("y"))}}
  \cup {Insert(<< <<v, Cell("g")>>, <<w, Cell("g")>> >>) :
          v \in {ArgOf("x"), Default}, w \in {ArgOf("x"), ArgOf("y")}}
  \cup {Update(<<ArgOf("y")>>, <<Is(Col("a"), ArgOf("x"))>>), Delete(<<Is(Inner(ArgOf("x")), ArgOf("y"))>>)}

Prepared ==
  OneQuery
  \cup {[From(<<Of("fn", <<Col("a"), ArgOf("x")>>), Of("agg", <<Col("b")>>)>>, <<>>)
          EXCEPT !.ctes = <<s>>, !.having = <<Is(Of("agg", <<Col("a")>>), ArgOf("y"))>>,
                 !.joins = <<Is(Col("a"), ArgOf("y"))>>, !.order = <<Col("a")>>,
                 !.limit = <<ArgOf("x")>>, !.offset = <<ArgOf("y")>>] :
          s \in {e \in OneQuery : e.k # "insert"}}
  \cup {[Insert(<< <<ArgOf("y"), Cell("g")>> >>)
          EXCEPT !.ctes = <<s>>, !.set = <<ArgOf("x")>>, !.where = <<Is(Col("a"), ArgOf("y"))>>,
                 !.returning = <<Of("fn", <<ArgOf("x"), Literal>>)>>] :
          s \in {e \in OneQuery : e.k \in {"update", "insert"}}}
MCPreparable == {WithLeaves(s) : s \in Prepared}

MCNames == <<"x", "y">>
MCGiven == [{"x", "y"} -> Args]

Operands == {Col("a"), Col("b"), Literal}
Scalars == Operands \cup {Of("fn", <<Col("a")>>), Of("fn", <<Col("b"), Literal>>)}
Conditions == {Is(l, r) : l \in {Col("a"), Of("fn", <<Col("a")>>)}, r \in {Literal, Col("b")}}
Items ==
  Scalars
  \cup {Of("agg", <<Col("a")>>), Of("win", <<Col("a")>>), Of("sql", <<Col("a")>>),
        Of("fn", <<Of("agg", <<Col("a")>>), Literal>>), Of("fn", <<Of("agg", <<Col("a")>>), Col("b")>>),
        Inner(Literal), Inner(Col("a")), Of("in", <<Col("a"), Literal>>),
        Of("in", <<Col("a"), Inner(Col("b"))>>)}
  \cup {Of("object", <<l, r>>) : l, r \in Scalars \cup {Inner(Literal), Of("in", <<Col("b"), Literal>>),
                                                       Of("object", <<Col("b")>>)}}
  \cup {Of("case", <<c, l, r>>) : c \in Conditions, l \in Scalars,
                                  r \in {Literal, Of("object", <<Col("a")>>)}}
MCSelections == {From(s, <<>>) : s \in {<<Of("agg", <<Col("b")>>)>> \o t : t \in SeqOf(Items, 2)}
                                         \cup SeqOf(Items, 1)}

------------------------------------------------------------------------------
MCColumns == [users |-> {"id", "boss"}, posts |-> {"id", "author", "score"},
              comments |-> {"id", "post", "by"}]
MCRelationsOf ==
  [users |-> [posts |-> [t |-> "Many", table |-> "posts", col |-> "author", ref |-> "id"],
              team |-> [t |-> "Many", table |-> "users", col |-> "boss", ref |-> "id"],
              lead |-> [t |-> "Fk", table |-> "users", col |-> "boss", ref |-> "id"],
              first |-> [t |-> "One", table |-> "posts", col |-> "author", ref |-> "id"],
              users |-> [t |-> "Many", table |-> "users", col |-> "boss", ref |-> "id"]],
   posts |-> [writer |-> [t |-> "Fk", table |-> "users", col |-> "author", ref |-> "id"],
              comments |-> [t |-> "Many", table |-> "comments", col |-> "post", ref |-> "id"],
              score |-> [t |-> "Many", table |-> "comments", col |-> "post", ref |-> "id"]],
   comments |-> [on |-> [t |-> "Fk", table |-> "posts", col |-> "post", ref |-> "id"]]]

MCDatabases == {[users |-> {[id |-> i, boss |-> b[i]] : i \in 1 .. 3},
                 posts |-> {[id |-> i, author |-> w[i], score |-> 4 - i] : i \in 1 .. 3},
                 comments |-> {[id |-> i, post |-> i % 3, by |-> 1 + (i % 2)] : i \in 1 .. 4}] :
                b \in {<<0, 1, 1>>, <<2, 3, 0>>}, w \in {<<1, 1, 2>>, <<3, 0, 3>>}}

Ask(table, c, v) == [k |-> "is", table |-> table, col |-> c, value |-> v]
Having(table, outer, from, c) ==
  [k |-> "exists", table |-> table, outer |-> outer, from |-> from, col |-> c]

\* Options without relations, by table; then with relations one and two deep.
Flat(table, col, filters) ==
  {[AllColumns EXCEPT !.columns = cs, !.where = w] :
     cs \in {<<>>, <<<<col, TRUE>>>>, <<<<col, FALSE>>>>}, w \in {<<>>} \cup {<<f>> : f \in filters}}
  \cup {[AllColumns EXCEPT !.select = <<<<"name", col>>, <<col, "id">>>>],
        [AllColumns EXCEPT !.select = <<<<"posts", col>>>>, !.columns = <<<<col, TRUE>>>>],
        [AllColumns EXCEPT !.orderBy = <<<<col, "desc">>>>, !.limit = <<1>>],
        [AllColumns EXCEPT !.orderBy = <<<<col, "asc">>>>, !.limit = <<2>>, !.offset = 1]}
UserOptions == Flat("users", "boss", {Ask("users", "boss", 1), Having("users", "id", "posts", "author")})
PostOptions == Flat("posts", "score", {Ask("posts", "author", 1), Having("posts", "id", "comments", "post")})
CommentOptions == Flat("comments", "by", {Ask("comments", "by", 1)})

With(o, k, below) == [o EXCEPT !.with = (k :> below)]
\* A relation to one object takes columns, select and with only.
One(options) == {o \in options : [o EXCEPT !.columns = <<>>, !.select = <<>>, !.with = <<>>] = AllColumns}
PostTrees == PostOptions
  \cup {With(o, k, c) : o \in {AllColumns, [AllColumns EXCEPT !.columns = <<<<"id", TRUE>>>>]},
                        k \in {"comments", "score"}, c \in CommentOptions}
  \cup {With(AllColumns, "writer", u) : u \in One(UserOptions)}
UserTrees == UserOptions
  \cup {With(o, "posts", p) : o \in UserOptions, p \in PostTrees}
  \cup {With(AllColumns, k, u) : k \in {"team", "users"}, u \in UserOptions}
  \cup {With(AllColumns, k, With(AllColumns, "team", u)) : k \in {"team", "lead"}, u \in UserOptions}
  \cup {With(AllColumns, k, With(AllColumns, "lead", u)) : k \in {"team", "lead"}, u \in One(UserOptions)}
  \cup {With(AllColumns, "first", p) : p \in One(PostTrees)}
  \cup {[AllColumns EXCEPT !.with = [posts |-> p, team |-> u]] : p \in PostOptions, u \in UserOptions}
MCFindable == {<<"users", o>> : o \in UserTrees}
  \cup {<<"posts", o>> : o \in PostTrees}
  \cup {<<"comments", With(o, "on", p)>> : o \in CommentOptions, p \in One(PostTrees)}
==============================================================================
