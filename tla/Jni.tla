-------------------------------- MODULE Jni --------------------------------
(* The functions that native code calls (jni_native.c) and the references   *)
(* they give it (native_ref.c).  A reference is a slot of a frame; a frame  *)
(* has a word of flags that tells which slots are in use.  A thread has a   *)
(* list of frames of local references, the VM one of global references.     *)
(*                                                                          *)
(* One thread is in native code, which keeps to the rules of JNI: it uses   *)
(* references it has, and calls few functions while an exception is         *)
(* pending.  Another thread makes and deletes global references.  What a    *)
(* function does to Java objects is left out; how it may fail is not.       *)
EXTENDS Naturals, Sequences, SequencesExt, FiniteSetsExt

CONSTANTS
  Objects,        \* Java objects
  Result,         \* the one that functions return
  NoRef,          \* NULL
  NoExc,          \* no exception is pending
  RefsPerFrame,   \* _JC_NATIVE_REFS_PER_FRAME
  MinRefs,        \* _JC_NATIVE_REFS_MIN_PER_FRAME
  Capacities,     \* the arguments of PushLocalFrame() and EnsureLocalCapacity()
  NotCalled,      \* the functions that native code does not call
  MaxFrames,      \* bound: the local frames
  MaxGlobals,     \* bound: the global frames
  MaxScopes,      \* bound: native methods and pushed local frames
  MaxRefs         \* bound: the references that native code and the other thread have

References == [at : {"local", "global"} \X Nat \X Nat, obj : Objects]
Posted == {"Argument", "Linkage", "OutOfMemory", "Internal", "Thrown"}

JniAssumption ==
  /\ Result \in Objects /\ Objects # {Result}
  /\ RefsPerFrame \in Nat \ {0} /\ MinRefs \in Nat /\ MinRefs < RefsPerFrame
  /\ Capacities \subseteq Nat
  /\ NoRef \notin Objects \cup References /\ NoExc \notin Posted

VARIABLES
  frames,     \* env->native_locals, bottom first
  globals,    \* vm->native_globals, oldest first
  exc,        \* env->head.pending
  refs,       \* the references that functions have made for native code
  lost,       \* those of them that it was not given
  scopes,     \* the native methods and pushed local frames it is in
  code,       \* what is left of the function that native code called, when it calls others
  temps,      \* that function's C variables
  own,        \* the references it has
  theirs,     \* the other thread's global references
  update,     \* a word of flags the other thread has read and is about to write
  raced       \* whether native code has changed such a word: the history of the two

jnivars == <<frames, globals, exc, refs, lost, scopes, code, temps, own, theirs, update, raced>>

-----------------------------------------------------------------------------
(* Frames and references *)

Frame(extension) ==
  [extension |-> extension, used |-> {}, refs |-> [i \in 1 .. RefsPerFrame |-> NoRef]]

Ref(list, n, i, o) == [at |-> <<list, n, i>>, obj |-> o]
Free(f) == (1 .. RefsPerFrame) \ f.used
Taken(f, i, o) == [f EXCEPT !.used = @ \cup {i}, !.refs[i] = o]
Freed(f, i) == [f EXCEPT !.used = @ \ {i}, !.refs[i] = NoRef]

\* The top frame, and those below it as long as the one above is an extension.
Searched(fs) == {n \in DOMAIN fs : \A k \in n + 1 .. Len(fs) : fs[k].extension}

\* The outcome of a function on local frames: the frames, and a reference or NoRef.
Outcome(fs, ref) == [frames |-> fs, ref |-> ref]

\* When there is no room, an InternalError has to be posted.
NewLocal(fs, o) ==
  LET room == {n \in Searched(fs) : Free(fs[n]) # {}}
      n == Max(room)
      i == Min(Free(fs[n]))
  IN  IF o = NoRef \/ room = {} THEN Outcome(fs, NoRef)
      ELSE Outcome([fs EXCEPT ![n] = Taken(@, i, o)], Ref("local", n, i, o))

Full(fs, o) == o # NoRef /\ NewLocal(fs, o).ref = NoRef

FreeRef(fs, ref) == [fs EXCEPT ![ref.at[2]] = Freed(@, ref.at[3])]

\* The frames that hold n more references, as extensions of the top frame.
Extended(fs, n) ==
  fs \o [k \in 1 .. ((n + RefsPerFrame - 1) \div RefsPerFrame) |-> Frame(TRUE)]

Pushed(fs, n) ==
  LET refsWanted == IF n = 0 THEN RefsPerFrame ELSE n
  IN  Extended(Append(fs, Frame(FALSE)), IF refsWanted > RefsPerFrame THEN refsWanted - RefsPerFrame ELSE 0)

\* Mutant: the extensions of the top frame are not looked for.
PopTop(fs, o) == NewLocal(Front(fs), o)

\* The top frame goes with its extensions; o gets a reference in the one below.
Pop(fs, o) == NewLocal(SubSeq(fs, 1, Min(Searched(fs)) - 1), o)

-----------------------------------------------------------------------------
(* The functions that work in a frame of their own on the C stack, or in    *)
(* none: the exceptions they post, and whether they return an object.       *)
(* "Argument" is a NullPointerException or one about an index or a monitor, *)
(* "Linkage" a LinkageError, "Internal" an InternalError, "Thrown" what     *)
(* Java code threw.                                                         *)

Returns(result, posts) == [result |-> result, posts |-> posts]
Void(posts) == Returns("none", posts)
Object(posts) == Returns("object", posts)
\* The object may be null.
Value(posts) == Returns("value", posts)
\* A method's result, which may be null.  It is taken from env->retval even when the
\* call failed: there may still be what an earlier call has left.
Called(posts) == Returns("retval", posts)

InstanceFields ==
  [GetObjectField |-> Value({"Argument"}), GetIntField |-> Void({"Argument"}),
   SetObjectField |-> Void({"Argument"}), SetIntField |-> Void({"Argument"})]

StaticFields ==
  [GetStaticObjectField |-> Value({}), GetStaticIntField |-> Void({}), SetStaticIntField |-> Void({})]

CallsNonvirtual ==
  [CallNonvirtualVoidMethod |-> Void({"Thrown", "Argument", "OutOfMemory"}),
   CallNonvirtualObjectMethod |-> Called({"Thrown", "Argument", "OutOfMemory"})]

CallsVirtual ==
  [CallIntMethod |-> Void({"Thrown", "Argument", "OutOfMemory"}),
   CallObjectMethod |-> Called({"Thrown", "Argument", "OutOfMemory"})]

CallsStatic ==
  [CallStaticIntMethod |-> Void({"Thrown", "OutOfMemory"}),
   CallStaticObjectMethod |-> Called({"Thrown", "OutOfMemory"})]

\* Both initialize the class.
IDs == [GetFieldID |-> Void({"Thrown", "Linkage"}), GetMethodID |-> Void({"Thrown", "Linkage"})]

ObjectClasses == [GetObjectClass |-> Object({"Argument"})]

ObjectArrays == [GetObjectArrayElement |-> Value({"Argument"}), SetObjectArrayElement |-> Void({"Argument"})]

ArrayRegions == [GetCharArrayRegion |-> Void({"Argument"}), SetCharArrayRegion |-> Void({"Argument"})]

\* A class is loaded, and initialized when it is found but not when it is defined.
Classes ==
  [FindClass |-> Object({"Thrown", "OutOfMemory"}),
   DefineClass |-> Object({"Argument", "Linkage", "OutOfMemory"})]

ClassRelations ==
  [GetSuperclass |-> Value({}), IsAssignableFrom |-> Void({"Argument", "OutOfMemory"}),
   IsInstanceOf |-> Void({"Argument", "OutOfMemory"})]

Throws == [Throw |-> Returns("throws", {"Thrown"})]

Allocation == [AllocObject |-> Object({"OutOfMemory", "Thrown"})]

StringChars ==
  [GetStringChars |-> Void({"Argument", "OutOfMemory"}),
   GetStringUTFRegion |-> Void({"Argument", "OutOfMemory"}),
   GetStringUTFChars |-> Void({"Argument", "OutOfMemory"})]

NewArrays ==
  [NewStringUTF |-> Object({"OutOfMemory", "Thrown"}),
   NewObjectArray |-> Object({"OutOfMemory", "Linkage"}), NewCharArray |-> Object({"OutOfMemory"}),
   GetArrayLength |-> Void({"Argument"})]

Natives == [RegisterNatives |-> Void({"Linkage", "Internal"})]

Locks == [MonitorEnter |-> Void({"Argument", "OutOfMemory"}), MonitorExit |-> Void({"Argument"})]

Reflected ==
  [ToReflectedField |-> Object({"OutOfMemory", "Thrown"}),
   ToReflectedMethod |-> Object({"OutOfMemory", "Thrown"})]

Buffers ==
  [NewDirectByteBuffer |-> Object({"OutOfMemory", "Thrown"}),
   GetDirectBufferAddress |-> Void({"Argument"})]

Groups ==
  {InstanceFields, StaticFields, CallsNonvirtual, CallsVirtual, CallsStatic, IDs, ObjectClasses,
   ObjectArrays, ArrayRegions, Classes, ClassRelations, Throws, Allocation, StringChars,
   NewArrays, Natives, Locks, Reflected, Buffers}

Primitive == [f \in UNION {DOMAIN g : g \in Groups} |-> (CHOOSE g \in Groups : f \in DOMAIN g)[f]]

-----------------------------------------------------------------------------
(* The functions that call other JNI functions, step by step.  A call in    *)
(* such a function of another such function is a single step.               *)

Call(to, f, args) == [do |-> "call", to |-> to, f |-> f, args |-> args]
Delete(v) == [do |-> "delete", args |-> {v}]
\* if (ExceptionCheck()) { delete the undo; return NULL; }
Check(undo) == [do |-> "check", args |-> undo]
Return(S) == [do |-> "return", args |-> S]

NewObject ==
  <<Call("obj", "AllocObject", {}), Check({}),
    Call("none", "CallNonvirtualVoidMethod", {"obj"}), Check({"obj"}),
    Return({"obj"})>>

NewString ==
  <<Call("array", "NewCharArray", {}), Check({}),
    Call("none", "SetCharArrayRegion", {"array"}), Check({"array"}),
    Call("class", "FindClass", {}), Check({"array"}),
    Call("none", "GetMethodID", {"class"}), Delete("class"), Check({"array"}),
    Call("string", "NewObject", {"class", "array"}), Delete("array"),
    Return({"string"})>>

GetStringLength ==
  <<Call("class", "FindClass", {}), Check({}),
    Call("none", "GetMethodID", {"class"}), Delete("class"), Check({}),
    Call("none", "CallIntMethod", {}),
    Return({})>>

\* Mutant: the object returned by toCharArray() is used unchecked.
GetStringRegionUnchecked ==
  <<Call("class", "FindClass", {}), Check({}),
    Call("none", "GetMethodID", {"class"}), Delete("class"), Check({}),
    Call("chars", "CallObjectMethod", {}),
    Call("none", "GetCharArrayRegion", {"chars"}), Delete("chars"),
    Return({})>>

GetStringRegion ==
  <<Call("class", "FindClass", {}), Check({}),
    Call("none", "GetMethodID", {"class"}), Delete("class"), Check({}),
    Call("chars", "CallObjectMethod", {}), Check({}),
    Call("none", "GetCharArrayRegion", {"chars"}), Delete("chars"),
    Return({})>>

ThrowNew ==
  <<Call("none", "GetMethodID", {}), Check({}),
    Call("string", "NewStringUTF", {}), Check({}),
    Call("obj", "NewObject", {"string"}), Delete("string"), Check({}),
    Call("none", "Throw", {"obj"}), Delete("obj"),
    Return({})>>

Composite ==
  [NewObject |-> NewObject, NewString |-> NewString, GetStringLength |-> GetStringLength,
   GetStringRegion |-> GetStringRegion, ThrowNew |-> ThrowNew]

Variables == {"obj", "array", "class", "string", "chars"}

\* What a call of a function may come to.
Kind(f) == IF f \in DOMAIN Primitive THEN Primitive[f] ELSE Object({"OutOfMemory", "Thrown"})

-----------------------------------------------------------------------------
Scope(n, method) == [base |-> n, method |-> method]

\* A native method gets a frame with references to its object or class, and to the
\* objects among its parameters, and room for MinRefs more.
Entered(fs, params) ==
  LET extra == Len(params) + MinRefs
      room == Extended(Append(fs, Frame(FALSE)), IF extra > RefsPerFrame THEN extra - RefsPerFrame ELSE 0)
      After[k \in 0 .. Len(params)] ==
        IF k = 0 THEN [frames |-> room, refs |-> {}]
        ELSE LET new == NewLocal(After[k - 1].frames, params[k])
             IN  [frames |-> new.frames, refs |-> After[k - 1].refs \cup {new.ref}]
  IN  After[Len(params)]

Init ==
  LET entered == Entered(<<>>, <<CHOOSE o \in Objects : o # Result>>)
  IN  /\ frames = entered.frames /\ refs = entered.refs
      /\ globals = <<>> /\ exc = NoExc /\ scopes = <<Scope(1, TRUE)>>
      /\ code = <<>> /\ temps = [v \in Variables |-> NoRef] /\ own = {}
      /\ theirs = {} /\ update = <<>> /\ lost = {} /\ raced = FALSE

Calling == code = <<>> /\ exc = NoExc
Locals(S) == {r \in S : r.at[1] = "local"}
Globals(S) == {r \in S : r.at[1] = "global"}
Refs(ref) == IF ref = NoRef THEN {} ELSE {ref}
Room == Cardinality(refs \cup theirs) < MaxRefs

\* The references that native code has, the word that one is of, and their objects.
Has == refs \ lost
Deref(r) == (IF r.at[1] = "local" THEN frames ELSE globals)[r.at[2]].refs[r.at[3]]
Held == {Deref(r) : r \in Has} \ {NoRef}

-----------------------------------------------------------------------------
(* One function, in its own frame: an exception and no object, or one that  *)
(* was left in env->retval, or no exception and the object.  An object      *)
(* needs a reference in the caller's frame.                                 *)

Perform(f) ==
  LET kind == Kind(f)
      Ends(o, e) ==
        LET fs == Pop(Append(frames, Frame(FALSE)), o)
        IN  [frames |-> fs.frames, ref |-> fs.ref, exc |-> IF Full(frames, o) THEN "Internal" ELSE e]
  IN  {Ends(NoRef, e) : e \in kind.posts}
      \cup (IF kind.result = "retval" THEN {Ends(Result, e) : e \in kind.posts} ELSE {})
      \cup (IF kind.result \in {"object", "value", "retval"} THEN {Ends(Result, NoExc)} ELSE {})
      \cup (IF kind.result \in {"none", "value", "retval"} THEN {Ends(NoRef, NoExc)} ELSE {})

CallPrimitive ==
  /\ Calling /\ Room
  /\ \E f \in DOMAIN Primitive \ NotCalled : \E end \in Perform(f) :
       frames' = end.frames /\ exc' = end.exc /\ refs' = refs \cup Refs(end.ref)
  /\ UNCHANGED <<globals, lost, scopes, code, temps, own, theirs, update, raced>>

CallComposite ==
  /\ Calling /\ Room
  /\ \E f \in DOMAIN Composite \ NotCalled : code' = Composite[f]
  /\ UNCHANGED <<frames, globals, exc, refs, lost, scopes, temps, own, theirs, update, raced>>

Step == code # <<>>
Do == Head(code).do
Args == {temps[v] : v \in Head(code).args}

\* A reference that comes with an exception is left behind.
CompositeCall ==
  /\ Step /\ Do = "call"
  /\ \E end \in Perform(Head(code).f) :
       /\ frames' = end.frames /\ exc' = end.exc
       /\ IF exc' = NoExc THEN own' = own \cup Refs(end.ref) /\ UNCHANGED <<refs, lost>>
          ELSE refs' = refs \cup Refs(end.ref) /\ lost' = lost \cup Refs(end.ref) /\ UNCHANGED own
       /\ temps' = IF Head(code).to = "none" THEN temps ELSE [temps EXCEPT ![Head(code).to] = end.ref]
  /\ code' = Tail(code)
  /\ UNCHANGED <<globals, scopes, theirs, update, raced>>

\* Each of S is freed.
FreeAll(S) ==
  [n \in DOMAIN frames |->
     LET slots == {ref.at[3] : ref \in {ref \in S : ref.at[2] = n}}
         left(i) == IF i \in slots THEN NoRef ELSE frames[n].refs[i]
     IN  [frames[n] EXCEPT !.used = @ \ slots, !.refs = [i \in 1 .. RefsPerFrame |-> left(i)]]]

Finish == code' = <<>> /\ own' = {} /\ temps' = [v \in Variables |-> NoRef]

\* DeleteLocalRef() does nothing for NULL, and leaves the C variable as it is.
CompositeDelete ==
  /\ Step /\ Do = "delete"
  /\ frames' = FreeAll(Args \ {NoRef}) /\ own' = own \ Args /\ code' = Tail(code)
  /\ UNCHANGED <<globals, exc, refs, lost, scopes, temps, theirs, update, raced>>

CompositeCheck ==
  /\ Step /\ Do = "check"
  /\ IF exc = NoExc THEN code' = Tail(code) /\ UNCHANGED <<frames, own, temps>>
     ELSE frames' = FreeAll(Args \ {NoRef}) /\ Finish
  /\ UNCHANGED <<globals, exc, refs, lost, scopes, theirs, update, raced>>

CompositeReturn ==
  /\ Step /\ Do = "return"
  /\ refs' = refs \cup (Args \ {NoRef}) /\ Finish
  /\ UNCHANGED <<frames, globals, exc, lost, scopes, theirs, update, raced>>

-----------------------------------------------------------------------------
(* References *)

NewLocalRef ==
  /\ Calling /\ Room
  /\ \E o \in Held :
       LET new == NewLocal(frames, o)
       IN  /\ frames' = new.frames /\ refs' = refs \cup Refs(new.ref)
           /\ exc' = IF Full(frames, o) THEN "Internal" ELSE exc
  /\ UNCHANGED <<globals, lost, scopes, code, temps, own, theirs, update, raced>>

DeleteLocalRef ==
  /\ code = <<>>
  /\ \E r \in Locals(Has) : frames' = FreeRef(frames, r) /\ refs' = refs \ {r}
  /\ UNCHANGED <<globals, exc, lost, scopes, code, temps, own, theirs, update, raced>>

\* A new frame is made when all are full, unless there is no memory.
NewGlobal(o) ==
  LET room == {n \in DOMAIN globals : Free(globals[n]) # {}}
      n == IF room = {} THEN Len(globals) + 1 ELSE Max(room)
      gs == IF room = {} THEN Append(globals, Frame(FALSE)) ELSE globals
      i == Min(Free(gs[n]))
  IN  [globals |-> [gs EXCEPT ![n] = Taken(@, i, o)], ref |-> Ref("global", n, i, o), new |-> room = {}]

\* Flags are changed by reading and writing the word, in DeleteGlobalRef() without
\* vm->mutex: native code changes those of frame n between the two of the other thread.
Races(n) == update # <<>> /\ update[1].n = n

\* NewGlobalRef(), and GetArrayElements() for the array behind the elements.  None is
\* made any more once flags are wrong (a bound).
NewGlobalRef ==
  /\ Calling /\ Room /\ ~raced
  /\ \E o \in Held :
       LET made == NewGlobal(o)
       IN  \/ /\ globals' = made.globals /\ Len(globals') <= MaxGlobals
              /\ refs' = refs \cup {made.ref} /\ UNCHANGED exc
              /\ raced' = (raced \/ Races(made.ref.at[2]))
           \/ made.new /\ exc' = "OutOfMemory" /\ UNCHANGED <<globals, refs, raced>>
  /\ UNCHANGED <<frames, lost, scopes, code, temps, own, theirs, update>>

\* DeleteGlobalRef(), and ReleaseArrayElements() when the mode is not JNI_COMMIT.
DeleteGlobalRef ==
  /\ code = <<>>
  /\ \E r \in Globals(Has) :
       globals' = FreeRef(globals, r) /\ refs' = refs \ {r} /\ raced' = (raced \/ Races(r.at[2]))
  /\ UNCHANGED <<frames, exc, lost, scopes, code, temps, own, theirs, update>>

\* The other thread has one reference at a time, and makes none once flags are wrong (bounds).
OtherNewGlobalRef ==
  /\ update = <<>> /\ Room /\ theirs = {} /\ ~raced
  /\ \E o \in Objects \ {Result} :
       LET made == NewGlobal(o)
       IN  globals' = made.globals /\ Len(globals') <= MaxGlobals /\ theirs' = theirs \cup {made.ref}
  /\ UNCHANGED <<frames, exc, refs, lost, scopes, code, temps, own, update, raced>>

OtherDeleteGlobalRef ==
  /\ update = <<>>
  /\ \E r \in theirs :
       LET n == r.at[2]
           freed == FreeRef(globals, r)
       IN  /\ theirs' = theirs \ {r}
           /\ globals' = [globals EXCEPT ![n].refs[r.at[3]] = NoRef]
           /\ update' = <<[n |-> n, used |-> freed[n].used]>>
  /\ UNCHANGED <<frames, exc, refs, lost, scopes, code, temps, own, raced>>

OtherWritesFlags ==
  /\ update # <<>>
  /\ globals' = [globals EXCEPT ![update[1].n].used = update[1].used] /\ update' = <<>>
  /\ UNCHANGED <<frames, exc, refs, lost, scopes, code, temps, own, theirs, raced>>

-----------------------------------------------------------------------------
(* Frames of local references *)

\* Extensions that were made are taken back when one cannot be.
EnsureLocalCapacity ==
  /\ Calling /\ \E n \in Capacities :
       \/ /\ frames' = Extended(frames, n) /\ Len(frames') <= MaxFrames /\ UNCHANGED exc
       \/ n > 0 /\ exc' = "OutOfMemory" /\ UNCHANGED frames
  /\ UNCHANGED <<globals, refs, lost, scopes, code, temps, own, theirs, update, raced>>

PushLocalFrame ==
  /\ Calling /\ Len(scopes) < MaxScopes
  /\ \E n \in Capacities :
       \/ /\ frames' = (IF n = 0 THEN frames ELSE Pushed(frames, n)) /\ Len(frames') <= MaxFrames
          /\ scopes' = Append(scopes, Scope(Len(frames) + 1, FALSE)) /\ UNCHANGED exc
       \/ n > 0 /\ exc' = "OutOfMemory" /\ UNCHANGED <<frames, scopes>>
  /\ UNCHANGED <<globals, refs, lost, code, temps, own, theirs, update, raced>>

\* The references of the innermost scope are gone.
Remaining == {r \in refs : r.at[1] = "global" \/ r.at[2] < Last(scopes).base}

\* What native code may hand on: nothing while an exception is pending.
Results == (IF exc = NoExc THEN Held ELSE {}) \cup {NoRef}

PopTo(fs, o) ==
  LET popped == Pop(fs, o)
  IN  /\ frames' = popped.frames /\ refs' = Remaining \cup Refs(popped.ref)
      /\ lost' = lost \cap Remaining
      /\ exc' = IF o # NoRef /\ popped.ref = NoRef THEN "Internal" ELSE exc

PopLocalFrame ==
  /\ code = <<>> /\ Len(scopes) > 1 /\ ~Last(scopes).method
  /\ \E o \in Results : PopTo(frames, o)
  /\ scopes' = Front(scopes)
  /\ UNCHANGED <<globals, code, temps, own, theirs, update, raced>>

-----------------------------------------------------------------------------
(* Native methods that native code calls through Java, and exceptions *)

\* A function that calls methods has its own frame below that of the method.
EnterNative ==
  /\ Calling /\ Room /\ Len(scopes) < MaxScopes
  /\ \E params \in {<<o>> : o \in Held} \cup {<<o, Result>> : o \in Held} :
       LET entered == Entered(Append(frames, Frame(FALSE)), params)
       IN  /\ frames' = entered.frames /\ Len(frames') <= MaxFrames
           /\ refs' = refs \cup entered.refs
  /\ scopes' = Append(scopes, Scope(Len(frames) + 1, TRUE))
  /\ UNCHANGED <<globals, exc, lost, code, temps, own, theirs, update, raced>>

\* What is left in the method's frame goes, and the caller gets the result.  That is
\* read when the frame is gone: from the stack, but from memory that is free, and may
\* have any object, when the reference is in an extension of the frame.
Dangling == {r \in Locals(Has) : r.at[2] > Last(scopes).base + 1}
Returned == IF exc = NoExc /\ Dangling # {} THEN Objects \cup {NoRef} ELSE Results

LeaveNative ==
  /\ code = <<>> /\ Len(scopes) > 1 /\ Last(scopes).method
  /\ \E o \in Returned : PopTo(Pop(frames, NoRef).frames, o)
  /\ scopes' = Front(scopes)
  /\ UNCHANGED <<globals, code, temps, own, theirs, update, raced>>

\* Native code sees to it that there is room for the reference.
ExceptionOccurred ==
  /\ code = <<>> /\ Room /\ exc # NoExc
  /\ ~Full(frames, Result)
  /\ frames' = NewLocal(frames, Result).frames /\ refs' = refs \cup {NewLocal(frames, Result).ref}
  /\ UNCHANGED <<globals, exc, lost, scopes, code, temps, own, theirs, update, raced>>

ExceptionClear ==
  /\ code = <<>> /\ exc # NoExc /\ exc' = NoExc
  /\ UNCHANGED <<frames, globals, refs, lost, scopes, code, temps, own, theirs, update, raced>>

Next ==
  \/ CallPrimitive \/ CallComposite
  \/ CompositeCall \/ CompositeDelete \/ CompositeCheck \/ CompositeReturn
  \/ NewLocalRef \/ DeleteLocalRef \/ NewGlobalRef \/ DeleteGlobalRef
  \/ OtherNewGlobalRef \/ OtherDeleteGlobalRef \/ OtherWritesFlags
  \/ EnsureLocalCapacity \/ PushLocalFrame \/ PopLocalFrame
  \/ EnterNative \/ LeaveNative \/ ExceptionOccurred \/ ExceptionClear

Spec == Init /\ [][Next]_jnivars

-----------------------------------------------------------------------------
(* Properties *)

Used(list, fs) == UNION {{Ref(list, n, i, fs[n].refs[i]) : i \in fs[n].used} : n \in DOMAIN fs}
SlotsOf(S) == {r.at : r \in S}

\* Through pushed and extended frames, native methods that call each other, the
\* functions that call others and fail half-way, and two threads' global references,
\* the slots in use are those of the references that somebody has or a failing call
\* has left behind: each is used once and has the object it was made for, no reference
\* that was deleted or went with its frame is used, and nothing else is left behind.
\* For global references this is so until two threads have changed a frame's flags at
\* the same time; a slot that the other thread has emptied is about to be marked free.
SlotsAreHandles ==
  /\ Used("local", frames) = Locals(refs) \cup own
  /\ SlotsOf(refs) \cap SlotsOf(own) = {}
  /\ ~raced =>
       /\ {r \in Used("global", globals) : update # <<>> => r.obj # NoRef} = Globals(refs) \cup theirs
       /\ SlotsOf(refs) \cap SlotsOf(theirs) = {}
  /\ Step => Args \subseteq own \cup {NoRef}

\* The first exception is what native code sees in the end: a function that calls
\* others calls none while an exception is pending and returns an object just if
\* there was none, and no clean-up replaces the exception.  (Within one function an
\* InternalError may replace another exception: when it has an object to return, as
\* env->retval of a call that failed, and the frame is full.)
ErrorsKept ==
  [][/\ exc # NoExc => exc' = exc \/ (code = <<>> /\ exc' = NoExc)
     /\ Step /\ Do = "call" => exc = NoExc
     /\ Step /\ Do = "return" /\ Args # {} => (NoRef \notin Args <=> exc = NoExc)]_jnivars

-----------------------------------------------------------------------------
(* What the properties rest on *)

\* PushLocalFrame(0) pushes no frame, so that PopLocalFrame() takes another one, and
\* NewString() uses a reference to a class that it has deleted.  Native code calls neither.
LocalRules == 0 \notin Capacities /\ "NewString" \in NotCalled

\* A slot that is in use for a reference, and frames none of whose used slots is empty.
IsIn(r, fs) ==
  /\ r.at[2] \in DOMAIN fs /\ r.at[3] \in fs[r.at[2]].used
  /\ fs[r.at[2]].refs[r.at[3]] = r.obj
AllFull(fs) == \A n \in DOMAIN fs : \A i \in fs[n].used : fs[n].refs[i] \in Objects

\* The references in S are those of the slots in use.
Holds(list, fs, S) ==
  /\ \A r \in S : r \in References /\ r.at[1] = list /\ IsIn(r, fs)
  /\ \A n \in DOMAIN fs : \A i \in fs[n].used :
       fs[n].refs[i] \in Objects => Ref(list, n, i, fs[n].refs[i]) \in S

\* The other thread's word is still what it will be.
UpdateHolds ==
  IF update = <<>> THEN AllFull(globals)
  ELSE LET n == update[1].n
       IN  /\ n \in DOMAIN globals
           /\ \A m \in DOMAIN globals : \A i \in globals[m].used :
                globals[m].refs[i] \in Objects \/ (m = n /\ i \notin update[1].used)
           /\ update[1].used \subseteq globals[n].used
           /\ \A i \in globals[n].used \ update[1].used : globals[n].refs[i] = NoRef

\* A global frame is never given back.
Slot(n, i) == n \in DOMAIN globals /\ i \in 1 .. RefsPerFrame
InFrames ==
  /\ \A r \in Globals(refs) \cup theirs : r \in References /\ r.at[1] = "global" /\ Slot(r.at[2], r.at[3])
  /\ update # <<>> => update[1].n \in DOMAIN globals /\ update[1].used \subseteq 1 .. RefsPerFrame

GlobalHandles ==
  Holds("global", globals, Globals(refs) \cup theirs) /\ UpdateHolds /\ refs \cap theirs = {}

Handles ==
  /\ Holds("local", frames, Locals(refs) \cup own) /\ AllFull(frames)
  /\ refs \cap own = {} /\ refs \subseteq References /\ InFrames
  /\ ~raced => GlobalHandles

\* A scope begins with a frame that extends nothing, a native method but for the first
\* with two: its caller's, and its own.
First(k) == IF k > 1 /\ scopes[k].method THEN scopes[k].base + 1 ELSE scopes[k].base
Stacked ==
  /\ scopes # <<>> /\ scopes[1] = Scope(1, TRUE)
  /\ \A k \in DOMAIN scopes : scopes[k].base \in DOMAIN frames /\ First(k) \in DOMAIN frames
  /\ \A j, k \in DOMAIN scopes : j < k => First(j) < scopes[k].base
  /\ \A n \in DOMAIN frames :
       ~frames[n].extension <=> \E k \in DOMAIN scopes : n \in {scopes[k].base, First(k)}

\* From the kth step on: the variables whose references are handed back, by deletion or
\* as the result, and those that get one.
Frees(c, k) == UNION {c[j].args : j \in {j \in k .. Len(c) : c[j].do \in {"delete", "return"}}}
Assigns(c, k) == {c[j].to : j \in {j \in k .. Len(c) : c[j].do = "call"}}
\* The steps from k on end in m, which looks for an exception first.
Notices(c, k, m) == m >= k /\ c[m].do = "check" /\ \A j \in k .. m - 1 : c[j].do = "delete"

\* With an exception pending at the kth step of a function, there is a look at it before
\* the next call, and it gives back all that is left; one is not returned with an object.
Cautious(c, k, kept) ==
  /\ \A j \in k .. Len(c) : c[j].do = "call" => \E m \in k .. j - 1 : c[m].do = "check"
  /\ c[Len(c)].args # {} => \E m \in k .. Len(c) : c[m].do = "check"
  /\ \A m \in k .. Len(c) : Notices(c, k, m) =>
       kept \subseteq c[m].args \cup UNION {c[j].args : j \in k .. m - 1}

\* A function that calls others uses what it has, deletes or returns it once, and looks
\* for exceptions.
WellMade(c) ==
  /\ c # <<>> /\ c[Len(c)].args \subseteq Assigns(c, 1)
  /\ \A k \in DOMAIN c :
       /\ c[k].do \in {"call", "delete", "check", "return"} /\ (c[k].do = "return" <=> k = Len(c))
       /\ c[k].args \subseteq Frees(c, k)
       /\ c[k].do = "delete" => c[k].args \cap Frees(c, k + 1) = {}
       /\ c[k].do = "call" =>
            /\ c[k].to \in Frees(c, k + 1) \cup {"none"}
            /\ c[k].to # "none" => c[k].to \notin Assigns(c, k + 1)
            /\ c[k].to \in c[Len(c)].args => Kind(c[k].f).result = "object"
            /\ c[k].to = "none" => Kind(c[k].f).result \in {"none", "throws"}
            /\ Kind(c[k].f).result = "retval" => c[k + 1].do = "check" /\ c[k].to \notin c[k + 1].args
            /\ Cautious(c, k + 1, Frees(c, k + 1) \ Assigns(c, k))

\* Native code is at step k of such a function.  A reference that was left behind is
\* still in a variable when the exception that came with it is looked for.
RunsAt(c, k) ==
  /\ code = SubSeq(c, k, Len(c))
  /\ own \subseteq {temps[v] : v \in Frees(c, k)} \ {NoRef}
  /\ \A v \in Frees(c, k) :
       temps[v] \notin own \cup {NoRef} => exc # NoExc /\ c[k].do = "check" /\ v \notin c[k].args
  /\ \A v, w \in Frees(c, k) : v # w /\ temps[v] = temps[w] => temps[v] = NoRef
  /\ \A v \in Assigns(c, k) \ {"none"} : temps[v] = NoRef
  /\ exc = NoExc => \A v \in c[Len(c)].args \ Assigns(c, k) : temps[v] # NoRef
  /\ exc # NoExc => Cautious(c, k, {v \in Frees(c, k) : temps[v] \in own})

Runs ==
  \/ code = <<>> /\ own = {} /\ \A v \in Variables : temps[v] = NoRef
  \/ \E f \in DOMAIN Composite \ NotCalled : \E k \in DOMAIN Composite[f] : RunsAt(Composite[f], k)

FrameType ==
  [extension : BOOLEAN, used : SUBSET (1 .. RefsPerFrame),
   refs : [1 .. RefsPerFrame -> Objects \cup {NoRef}]]

JniTypeOK ==
  /\ frames \in Seq(FrameType) /\ globals \in Seq(FrameType)
  /\ exc \in Posted \cup {NoExc}
  /\ scopes \in Seq([base : Nat, method : BOOLEAN])
  /\ temps \in [Variables -> References \cup {NoRef}]
  /\ raced \in BOOLEAN /\ IsFiniteSet(refs) /\ IsFiniteSet(own) /\ IsFiniteSet(theirs)

IInv == JniTypeOK /\ Handles /\ Stacked /\ Runs
=============================================================================
