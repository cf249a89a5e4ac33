SPECIFICATION MCSpec
CONSTANTS
 None=None
 NoMethod=NoMethod
 i1=i1
 e1=e1
 e2=e2
 j1=j1
 k1=k1
 cons=cons
 Methods={i1,e1,e2,j1,k1,cons}
 KindOf <- MCKind
 Traps <- MCTraps
 Synchronized={i1,j1,k1}
 Constructor=cons
 NullPointer=NullPointer
 StackOverflow=StackOverflow
 OutOfMemory=OutOfMemory
 AnyType=AnyType
 LockMayFail={i1,j1,k1}
 MaxPc=1
 MaxDepth=6
 MaxCalls=7
 MaxParams=4
 LocalVariables={0,1}
 Signatures <- MCSignatures
 MaxWords=4
 Objects={o1,o2}
 Result=o2
 NoRef=NoRef
 NoExc=NoExc
 RefsPerFrame=2
 MinRefs=1
 Capacities={3}
 NotCalled={"NewString"}
 MaxFrames=3
 MaxScopes=2
 MaxGlobals=1
 MaxRefs=3
 Obj=Obj
 Cl=Cl
 Ci=Ci
 Ki=Ki
 Ca=Ca
 Cb=Cb
 Types={Obj,Cl,Ci,Ki,Ca,Cb}
 Interfaces={Cl,Ci,Ki}
 Chain <- MCChain
 Abstract={Ca}
 Final={Cb}
 ArraySupers={Obj,Cl}
 Sigs <- MCSigs
 Bucket <- MCBucket
 Package <- MCPackage
 Declarable <- MCDeclarable
 Implementable <- MCImplementable
 JniInterfaces=FALSE
 LowerArrays=FALSE
 Files <- MCFiles
INVARIANT StacksAgree
INVARIANT MonitorsBalanced
INVARIANT ArgumentsArrive
INVARIANT SlotsAreHandles
INVARIANT CallsSelect
INVARIANT AssignableIsSubtype
INVARIANT ParsedAsWritten
PROPERTY HandlerFound
PROPERTY RunsBytecode
PROPERTY ErrorsKept
CHECK_DEADLOCK FALSE
